--------------------------- MODULE ProgramsProofs ---------------------------
(***************************************************************************)
(* Theorems of the programs outside the kernel, for any constants of the   *)
(* parts they are about.                                                   *)
(*                                                                         *)
(* Mount: the drives, in order, and no letter taken over. Lease: an        *)
(* address is one machine's, and what it asked for last; the invariant     *)
(* says what is under way. Write: hosts.net is what it was or what it is   *)
(* to be. Clock: the records of the log agree with the clock. At the end,  *)
(* what the run checks of them together (PInv): a behaviour is one of one  *)
(* part.                                                                   *)
(***************************************************************************)
EXTENDS Programs, WellFoundedInduction, TLAPS

LEMMA Smallest ==
  ASSUME NEW S, S \subseteq Nat, S # {}
  PROVE \E x \in S: \A y \in S: x <= y
<1> DEFINE R == {ss \in Nat \X Nat: ss[1] < ss[2]}
<1>1. IsWellFoundedOn(R, Nat)
  BY NatLessThanWellFounded DEF OpToRel
<1>2. \A x, y \in Nat: y < x => <<y, x>> \in R
  OBVIOUS
<1> HIDE DEF R
<1>3. \E x \in S: \A y \in S: ~(<<y, x>> \in R)
  BY <1>1, WFMin
<1>4. \A x, y \in S: ~(y < x) => x <= y
  OBVIOUS
<1> QED  BY <1>3, <1>2, <1>4

-----------------------------------------------------------------------------
(***************************************************************************)
(* ufs.xfs: the drives                                                     *)
(***************************************************************************)
DriveTypes ==
  /\ disks \in [1 .. Slices -> Mount!Kinds] /\ mat \in 1 .. Slices + 1
  /\ ufs \in [0 .. Drives - 1 -> 0 .. Slices]
  /\ pending \in Mount!None .. Drives - 1 /\ nextDrive \in FirstDrive .. Drives
(* The drive under way is free, past the last one given, and of a slice    *)
(* that has a superblock; there was room for it.                           *)
UnderWay ==
  pending # Mount!None =>
    /\ pending >= nextDrive /\ pending # Reserved /\ pending \notin bits /\ ufs[pending] = 0
    /\ mat <= Slices /\ disks[mat].use /\ disks[mat].sb /\ ~Mount!Full
(* The drives given lie before the next, their slices before the next one. *)
Behind == \A d \in Mount!Mounted : d < nextDrive /\ ufs[d] < mat
(* The slices gone by                                                      *)
HasDrive(i) == Mount!Good(i) /\ i \notin failed => Mount!Full \/ \E d \in Mount!Mounted : ufs[d] = i
MInv == DriveTypes /\ UnderWay /\ Behind /\ Mount!DrivesSound

LEMMA FreeLeast ==
  ASSUME Mount!UfsMountAssumption, MInv, Mount!Free # {}
  PROVE  LET p == CHOOSE d \in Mount!Free : \A e \in Mount!Free : d <= e
         IN  p \in Mount!Free
<1>1. Mount!Free \subseteq Nat
  BY DEF Mount!UfsMountAssumption, MInv, DriveTypes, Mount!Free
<1>2. \E d \in Mount!Free : \A e \in Mount!Free : d <= e
  BY <1>1, Smallest
<1> QED  BY <1>2

LEMMA BeginKept ==
  ASSUME Mount!UfsMountAssumption, MInv, Mount!Begin
  PROVE  MInv'
<1>1. /\ mat <= Slices /\ pending = Mount!None /\ disks[mat].use /\ disks[mat].sb /\ ~Mount!Full
      /\ di' = di \cup {pending'} /\ disks' = disks /\ mat' = mat /\ bits' = bits /\ ufs' = ufs
      /\ nextDrive' = nextDrive /\ failed' = failed /\ pending' \in Mount!Free
  BY FreeLeast DEF Mount!Begin, Mount!Full
<1>f. Mount!Full' = Mount!Full
  BY <1>1 DEF Mount!Full, Mount!Free, Mount!Mounted
<1>2. /\ pending' \in nextDrive .. Drives - 1 /\ pending' # Reserved /\ pending' \notin bits /\ ufs[pending'] = 0
  BY <1>1 DEF Mount!Free
<1>3. pending' \in 0 .. Drives - 1
  BY <1>2 DEF Mount!UfsMountAssumption, MInv, DriveTypes
<1>4. DriveTypes'
  BY <1>1, <1>3 DEF MInv, DriveTypes, Mount!None
<1>5. UnderWay'
  BY <1>1, <1>2, <1>3, <1>f DEF UnderWay
<1>6. Mount!Mounted' = Mount!Mounted
  BY <1>1 DEF Mount!Mounted
<1>7. Behind'
  BY <1>1, <1>6 DEF MInv, Behind
<1>8. pending' # Mount!None
  BY <1>3 DEF Mount!None, Mount!UfsMountAssumption
<1>9. Mount!DrivesSound'
  BY <1>1, <1>6, <1>8, <1>f DEF MInv, Mount!DrivesSound, Mount!Good
<1> QED  BY <1>4, <1>5, <1>7, <1>9 DEF MInv

LEMMA PassOverKept ==
  ASSUME Mount!UfsMountAssumption, MInv, Mount!PassOver
  PROVE  MInv'
<1>1. /\ mat <= Slices /\ pending = Mount!None /\ mat' = mat + 1 /\ pending' = Mount!None
      /\ disks' = disks /\ bits' = bits /\ ufs' = ufs /\ di' = di /\ nextDrive' = nextDrive
      /\ \/ (~disks[mat].use \/ ~disks[mat].sb \/ Mount!Full) /\ failed' = failed
         \/ failed' = failed \cup {mat}
  BY DEF Mount!PassOver, Mount!Skip, Mount!Failed
<1>2. DriveTypes' /\ UnderWay'
  BY <1>1 DEF Mount!UfsMountAssumption, MInv, DriveTypes, UnderWay
<1>3. Mount!Mounted' = Mount!Mounted /\ Mount!Full' = Mount!Full
  BY <1>1 DEF Mount!Full, Mount!Free, Mount!Mounted
<1>4. Behind'
  BY <1>1, <1>3 DEF MInv, Behind, DriveTypes, Mount!Mounted
<1>7. mat \in Nat /\ \A i \in 1 .. mat' - 1 : i = mat \/ i \in 1 .. mat - 1
  BY <1>1 DEF Mount!UfsMountAssumption, MInv, DriveTypes
<1>8. ASSUME NEW i \in 1 .. mat' - 1
      PROVE  HasDrive(i)'
  <2>1. CASE i \in 1 .. mat - 1
    BY <1>1, <1>3, <2>1 DEF MInv, Mount!DrivesSound, HasDrive, Mount!Good
  <2>2. CASE i = mat
    <3> QED  BY <1>1, <1>3, <2>2 DEF HasDrive, Mount!Good
  <2> QED  BY <1>7, <2>1, <2>2
<1>5. Mount!DrivesSound'
  BY <1>1, <1>3, <1>8 DEF MInv, Mount!DrivesSound, HasDrive, Mount!Good
<1> QED  BY <1>2, <1>4, <1>5 DEF MInv

LEMMA FailKept ==
  ASSUME Mount!UfsMountAssumption, MInv, Mount!Fail
  PROVE  MInv'
<1>1. /\ pending # Mount!None /\ mat' = mat + 1 /\ pending' = Mount!None /\ di' = di \ {pending}
      /\ disks' = disks /\ bits' = bits /\ ufs' = ufs /\ nextDrive' = nextDrive
      /\ (~disks[mat].dir /\ failed' = failed) \/ failed' = failed \cup {mat}
  BY DEF Mount!Fail, Mount!Skip, Mount!GivenBack, Mount!Failed
<1>2. mat <= Slices /\ ufs[pending] = 0
  BY <1>1 DEF MInv, UnderWay
<1>3. DriveTypes' /\ UnderWay'
  BY <1>1, <1>2 DEF Mount!UfsMountAssumption, MInv, DriveTypes, UnderWay, Mount!None
<1>4. Mount!Mounted' = Mount!Mounted /\ Mount!Full' = Mount!Full
  BY <1>1 DEF Mount!Full, Mount!Free, Mount!Mounted
<1>5. Behind'
  BY <1>1, <1>4 DEF MInv, Behind, DriveTypes, Mount!Mounted
<1>6. di' = Mount!Mounted
  BY <1>1, <1>2 DEF MInv, Mount!DrivesSound, Mount!Mounted
<1>8. ASSUME NEW i \in 1 .. mat' - 1
      PROVE  HasDrive(i)'
  <2>1. CASE i \in 1 .. mat - 1
    BY <1>1, <1>4, <2>1 DEF MInv, Mount!DrivesSound, HasDrive, Mount!Good
  <2>2. CASE i = mat
    BY <1>1, <1>4, <2>2 DEF HasDrive, Mount!Good
  <2>3. i = mat \/ i \in 1 .. mat - 1
    BY <1>1, <1>2 DEF Mount!UfsMountAssumption, MInv, DriveTypes
  <2> QED  BY <2>1, <2>2, <2>3
<1>7. Mount!DrivesSound'
  BY <1>1, <1>4, <1>6, <1>8 DEF MInv, Mount!DrivesSound, HasDrive, Mount!Good
<1> QED  BY <1>3, <1>5, <1>7 DEF MInv

LEMMA MountKept ==
  ASSUME Mount!UfsMountAssumption, MInv, Mount!Mount
  PROVE  MInv'
<1>1. PICK p : p = pending
  OBVIOUS
<1>2. /\ p # Mount!None /\ disks[mat].dir /\ ufs' = [ufs EXCEPT ![p] = mat] /\ nextDrive' = p + 1
      /\ mat' = mat + 1 /\ pending' = Mount!None /\ disks' = disks /\ di' = di /\ failed' = failed
  BY <1>1 DEF Mount!Mount, Mount!Skip, Mount!After
<1>3. p \in 0 .. Drives - 1 /\ p \in Nat /\ p >= nextDrive /\ nextDrive \in Nat /\ nextDrive >= FirstDrive
  BY <1>1, <1>2 DEF Mount!UfsMountAssumption, MInv, DriveTypes, UnderWay, Mount!None
<1>4. mat \in 1 .. Slices /\ p # Reserved /\ ufs[p] = 0 /\ disks[mat].use /\ disks[mat].sb /\ ~Mount!Full
  BY <1>1, <1>2 DEF Mount!UfsMountAssumption, MInv, DriveTypes, UnderWay
<1>5. DriveTypes'
  BY <1>2, <1>3, <1>4 DEF Mount!UfsMountAssumption, MInv, DriveTypes, Mount!None
<1>6. UnderWay'
  BY <1>2 DEF UnderWay
<1>7. ufs'[p] = mat /\ \A d \in 0 .. Drives - 1 : d # p => ufs'[d] = ufs[d]
  BY <1>2, <1>3 DEF MInv, DriveTypes
<1>8. Mount!Mounted' = Mount!Mounted \cup {p}
  BY <1>3, <1>4, <1>7 DEF Mount!Mounted
<1>9. \A d \in Mount!Mounted : d \in Nat /\ d < p /\ ufs'[d] = ufs[d] /\ ufs[d] \in Nat /\ ufs[d] < mat
  <2> SUFFICES ASSUME NEW d \in Mount!Mounted
               PROVE  d \in Nat /\ d < p /\ ufs'[d] = ufs[d] /\ ufs[d] \in Nat /\ ufs[d] < mat
    OBVIOUS
  <2>1. d \in 0 .. Drives - 1 /\ d \in Nat /\ ufs[d] \in Nat
    BY DEF MInv, DriveTypes, Mount!Mounted, Mount!UfsMountAssumption
  <2>2. d < nextDrive /\ ufs[d] < mat
    BY DEF MInv, Behind
  <2>3. d < p
    BY <1>3, <2>1, <2>2
  <2> QED  BY <1>7, <2>1, <2>2, <2>3
<1>10. Behind'
  BY <1>2, <1>3, <1>4, <1>7, <1>8, <1>9 DEF Behind
<1>11. \A d, e \in Mount!Mounted' : d < e => ufs'[d] < ufs'[e]
  <2> SUFFICES ASSUME NEW d \in Mount!Mounted \cup {p}, NEW e \in Mount!Mounted \cup {p}, d < e
               PROVE  ufs'[d] < ufs'[e]
    BY <1>8
  <2>1. CASE d \in Mount!Mounted /\ e \in Mount!Mounted
    BY <1>9, <2>1 DEF MInv, Mount!DrivesSound
  <2>2. CASE d \in Mount!Mounted /\ e = p
    BY <1>7, <1>9, <2>2
  <2>3. CASE d = p
    BY <1>3, <1>9, <2>3
  <2> QED  BY <2>1, <2>2, <2>3
<1>12. \A d \in Mount!Mounted' :
         disks'[ufs'[d]].use /\ disks'[ufs'[d]].sb /\ disks'[ufs'[d]].dir /\ d >= FirstDrive /\ d # Reserved
  <2> SUFFICES ASSUME NEW d \in Mount!Mounted \cup {p}
               PROVE  disks[ufs'[d]].use /\ disks[ufs'[d]].sb /\ disks[ufs'[d]].dir /\ d >= FirstDrive /\ d # Reserved
    BY <1>2, <1>8
  <2>1. CASE d \in Mount!Mounted
    BY <1>9, <2>1 DEF MInv, Mount!DrivesSound, Mount!Good
  <2>2. CASE d = p
    <3>1. FirstDrive \in Nat
      BY DEF Mount!UfsMountAssumption
    <3> QED  BY <1>2, <1>3, <1>4, <1>7, <2>2, <3>1
  <2> QED  BY <2>1, <2>2
<1>13. di' = Mount!Mounted' /\ pending' = Mount!None
  BY <1>1, <1>2, <1>8 DEF MInv, Mount!DrivesSound
<1>15. ASSUME NEW i \in 1 .. mat' - 1
       PROVE  HasDrive(i)'
  <2>1. CASE i \in 1 .. mat - 1
    <3>1. Mount!Good(i) /\ i \notin failed => \E d \in Mount!Mounted : ufs[d] = i
      BY <1>4, <2>1 DEF MInv, Mount!DrivesSound
    <3> QED  BY <1>2, <1>8, <1>9, <3>1 DEF HasDrive, Mount!Good
  <2>2. CASE i = mat
    BY <1>7, <1>8, <2>2 DEF HasDrive
  <2>3. i = mat \/ i \in 1 .. mat - 1
    BY <1>2, <1>4
  <2> QED  BY <2>1, <2>2, <2>3
<1>14. Mount!DrivesSound'
  BY <1>11, <1>12, <1>13, <1>15 DEF Mount!DrivesSound, Mount!Good, HasDrive
<1> QED  BY <1>5, <1>6, <1>10, <1>14 DEF MInv

LEMMA MountStep ==
  ASSUME Mount!UfsMountAssumption, MInv, [Mount!Next]_(Mount!vars)
  PROVE  MInv'
<1>1. CASE Mount!Next
  BY <1>1, PassOverKept, BeginKept, FailKept, MountKept DEF Mount!Next
<1>2. CASE UNCHANGED Mount!vars
  BY <1>2 DEF Mount!vars, MInv, DriveTypes, UnderWay, Behind, Mount!DrivesSound, Mount!Mounted,
                 Mount!Good, Mount!Full, Mount!Free
<1> QED  BY <1>1, <1>2

LEMMA MountInit ==
  ASSUME Mount!UfsMountAssumption, Mount!Init
  PROVE  MInv
<1>1. DriveTypes /\ UnderWay
  BY DEF Mount!Init, Mount!UfsMountAssumption, DriveTypes, UnderWay, Mount!None
<1>2. Mount!Mounted = {}
  BY DEF Mount!Init, Mount!Mounted
<1>3. Behind /\ Mount!DrivesSound
  BY <1>2 DEF Mount!Init, Behind, Mount!DrivesSound
<1> QED  BY <1>1, <1>3 DEF MInv

LEMMA MountInv == ASSUME Mount!UfsMountAssumption PROVE Mount!Spec => []MInv
<1>1. Mount!Init => MInv
  BY MountInit
<1>2. MInv /\ [Mount!Next]_(Mount!vars) => MInv'
  BY MountStep
<1> QED  BY <1>1, <1>2, PTL DEF Mount!Spec

(* Whatever is on the disks and whatever fails, the drives are in the      *)
(* order of their slices, each slice that has one is a UFS slice to use,   *)
(* each such slice gone by has one unless reading it or memory failed or   *)
(* no drive is left, and no descriptor is left over. (ufs_mount_slice)     *)
THEOREM DrivesAreSound == ASSUME Mount!UfsMountAssumption PROVE Mount!Spec => []Mount!DrivesSound
<1>1. MInv => Mount!DrivesSound
  BY DEF MInv
<1> QED  BY <1>1, MountInv, PTL

LEMMA LettersStep ==
  ASSUME MInv, Mount!Next
  PROVE  Mount!LettersKept
<1>1. CASE Mount!PassOver \/ Mount!Begin \/ Mount!Fail
  BY <1>1 DEF Mount!PassOver, Mount!Begin, Mount!Fail, Mount!LettersKept
<1>2. CASE Mount!Mount
  <2>1. ufs' = [ufs EXCEPT ![pending] = mat] /\ pending \notin bits
    BY <1>2 DEF Mount!Mount, MInv, UnderWay
  <2>2. \A d \in bits : d # pending
    BY <2>1
  <2> QED  BY <2>1, <2>2 DEF Mount!LettersKept
<1> QED  BY <1>1, <1>2 DEF Mount!Next

(* No letter the BIOS or a mounted slice has is taken over.                *)
(* (ufs_free_drive)                                                        *)
THEOREM LettersAreKept == ASSUME Mount!UfsMountAssumption PROVE Mount!Spec => [][Mount!LettersKept]_(Mount!vars)
<1>1. MInv /\ [Mount!Next]_(Mount!vars) => [Mount!LettersKept]_(Mount!vars)
  BY LettersStep
<1> QED  BY <1>1, MountInv, PTL DEF Mount!Spec

-----------------------------------------------------------------------------
(***************************************************************************)
(* dhcpc: the exchange                                                     *)
(***************************************************************************)
Leases == [addr: Lease!Addrs \cup {"none"}, server: Servers \cup {"none"}]
Messages == [type: {"discover", "offer", "request", "ack", "nak"}, to: Clients, xid: Nat, lease: Leases]

Kinds ==
  /\ dpc \in [Clients -> {"start", "offer", "ack", "done", "failed"}]
  /\ xid \in [Clients -> Nat] /\ lease \in [Clients -> Leases]
  /\ dheld \in [Lease!Addrs -> [to: Clients \cup {"none"}, given: BOOLEAN]]
  /\ net \subseteq Messages
Asked(m) == \E q \in net : q.type = "request" /\ q.to = m.to /\ q.xid = m.xid /\ q.lease = m.lease
(* What is under way: nothing of a transaction to come; an address is     *)
(* given to whom the answer names, and was asked for.                     *)
Sent ==
  \A m \in net :
    /\ m.xid <= xid[m.to]
    /\ m.type \in {"offer", "request", "ack"} => m.lease.addr \in Lease!Addrs
    /\ m.type = "ack" => dheld[m.lease.addr] = [to |-> m.to, given |-> TRUE] /\ Asked(m)
GivenTo == \A a \in Lease!Addrs : dheld[a].given => dheld[a].to # "none"
(* A transaction has one request; the answer that ended it was to that,    *)
(* while the ids have not come round.                                      *)
Requests ==
  \A m \in net : m.type = "request" =>
    /\ dpc[m.to] \in {"start", "offer", "failed"} => m.xid < xid[m.to]
    /\ dpc[m.to] = "ack" /\ m.xid = xid[m.to] => m.lease = lease[m.to]
    /\ dpc[m.to] = "done" /\ m.xid = xid[m.to] /\ xid[m.to] < XidByte => m.lease = lease[m.to]
Addressed == \A c \in Clients : dpc[c] = "done" => lease[c].addr \in Lease!Addrs
LInv == Kinds /\ Sent /\ GivenTo /\ Requests /\ Addressed /\ Lease!OwnAddress

(* A server's step: no client changes, and what is given stays given.      *)
ServerStep == dpc' = dpc /\ xid' = xid /\ lease' = lease
Kept == \A a \in Lease!Addrs : dheld[a].given => dheld'[a] = dheld[a]

LEMMA OfferKept ==
  ASSUME Lease!DhcpAssumption, LInv, NEW s \in Servers, Lease!Offer(s)
  PROVE  LInv'
<1>1. PICK m \in net, a \in Pool[s] :
        /\ m.type = "discover" /\ dheld[a].to \in {"none", m.to}
        /\ dheld' = [dheld EXCEPT ![a].to = m.to]
        /\ net' = net \cup {[m EXCEPT !.type = "offer", !.lease = [addr |-> a, server |-> s]]}
        /\ ServerStep
  BY DEF Lease!Offer, Lease!Answer, ServerStep
<1>2. PICK n : n = [m EXCEPT !.type = "offer", !.lease = [addr |-> a, server |-> s]]
  OBVIOUS
<1>3. a \in Lease!Addrs /\ m \in Messages
  BY <1>1 DEF Lease!Addrs, LInv, Kinds
<1>4. n \in Messages /\ n.type = "offer" /\ n.to = m.to /\ n.xid = m.xid /\ n.lease.addr = a
  BY <1>2, <1>3 DEF Messages, Leases
<1>5. Kept
  BY <1>1, <1>3 DEF LInv, Kinds, GivenTo, Kept
<1>6. Kinds'
  <2>1. dheld' \in [Lease!Addrs -> [to: Clients \cup {"none"}, given: BOOLEAN]]
    BY <1>1, <1>3 DEF LInv, Kinds, Messages
  <2> QED  BY <1>1, <1>2, <1>4, <2>1 DEF LInv, Kinds, ServerStep
<1>7. GivenTo'
  BY <1>1, <1>3 DEF LInv, Kinds, GivenTo, Messages, Lease!DhcpAssumption
<1>8. Sent'
  <2> SUFFICES ASSUME NEW q \in net'
               PROVE  /\ q.xid <= xid[q.to]
                      /\ q.type \in {"offer", "request", "ack"} => q.lease.addr \in Lease!Addrs
                      /\ q.type = "ack" => dheld'[q.lease.addr] = [to |-> q.to, given |-> TRUE] /\ Asked(q)'
    BY <1>1 DEF Sent, ServerStep
  <2>1. CASE q \in net
    BY <1>1, <1>5, <2>1 DEF LInv, Sent, Kept, Asked
  <2>2. CASE q = n
    BY <1>1, <1>3, <1>4, <2>2 DEF LInv, Sent
  <2> QED  BY <1>1, <1>2, <2>1, <2>2
<1>9. Requests'
  BY <1>1, <1>2, <1>4 DEF LInv, Requests, ServerStep
<1>10. Addressed' /\ Lease!OwnAddress'
  BY <1>1, <1>5 DEF LInv, Addressed, Lease!OwnAddress, Kept, ServerStep
<1> QED  BY <1>6, <1>7, <1>8, <1>9, <1>10 DEF LInv

LEMMA GiveKept ==
  ASSUME Lease!DhcpAssumption, LInv, NEW s \in Servers, Lease!Give(s)
  PROVE  LInv'
<1>1. PICK m \in net :
        /\ m.type = "request" /\ ServerStep
        /\ IF dheld[m.lease.addr].to = m.to
           THEN dheld' = [dheld EXCEPT ![m.lease.addr].given = TRUE] /\ net' = net \cup {[m EXCEPT !.type = "ack", !.lease = m.lease]}
           ELSE dheld' = dheld /\ net' = net \cup {[m EXCEPT !.type = "nak", !.lease = Lease!NoLease]}
  BY DEF Lease!Give, Lease!Answer, ServerStep
<1>2. PICK a : a = m.lease.addr
  OBVIOUS
<1>3. a \in Lease!Addrs /\ m \in Messages
  BY <1>1, <1>2 DEF LInv, Kinds, Sent
<1>4. PICK n \in Messages :
        /\ net' = net \cup {n} /\ n.to = m.to /\ n.xid = m.xid
        /\ n.type \in {"ack", "nak"}
        /\ n.type = "ack" => n.lease = m.lease /\ dheld' = [dheld EXCEPT ![a].given = TRUE] /\ dheld[a].to = m.to
        /\ n.type = "nak" => dheld' = dheld
  <2>1. CASE dheld[a].to = m.to
    <3> DEFINE n == [m EXCEPT !.type = "ack", !.lease = m.lease]
    <3>1. n \in Messages /\ n.to = m.to /\ n.xid = m.xid /\ n.type = "ack" /\ n.lease = m.lease
      BY <1>3 DEF Messages
    <3>2. net' = net \cup {n} /\ dheld' = [dheld EXCEPT ![a].given = TRUE]
      BY <1>1, <1>2, <2>1
    <3> HIDE DEF n
    <3> QED  BY <2>1, <3>1, <3>2
  <2>2. CASE dheld[a].to # m.to
    <3> DEFINE n == [m EXCEPT !.type = "nak", !.lease = Lease!NoLease]
    <3>1. n \in Messages /\ n.to = m.to /\ n.xid = m.xid /\ n.type = "nak"
      BY <1>3 DEF Messages, Leases, Lease!NoLease
    <3>2. net' = net \cup {n} /\ dheld' = dheld
      BY <1>1, <1>2, <2>2
    <3> HIDE DEF n
    <3> QED  BY <3>1, <3>2
  <2> QED  BY <2>1, <2>2
<1>t. m.to \in Clients /\ dheld \in [Lease!Addrs -> [to: Clients \cup {"none"}, given: BOOLEAN]]
  BY <1>3 DEF LInv, Kinds, Messages
<1>g. n.type = "ack" => dheld' = [dheld EXCEPT ![a] = [to |-> m.to, given |-> TRUE]]
  <2> SUFFICES ASSUME n.type = "ack"
               PROVE  dheld' = [dheld EXCEPT ![a] = [to |-> m.to, given |-> TRUE]]
    OBVIOUS
  <2>1. dheld[a] \in [to: Clients \cup {"none"}, given: BOOLEAN] /\ dheld[a].to = m.to
    BY <1>3, <1>4, <1>t
  <2>2. [dheld[a] EXCEPT !.given = TRUE] = [to |-> m.to, given |-> TRUE]
    <3>1. PICK e : e = [dheld[a] EXCEPT !.given = TRUE]
      OBVIOUS
    <3>2. e \in [to: Clients \cup {"none"}, given: BOOLEAN] /\ e.to = m.to /\ e.given = TRUE
      BY <2>1, <3>1
    <3>3. e = [to |-> m.to, given |-> TRUE]
      BY <3>2
    <3> QED  BY <3>1, <3>3
  <2>3. dheld' = [dheld EXCEPT ![a] = [dheld[a] EXCEPT !.given = TRUE]]
    BY <1>4
  <2> QED  BY <2>2, <2>3
<1>5. Kept
  <2>1. CASE n.type = "nak"
    BY <1>4, <2>1 DEF Kept
  <2>2. CASE n.type = "ack"
    <3> SUFFICES ASSUME NEW b \in Lease!Addrs, dheld[b].given
                 PROVE  dheld'[b] = dheld[b]
      BY DEF Kept
    <3>1. CASE b # a
      BY <1>g, <1>t, <2>2, <3>1
    <3>2. CASE b = a
      <4>1. dheld[a] \in [to: Clients \cup {"none"}, given: BOOLEAN] /\ dheld[a].to = m.to
        BY <1>3, <1>4, <1>t, <2>2
      <4>2. dheld[a].given = TRUE
        BY <3>2, <4>1
      <4>3. dheld[a] = [to |-> m.to, given |-> TRUE]
        BY <4>1, <4>2
      <4>4. dheld'[a] = [to |-> m.to, given |-> TRUE]
        BY <1>3, <1>g, <1>t, <2>2
      <4> QED  BY <3>2, <4>3, <4>4
    <3> QED  BY <3>1, <3>2
  <2> QED  BY <1>4, <2>1, <2>2
<1>6. Kinds'
  <2>1. dheld' \in [Lease!Addrs -> [to: Clients \cup {"none"}, given: BOOLEAN]]
    <3>1. [to |-> m.to, given |-> TRUE] \in [to: Clients \cup {"none"}, given: BOOLEAN]
      BY <1>t
    <3>2. CASE n.type = "ack"
      BY <1>t, <1>g, <3>1, <3>2
    <3>3. CASE n.type = "nak"
      BY <1>4, <1>t, <3>3
    <3> QED  BY <1>4, <3>2, <3>3
  <2> QED  BY <1>1, <1>4, <2>1 DEF LInv, Kinds, ServerStep
<1>7. GivenTo'
  <2>1. CASE n.type = "nak"
    BY <1>4, <2>1 DEF LInv, GivenTo
  <2>2. CASE n.type = "ack"
    BY <1>g, <1>t, <2>2 DEF LInv, GivenTo, Lease!DhcpAssumption
  <2> QED  BY <1>4, <2>1, <2>2
<1>8. Sent'
  <2> SUFFICES ASSUME NEW q \in net'
               PROVE  /\ q.xid <= xid[q.to]
                      /\ q.type \in {"offer", "request", "ack"} => q.lease.addr \in Lease!Addrs
                      /\ q.type = "ack" => dheld'[q.lease.addr] = [to |-> q.to, given |-> TRUE] /\ Asked(q)'
    BY <1>1 DEF Sent, ServerStep
  <2>1. CASE q \in net
    BY <1>4, <1>5, <2>1 DEF LInv, Sent, Kept, Asked
  <2>2. CASE q = n
    <3>1. q.xid <= xid[q.to]
      BY <1>4, <2>2 DEF LInv, Sent
    <3>2. q.type = "ack" => q.lease.addr = a /\ dheld'[a] = [to |-> q.to, given |-> TRUE]
      BY <1>2, <1>3, <1>4, <1>t, <1>g, <2>2
    <3>3. q.type = "ack" => Asked(q)'
      BY <1>1, <1>4, <2>2 DEF Asked
    <3> QED  BY <1>3, <1>4, <2>2, <3>1, <3>2, <3>3
  <2> QED  BY <1>4, <2>1, <2>2
<1>9. Requests'
  BY <1>1, <1>4 DEF LInv, Requests, ServerStep
<1>10. Addressed' /\ Lease!OwnAddress'
  BY <1>1, <1>5 DEF LInv, Addressed, Lease!OwnAddress, Kept, ServerStep
<1> QED  BY <1>6, <1>7, <1>8, <1>9, <1>10 DEF LInv

LEMMA TakeBackKept ==
  ASSUME LInv, NEW a \in Lease!Addrs, Lease!TakeBack(a)
  PROVE  LInv'
<1>1. /\ ~dheld[a].given /\ dheld' = [dheld EXCEPT ![a] = [to |-> "none", given |-> FALSE]]
      /\ net' = net /\ ServerStep
  BY DEF Lease!TakeBack, Lease!Free, ServerStep
<1>2. Kept
  BY <1>1 DEF LInv, Kinds, Kept
<1>3. Kinds' /\ GivenTo'
  BY <1>1 DEF LInv, Kinds, GivenTo, ServerStep
<1>4. Sent' /\ Requests'
  BY <1>1, <1>2 DEF LInv, Sent, Requests, Asked, Kept, ServerStep
<1>5. Addressed' /\ Lease!OwnAddress'
  BY <1>1, <1>2 DEF LInv, Addressed, Lease!OwnAddress, Kept, ServerStep
<1> QED  BY <1>3, <1>4, <1>5 DEF LInv

(* A client's step, as the servers and the others see it: the transaction  *)
(* stays or is the next, and a request is sent in one that had none.       *)
ClientStep(c) ==
  /\ dheld' = dheld
  /\ dpc' \in [Clients -> {"start", "offer", "ack", "done", "failed"}]
  /\ xid' \in [Clients -> Nat] /\ lease' \in [Clients -> Leases]
  /\ \A d \in Clients : d # c => dpc'[d] = dpc[d] /\ xid'[d] = xid[d] /\ lease'[d] = lease[d]
  /\ xid'[c] \in {xid[c], xid[c] + 1}

(* A step that sends no request: it keeps out of the transaction of one it *)
(* sent, or goes on with that one.                                         *)
LEMMA ClientKept ==
  ASSUME LInv, NEW c \in Clients, ClientStep(c),
         NEW new, net' = net \cup new, new \subseteq Messages,
         \A n \in new : n.type = "discover" /\ n.to = c /\ n.xid = xid'[c],
         \/ dpc'[c] \in {"start", "offer", "failed"} /\ (xid'[c] = xid[c] + 1 \/ dpc[c] \in {"start", "offer", "failed"})
         \/ /\ dpc[c] = "ack" /\ dpc'[c] = "done" /\ xid'[c] = xid[c] /\ (xid[c] < XidByte => lease'[c] = lease[c])
            /\ lease'[c].addr \in Lease!Addrs /\ dheld[lease'[c].addr] = [to |-> c, given |-> TRUE]
  PROVE  LInv'
<1>1. Kinds'
  BY DEF LInv, Kinds, ClientStep
<1>2. \A m \in net : m.to \in Clients /\ m.xid \in Nat /\ xid[m.to] \in Nat /\ xid'[m.to] \in Nat /\ m.xid <= xid'[m.to]
  <2> SUFFICES ASSUME NEW m \in net
               PROVE  m.to \in Clients /\ m.xid \in Nat /\ xid[m.to] \in Nat /\ xid'[m.to] \in Nat /\ m.xid <= xid'[m.to]
    OBVIOUS
  <2>1. m \in Messages /\ m.xid <= xid[m.to]
    BY DEF LInv, Kinds, Sent
  <2>2. m.to \in Clients /\ m.xid \in Nat
    BY <2>1 DEF Messages
  <2>3. xid[m.to] \in Nat /\ xid'[m.to] \in Nat
    BY <2>2 DEF LInv, Kinds, ClientStep
  <2>4. xid'[m.to] = xid[m.to] \/ xid'[m.to] = xid[m.to] + 1
    BY <2>2 DEF ClientStep
  <2> QED  BY <2>1, <2>2, <2>3, <2>4
<1>3. \A n \in new : n.to = c /\ n.xid <= xid'[n.to]
  BY DEF ClientStep, Messages
<1>4. Sent' /\ GivenTo'
  BY <1>2, <1>3 DEF LInv, Sent, GivenTo, Asked, ClientStep
<1>5. Requests'
  <2> SUFFICES ASSUME NEW m \in net, m.type = "request"
               PROVE  /\ dpc'[m.to] \in {"start", "offer", "failed"} => m.xid < xid'[m.to]
                      /\ dpc'[m.to] = "ack" /\ m.xid = xid'[m.to] => m.lease = lease'[m.to]
                      /\ dpc'[m.to] = "done" /\ m.xid = xid'[m.to] /\ xid'[m.to] < XidByte => m.lease = lease'[m.to]
    BY DEF Requests
  <2>1. m.xid \in Nat /\ m.xid <= xid[m.to] /\ xid[m.to] \in Nat /\ m.to \in Clients
    BY <1>2 DEF LInv, Sent
  <2>2. CASE m.to # c
    BY <2>1, <2>2 DEF LInv, Requests, ClientStep
  <2>3. CASE m.to = c
    <3>1. /\ dpc[c] \in {"start", "offer", "failed"} => m.xid < xid[c]
          /\ dpc[c] = "ack" /\ m.xid = xid[c] => m.lease = lease[c]
      BY <2>3 DEF LInv, Requests
    <3>2. m.xid \in Nat /\ m.xid <= xid[c] /\ xid[c] \in Nat /\ (xid'[c] = xid[c] \/ xid'[c] = xid[c] + 1)
      BY <2>1, <2>3 DEF ClientStep
    <3>3. CASE dpc'[c] \in {"start", "offer", "failed"} /\ (xid'[c] = xid[c] + 1 \/ dpc[c] \in {"start", "offer", "failed"})
      BY <2>3, <3>1, <3>2, <3>3
    <3>4. CASE dpc[c] = "ack" /\ dpc'[c] = "done" /\ xid'[c] = xid[c] /\ (xid[c] < XidByte => lease'[c] = lease[c])
      BY <2>3, <3>1, <3>4
    <3> QED  BY <3>3, <3>4
  <2> QED  BY <2>2, <2>3
<1>6. Addressed' /\ Lease!OwnAddress'
  <2> SUFFICES ASSUME NEW d \in Clients, dpc'[d] = "done"
               PROVE  lease'[d].addr \in Lease!Addrs /\ dheld'[lease'[d].addr] = [to |-> d, given |-> TRUE]
    BY DEF Addressed, Lease!OwnAddress
  <2>1. CASE d # c
    BY <2>1 DEF LInv, Addressed, Lease!OwnAddress, ClientStep
  <2>2. CASE d = c
    BY <2>2 DEF ClientStep
  <2> QED  BY <2>1, <2>2
<1> QED  BY <1>1, <1>4, <1>5, <1>6 DEF LInv

LEMMA DiscoverKept ==
  ASSUME LInv, NEW c \in Clients, Lease!Discover(c)
  PROVE  LInv'
<1>1. PICK new : new = IF dpc'[c] = "offer" THEN {Lease!Msg("discover", c, Lease!NoLease)} ELSE {}
  OBVIOUS
<1>2. /\ dpc[c] = "start" /\ xid' = xid /\ dheld' = dheld /\ lease' = [lease EXCEPT ![c] = Lease!NoLease]
      /\ \/ dpc' = [dpc EXCEPT ![c] = "offer"] /\ net' = net \cup {Lease!Msg("discover", c, Lease!NoLease)}
         \/ dpc' = [dpc EXCEPT ![c] = "failed"] /\ net' = net
  BY DEF Lease!Discover
<1>3. Lease!NoLease \in Leases
  BY DEF Lease!NoLease, Leases
<1>4. ClientStep(c) /\ dpc'[c] \in {"start", "offer", "failed"}
  BY <1>2, <1>3 DEF LInv, Kinds, ClientStep
<1>5. net' = net \cup new
  BY <1>1, <1>2 DEF LInv, Kinds
<1>6. \A n \in new : n \in Messages /\ n.type = "discover" /\ n.to = c /\ n.xid = xid'[c]
  BY <1>1, <1>2, <1>3 DEF LInv, Kinds, Lease!Msg, Messages
<1>7. dpc[c] \in {"start", "offer", "failed"}
  BY <1>2
<1>8. new \subseteq Messages
  BY <1>6
<1> QED  BY <1>4, <1>5, <1>6, <1>7, <1>8, ClientKept

(* A step that goes back to the start, or on with nothing sent.            *)
LEMMA RetryKept ==
  ASSUME LInv, NEW c \in Clients, ClientStep(c), net' = net,
         dpc'[c] = "start", xid'[c] = xid[c] + 1 \/ dpc[c] = "offer"
  PROVE  LInv'
<1>1. PICK new : new = {}
  OBVIOUS
<1>2. net' = net \cup new /\ new \subseteq Messages
  BY <1>1
<1>3. \A n \in new : n.type = "discover" /\ n.to = c /\ n.xid = xid'[c]
  BY <1>1
<1>4. dpc'[c] \in {"start", "offer", "failed"} /\ (xid'[c] = xid[c] + 1 \/ dpc[c] \in {"start", "offer", "failed"})
  OBVIOUS
<1> QED  BY <1>2, <1>3, <1>4, ClientKept

LEMMA TimedOutKept ==
  ASSUME LInv, NEW c \in Clients, Lease!TimedOut(c)
  PROVE  LInv'
<1>1. /\ dpc[c] \in {"offer", "ack"} /\ dpc' = [dpc EXCEPT ![c] = "start"]
      /\ xid' = IF dpc[c] = "ack" THEN [xid EXCEPT ![c] = @ + 1] ELSE xid
      /\ lease' = lease /\ net' = net /\ dheld' = dheld
  BY DEF Lease!TimedOut, Lease!Again, Lease!NextXid
<1>2. ClientStep(c) /\ dpc'[c] = "start" /\ (xid'[c] = xid[c] + 1 \/ dpc[c] = "offer")
  BY <1>1 DEF LInv, Kinds, ClientStep
<1> QED  BY <1>1, <1>2, RetryKept

LEMMA AckCameKept ==
  ASSUME Lease!DhcpAssumption, LInv, NEW c \in Clients, Lease!AckCame(c)
  PROVE  LInv'
<1>1. PICK m \in net :
        /\ dpc[c] = "ack" /\ m.to = c /\ m.xid % XidByte = xid[c] % XidByte /\ net' = net /\ dheld' = dheld
        /\ IF m.type = "ack"
           THEN dpc' = [dpc EXCEPT ![c] = "done"] /\ lease' = [lease EXCEPT ![c] = m.lease] /\ xid' = xid
           ELSE dpc' = [dpc EXCEPT ![c] = "start"] /\ xid' = [xid EXCEPT ![c] = @ + 1] /\ lease' = lease
  BY DEF Lease!AckCame, Lease!Again, Lease!NextXid, Lease!Replies, Lease!Mine
<1>2. CASE m.type # "ack"
  <2>1. ClientStep(c) /\ dpc'[c] = "start" /\ xid'[c] = xid[c] + 1
    BY <1>1, <1>2 DEF LInv, Kinds, ClientStep
  <2> QED  BY <1>1, <2>1, RetryKept
<1>3. CASE m.type = "ack"
  <2>1. PICK q \in net : q.type = "request" /\ q.to = m.to /\ q.xid = m.xid /\ q.lease = m.lease
    BY <1>3 DEF LInv, Sent, Asked
  <2>2. ASSUME xid[c] < XidByte
        PROVE  m.lease = lease[c]
    <3>1. m.xid \in Nat /\ m.xid <= xid[c] /\ xid[c] \in Nat /\ XidByte \in Nat
      BY <1>1 DEF LInv, Kinds, Sent, Messages, Lease!DhcpAssumption
    <3>2. \A n \in 0 .. XidByte - 1 : n % XidByte = n
      BY <3>1
    <3>3. m.xid % XidByte = m.xid /\ xid[c] % XidByte = xid[c]
      BY <2>2, <3>1, <3>2
    <3> QED  BY <1>1, <2>1, <3>3 DEF LInv, Requests
  <2>3. /\ m.lease \in Leases /\ m.lease.addr \in Lease!Addrs
        /\ dheld[m.lease.addr] = [to |-> c, given |-> TRUE]
    BY <1>1, <1>3 DEF LInv, Kinds, Sent, Messages
  <2>4. /\ dpc' = [dpc EXCEPT ![c] = "done"] /\ xid' = xid
        /\ lease' = [lease EXCEPT ![c] = m.lease]
    BY <1>1, <1>3
  <2>5. ClientStep(c) /\ dpc'[c] = "done" /\ xid'[c] = xid[c] /\ lease'[c] = m.lease
    BY <1>1, <2>3, <2>4 DEF LInv, Kinds, ClientStep
  <2>6. PICK new : new = {}
    OBVIOUS
  <2>7. net' = net \cup new /\ new \subseteq Messages
    BY <1>1, <2>6
  <2>8. \A n \in new : n.type = "discover" /\ n.to = c /\ n.xid = xid'[c]
    BY <2>6
  <2>9. /\ dpc[c] = "ack" /\ dpc'[c] = "done" /\ xid'[c] = xid[c] /\ (xid[c] < XidByte => lease'[c] = lease[c])
        /\ lease'[c].addr \in Lease!Addrs /\ dheld[lease'[c].addr] = [to |-> c, given |-> TRUE]
    BY <1>1, <2>2, <2>3, <2>5
  <2> QED  BY <2>5, <2>7, <2>8, <2>9, ClientKept
<1> QED  BY <1>2, <1>3

(* The request: the first of its transaction, and of the lease taken.      *)
LEMMA OfferCameKept ==
  ASSUME LInv, NEW c \in Clients, Lease!OfferCame(c)
  PROVE  LInv'
<1>1. PICK m \in net :
        /\ m.type \in {"offer", "nak"} /\ dpc[c] = "offer" /\ m.to = c /\ xid' = xid /\ dheld' = dheld
        /\ IF m.type = "offer"
           THEN dpc' = [dpc EXCEPT ![c] = "ack"] /\ lease' = [lease EXCEPT ![c] = m.lease]
                /\ net' = net \cup {Lease!Msg("request", c, m.lease)}
           ELSE dpc' = [dpc EXCEPT ![c] = "start"] /\ lease' = lease /\ net' = net
  BY DEF Lease!OfferCame, Lease!Again, Lease!Replies, Lease!Mine
<1>2. CASE m.type # "offer"
  <2>1. ClientStep(c) /\ dpc'[c] = "start" /\ dpc[c] = "offer"
    BY <1>1, <1>2 DEF LInv, Kinds, ClientStep
  <2> QED  BY <1>1, <1>2, <2>1, RetryKept
<1>3. CASE m.type = "offer"
  <2>1. m.lease \in Leases /\ m.lease.addr \in Lease!Addrs
    BY <1>3 DEF LInv, Kinds, Messages, Sent
  <2>2. PICK n : n = Lease!Msg("request", c, m.lease)
    OBVIOUS
  <2>3. n.type = "request" /\ n.to = c /\ n.xid = xid[c] /\ n.lease = m.lease /\ n \in Messages
    BY <2>1, <2>2 DEF LInv, Kinds, Lease!Msg, Messages
  <2>4. dpc' = [dpc EXCEPT ![c] = "ack"] /\ lease' = [lease EXCEPT ![c] = m.lease] /\ net' = net \cup {n}
    BY <1>1, <1>3, <2>2
  <2>5. Kinds'
    BY <1>1, <2>1, <2>3, <2>4 DEF LInv, Kinds
  <2>6. Sent' /\ GivenTo'
    <3>1. xid[c] \in Nat
      BY DEF LInv, Kinds
    <3> QED  BY <1>1, <2>1, <2>3, <2>4, <3>1 DEF LInv, Sent, GivenTo, Asked
  <2>7. \A d \in Clients : d # c => dpc'[d] = dpc[d] /\ lease'[d] = lease[d]
    BY <2>4 DEF LInv, Kinds
  <2>8. dpc'[c] = "ack" /\ lease'[c] = m.lease
    BY <2>4 DEF LInv, Kinds
  <2>9. Requests'
    <3> SUFFICES ASSUME NEW q \in net', q.type = "request"
                 PROVE  /\ dpc'[q.to] \in {"start", "offer", "failed"} => q.xid < xid'[q.to]
                        /\ dpc'[q.to] = "ack" /\ q.xid = xid'[q.to] => q.lease = lease'[q.to]
                        /\ dpc'[q.to] = "done" /\ q.xid = xid'[q.to] /\ xid'[q.to] < XidByte => q.lease = lease'[q.to]
      BY DEF Requests
    <3>1. CASE q = n
      BY <2>3, <2>8, <3>1
    <3>2. CASE q \in net
      <4>1. q \in Messages /\ q.to \in Clients /\ q.xid \in Nat
        BY <3>2 DEF LInv, Kinds, Messages
      <4>2. CASE q.to # c
        BY <1>1, <2>7, <3>2, <4>1, <4>2 DEF LInv, Requests
      <4>3. CASE q.to = c
        <5>1. q.xid < xid[c] /\ xid[c] \in Nat
          BY <1>1, <3>2, <4>3 DEF LInv, Kinds, Requests
        <5> QED  BY <1>1, <2>8, <4>1, <4>3, <5>1
      <4> QED  BY <4>2, <4>3
    <3> QED  BY <2>4, <3>1, <3>2
  <2>10. Addressed' /\ Lease!OwnAddress'
    BY <1>1, <2>7, <2>8 DEF LInv, Addressed, Lease!OwnAddress
  <2> QED  BY <2>5, <2>6, <2>9, <2>10 DEF LInv
<1> QED  BY <1>2, <1>3

LEMMA LeaseInit ==
  ASSUME Lease!Init
  PROVE  LInv
<1>1. Kinds
  BY DEF Lease!Init, Lease!NoLease, Lease!Free, Kinds, Leases
<1>2. Sent /\ Requests
  BY DEF Lease!Init, Sent, Requests
<1>3. GivenTo /\ Addressed /\ Lease!OwnAddress
  BY DEF Lease!Init, Lease!Free, GivenTo, Addressed, Lease!OwnAddress
<1> QED  BY <1>1, <1>2, <1>3 DEF LInv

LEMMA LeaseStep ==
  ASSUME Lease!DhcpAssumption, LInv, [Lease!Next]_(Lease!vars)
  PROVE  LInv'
<1>1. CASE Lease!Next
  <2>1. ASSUME NEW s \in Servers, Lease!Offer(s) \/ Lease!Give(s)
        PROVE  LInv'
    BY <2>1, OfferKept, GiveKept
  <2>2. ASSUME NEW a \in Lease!Addrs, Lease!TakeBack(a)
        PROVE  LInv'
    BY <2>2, TakeBackKept
  <2>3. ASSUME NEW c \in Clients, Lease!Discover(c) \/ Lease!OfferCame(c) \/ Lease!AckCame(c) \/ Lease!TimedOut(c)
        PROVE  LInv'
    BY <2>3, DiscoverKept, OfferCameKept, AckCameKept, TimedOutKept
  <2> QED  BY <1>1, <2>1, <2>2, <2>3 DEF Lease!Next
<1>2. CASE UNCHANGED Lease!vars
  BY <1>2 DEF Lease!vars, LInv, Kinds, Sent, GivenTo, Requests, Addressed, Asked, Lease!OwnAddress
<1> QED  BY <1>1, <1>2

LEMMA LeaseInv == ASSUME Lease!DhcpAssumption PROVE Lease!Spec => []LInv
<1>1. Lease!Init => LInv
  BY LeaseInit
<1>2. LInv /\ [Lease!Next]_(Lease!vars) => LInv'
  BY LeaseStep
<1> QED  BY <1>1, <1>2, PTL DEF Lease!Spec

(* Two machines that got their addresses never have the same one: each has *)
(* what its server gave to it, whatever was lost, late or repeated, and    *)
(* whatever transaction ids two machines have in common. (parse)           *)
THEOREM AddressesAreOwn == ASSUME Lease!DhcpAssumption PROVE Lease!Spec => []Lease!OwnAddress
<1>1. LInv => Lease!OwnAddress
  BY DEF LInv
<1> QED  BY <1>1, LeaseInv, PTL

(* A machine has been given what it asked for last, never what an earlier  *)
(* request was late answered with, while its transactions have ids of      *)
(* their own. (xid[3]++ of main)                                           *)
THEOREM AnsweredIsAsked == ASSUME Lease!DhcpAssumption PROVE Lease!Spec => []Lease!AckOfLast
<1>1. LInv => Lease!AckOfLast
  BY DEF LInv, Requests, Lease!AckOfLast, Lease!LastAsked
<1> QED  BY <1>1, LeaseInv, PTL

-----------------------------------------------------------------------------
(***************************************************************************)
(* dhcpc -w: hosts.net                                                     *)
(***************************************************************************)
WriteTypes ==
  /\ hosts \in Seq(Write!Lines) /\ wold \in Seq(Write!Lines) /\ tmp \in Seq(Write!Lines)
  /\ wread \in 0 .. Len(wold) /\ done \in BOOLEAN
(* What becomes of a line: the first of the node's is new.                 *)
FirstAt(i) == wold[i] # "other" /\ \A j \in 1 .. i - 1 : wold[j] = "other"
NewLine(i) == IF FirstAt(i) THEN "new" ELSE wold[i]
(* The file as it is to be                                                 *)
ToBe(h) == Write!First(h) \/ ((\A i \in DOMAIN wold : wold[i] = "other") /\ h = Append(wold, "new"))
(* While it is copied, the file is left alone; the copy is as far as the   *)
(* lines read.                                                             *)
Copying ==
  wpc = "copy" =>
    /\ hosts = wold
    /\ done <=> \E i \in 1 .. wread : wold[i] # "other"
    /\ ~lost => Len(tmp) = wread /\ \A i \in 1 .. wread : tmp[i] = NewLine(i)
Copied == wpc \in {"close", "rename"} => hosts = wold /\ (~lost => ToBe(tmp))
WInv == WriteTypes /\ Copying /\ Copied /\ Write!HostsWhole

LEMMA WriteStart ==
  ASSUME Write!DhcpWriteAssumption, Write!Init
  PROVE  WInv
<1>1. hosts \in Seq(Write!Lines) /\ wold = hosts /\ tmp = <<>> /\ wread = 0 /\ done = FALSE /\ wpc = "rest"
  BY DEF Write!Init, Write!Files, Write!DhcpWriteAssumption
<1>2. WriteTypes
  <2>1. <<>> \in Seq(Write!Lines) /\ Len(hosts) \in Nat
    BY <1>1
  <2>2. 0 \in 0 .. Len(hosts)
    BY <2>1
  <2> QED  BY <1>1, <2>1, <2>2 DEF WriteTypes
<1>3. Copying /\ Copied /\ Write!HostsWhole
  BY <1>1 DEF Copying, Copied, Write!HostsWhole
<1> QED  BY <1>2, <1>3 DEF WInv

LEMMA StartKept ==
  ASSUME WInv, Write!Start
  PROVE  WInv'
<1>1. /\ wold' = hosts /\ hosts' = hosts /\ tmp' = <<>> /\ wread' = 0 /\ done' = FALSE /\ lost' = FALSE /\ wpc' = "copy" /\ torn' = FALSE
  BY DEF Write!Start, Write!Create
<1>2. WriteTypes'
  <2>1. <<>> \in Seq(Write!Lines) /\ hosts \in Seq(Write!Lines) /\ Len(hosts) \in Nat
    BY DEF WInv, WriteTypes
  <2>2. 0 \in 0 .. Len(hosts)
    BY <2>1
  <2> QED  BY <1>1, <2>1, <2>2 DEF WriteTypes
<1>3. Copying' /\ Copied' /\ Write!HostsWhole'
  BY <1>1 DEF Copying, Copied, Write!HostsWhole
<1> QED  BY <1>2, <1>3 DEF WInv

(* A line is copied.                                                       *)
LEMMA LineKept ==
  ASSUME WInv, Write!Copy, wread < Len(wold)
  PROVE  WInv'
<1>1. PICK i : i = wread + 1
  OBVIOUS
<1>2. PICK new : new = IF Write!IsNodes(wold[i]) THEN "new" ELSE wold[i]
  OBVIOUS
<1>3. /\ wpc = "copy" /\ wpc' = wpc /\ hosts' = hosts /\ wold' = wold
      /\ wread' = i /\ done' = (done \/ Write!IsNodes(wold[i])) /\ torn' = torn
      /\ (tmp' = Append(tmp, new) /\ lost' = lost) \/ (tmp' = tmp /\ lost' = TRUE)
  BY <1>1, <1>2 DEF Write!Copy, Write!Put
<1>4. /\ i \in 1 .. Len(wold) /\ i \in Nat /\ wread \in Nat /\ Len(wold) \in Nat
      /\ wold[i] \in Write!Lines /\ new \in Write!Lines
  BY <1>1, <1>2 DEF WInv, WriteTypes, Write!Lines
<1>5. /\ hosts = wold /\ (done <=> \E j \in 1 .. wread : wold[j] # "other")
      /\ ~lost => Len(tmp) = wread /\ \A j \in 1 .. wread : tmp[j] = NewLine(j)
  BY <1>3 DEF WInv, Copying
<1>6. tmp' \in Seq(Write!Lines)
  BY <1>3, <1>4 DEF WInv, WriteTypes
<1>7. WriteTypes'
  BY <1>3, <1>4, <1>6 DEF WInv, WriteTypes
<1>8. Write!IsNodes(wold[i]) <=> FirstAt(i)
  <2>1. wold[i] \in {"node", "new"} <=> wold[i] # "other"
    BY <1>4 DEF Write!Lines
  <2>2. i - 1 = wread
    BY <1>1, <1>4
  <2> QED  BY <1>5, <2>1, <2>2 DEF Write!IsNodes, FirstAt
<1>9. new = NewLine(i)
  BY <1>2, <1>8 DEF NewLine
<1>10. done' <=> \E j \in 1 .. wread' : wold'[j] # "other"
  <2>1. wold[i] \in {"node", "new"} <=> wold[i] # "other"
    BY <1>4 DEF Write!Lines
  <2>2. \A j : j \in 1 .. i <=> j \in 1 .. wread \/ j = i
    BY <1>1, <1>4
  <2> QED  BY <1>3, <1>5, <2>1, <2>2 DEF Write!IsNodes
<1>11. ~lost' => Len(tmp') = wread' /\ \A j \in 1 .. wread' : tmp'[j] = NewLine(j)'
  <2> SUFFICES ASSUME ~lost'
               PROVE  Len(tmp') = i /\ \A j \in 1 .. i : tmp'[j] = NewLine(j)
    BY <1>3 DEF NewLine, FirstAt
  <2>1. tmp' = Append(tmp, new) /\ Len(tmp) = wread /\ \A j \in 1 .. wread : tmp[j] = NewLine(j)
    BY <1>3, <1>5
  <2>2. tmp \in Seq(Write!Lines)
    BY DEF WInv, WriteTypes
  <2>3. Len(tmp') = i /\ tmp'[i] = new /\ \A j \in 1 .. wread : tmp'[j] = tmp[j]
    BY <1>1, <1>4, <2>1, <2>2
  <2>4. \A j \in 1 .. i : j \in 1 .. wread \/ j = i
    BY <1>1, <1>4
  <2> QED  BY <1>9, <2>1, <2>3, <2>4
<1>12. Copying' /\ Copied'
  BY <1>3, <1>5, <1>10, <1>11 DEF Copying, Copied
<1>13. Write!HostsWhole'
  BY <1>3, <1>5 DEF Write!HostsWhole
<1> QED  BY <1>7, <1>12, <1>13 DEF WInv

(* The lines are all copied.                                               *)
LEMMA LastLineKept ==
  ASSUME WInv, Write!Copy, ~(wread < Len(wold))
  PROVE  WInv'
<1>1. /\ wpc = "copy" /\ wpc' = "close" /\ hosts' = hosts /\ wold' = wold /\ wread' = wread /\ done' = done
      /\ \/ ~done /\ tmp' = Append(tmp, "new") /\ lost' = lost
         \/ ~done /\ tmp' = tmp /\ lost' = TRUE
         \/ done /\ tmp' = tmp /\ lost' = lost
  BY DEF Write!Copy, Write!Put
<1>2. wread = Len(wold) /\ wread \in Nat /\ wold \in Seq(Write!Lines) /\ tmp \in Seq(Write!Lines) /\ DOMAIN wold = 1 .. wread
  BY DEF WInv, WriteTypes
<1>3. /\ hosts = wold /\ (done <=> \E j \in 1 .. wread : wold[j] # "other")
      /\ ~lost => Len(tmp) = wread /\ \A j \in 1 .. wread : tmp[j] = NewLine(j)
  BY <1>1 DEF WInv, Copying
<1>4. tmp' \in Seq(Write!Lines)
  BY <1>1, <1>2 DEF Write!Lines
<1>5. WriteTypes'
  BY <1>1, <1>4 DEF WInv, WriteTypes
<1>6. ASSUME ~lost'
      PROVE  ToBe(tmp')
  <2>1. ~lost /\ Len(tmp) = wread /\ \A j \in 1 .. wread : tmp[j] = NewLine(j)
    BY <1>1, <1>3, <1>6
  <2>2. CASE ~done
    <3>1. \A j \in 1 .. wread : wold[j] = "other"
      BY <1>3, <2>2
    <3>2. \A j \in 1 .. wread : tmp[j] = wold[j]
      BY <2>1, <3>1 DEF NewLine, FirstAt
    <3>3. tmp = wold
      BY <1>2, <2>1, <3>2
    <3>4. tmp' = Append(tmp, "new")
      BY <1>1, <1>6, <2>2
    <3> QED  BY <1>2, <3>1, <3>3, <3>4 DEF ToBe
  <2>3. CASE done
    <3>1. PICK i \in 1 .. wread : wold[i] # "other" /\ \A j \in 1 .. i - 1 : wold[j] = "other"
      <4> DEFINE S == {j \in 1 .. wread : wold[j] # "other"}
      <4>1. S \subseteq Nat /\ S # {}
        BY <1>3, <2>3
      <4>2. PICK i \in S : \A j \in S : i <= j
        BY <4>1, Smallest
      <4>3. \A j \in 1 .. i - 1 : j \in 1 .. wread /\ ~(i <= j)
        BY <1>2, <4>1
      <4> QED  BY <4>2, <4>3
    <3>2. FirstAt(i)
      BY <3>1 DEF FirstAt
    <3>3. \A j \in 1 .. wread : j # i => ~FirstAt(j)
      <4> SUFFICES ASSUME NEW j \in 1 .. wread, j # i, FirstAt(j)
                   PROVE  FALSE
        OBVIOUS
      <4>1. i \in 1 .. j - 1 \/ j \in 1 .. i - 1
        BY <1>2
      <4> QED  BY <3>1, <4>1 DEF FirstAt
    <3>4. \A j \in 1 .. wread : tmp[j] = [wold EXCEPT ![i] = "new"][j]
      BY <1>2, <2>1, <3>2, <3>3 DEF NewLine
    <3>5. tmp = [wold EXCEPT ![i] = "new"]
      <4>1. PICK e : e = [wold EXCEPT ![i] = "new"]
        OBVIOUS
      <4>2. e \in [1 .. wread -> Write!Lines]
        BY <1>2, <4>1 DEF Write!Lines
      <4>3. tmp \in [1 .. wread -> Write!Lines]
        BY <1>2, <2>1
      <4>4. \A j \in 1 .. wread : tmp[j] = e[j]
        BY <3>4, <4>1
      <4>5. tmp = [j \in 1 .. wread |-> tmp[j]] /\ e = [j \in 1 .. wread |-> e[j]]
        BY <4>2, <4>3
      <4>6. tmp = e
        BY <4>4, <4>5
      <4> QED  BY <4>1, <4>6
    <3>6. tmp' = tmp
      BY <1>1, <2>3
    <3>7. Write!First(tmp')
      <4>1. i \in DOMAIN wold /\ tmp' = [wold EXCEPT ![i] = "new"]
        BY <1>2, <3>5, <3>6
      <4>2. PICK h : h = tmp'
        OBVIOUS
      <4>3. h = [wold EXCEPT ![i] = "new"]
        BY <4>1, <4>2
      <4>4. Write!First(h)
        BY <3>1, <4>1, <4>3 DEF Write!First
      <4> QED  BY <4>2, <4>4
    <3> QED  BY <3>7 DEF ToBe
  <2> QED  BY <2>2, <2>3
<1>7. Copied'
  <2>1. ~lost' => ToBe(tmp)'
    BY <1>1, <1>6 DEF ToBe, Write!First
  <2> QED  BY <1>1, <1>3, <2>1 DEF Copied
<1>8. Copying' /\ Write!HostsWhole'
  BY <1>1, <1>3 DEF Copying, Write!HostsWhole
<1> QED  BY <1>5, <1>7, <1>8 DEF WInv

(* The steps after the copy, and a program that is ended: the file is      *)
(* left, or what was copied is put in its place.                           *)
LEMMA AfterKept ==
  ASSUME WInv, Write!Close \/ Write!Rename \/ Write!Sh \/ Write!Resolv \/ Write!Ended
  PROVE  WInv'
<1>1. /\ wold' = wold /\ tmp' = tmp /\ wread' = wread /\ done' = done /\ lost' = lost /\ torn' = torn
      /\ hosts' = hosts \/ (wpc = "rename" /\ hosts' = tmp)
      /\ wpc' # "copy" /\ (wpc' \in {"close", "rename"} => wpc = "close" /\ hosts' = hosts)
  BY DEF Write!Close, Write!Rename, Write!Sh, Write!Resolv, Write!Ended, Write!rest
<1>2. WriteTypes'
  BY <1>1 DEF WInv, WriteTypes
<1>3. Copying'
  BY <1>1 DEF Copying
<1>4. Copied'
  BY <1>1 DEF WInv, Copied, ToBe, Write!First
<1>5. Write!HostsWhole'
  <2>1. CASE hosts' = hosts
    BY <1>1, <2>1 DEF WInv, Write!HostsWhole, Write!First
  <2>2. CASE wpc = "rename" /\ hosts' = tmp
    BY <1>1, <2>2 DEF WInv, Copied, ToBe, Write!HostsWhole, Write!First
  <2> QED  BY <1>1, <2>1, <2>2
<1> QED  BY <1>2, <1>3, <1>4, <1>5 DEF WInv

(* Flushing changes nothing that is read; a machine that stops leaves the  *)
(* file as it was, or torn.                                                *)
LEMMA StopKept ==
  ASSUME WInv, Write!Flush \/ Write!Stop
  PROVE  WInv'
<1>1. CASE Write!Flush
  BY <1>1 DEF Write!Flush, WInv, WriteTypes, Copying, Copied, ToBe, NewLine, FirstAt, Write!HostsWhole, Write!First
<1>2. CASE Write!Stop
  <2>1. \/ hosts' = hosts /\ torn' = torn
        \/ torn' = TRUE /\ \E n \in 0 .. Len(hosts) - 1 : hosts' = SubSeq(hosts, 1, n)
    BY <1>2 DEF Write!Stop
  <2>2. wpc' = "rest" /\ wold' = wold /\ tmp' = tmp /\ wread' = wread /\ done' = done /\ lost' = lost
    BY <1>2 DEF Write!Stop
  <2>3. hosts \in Seq(Write!Lines) /\ Len(hosts) \in Nat
    BY DEF WInv, WriteTypes
  <2>4. hosts' \in Seq(Write!Lines)
    BY <2>1, <2>3
  <2>5. WriteTypes' /\ Copying' /\ Copied'
    BY <2>2, <2>4 DEF WInv, WriteTypes, Copying, Copied
  <2>6. Write!HostsWhole'
    <3>1. CASE hosts' = hosts /\ torn' = torn
      BY <2>2, <3>1 DEF WInv, Write!HostsWhole, Write!First
    <3>2. CASE torn' = TRUE
      BY <3>2 DEF Write!HostsWhole
    <3> QED  BY <2>1, <3>1, <3>2
  <2> QED  BY <2>5, <2>6 DEF WInv
<1> QED  BY <1>1, <1>2

LEMMA WriteStep ==
  ASSUME Write!DhcpWriteAssumption, WInv, [Write!Next]_(Write!vars)
  PROVE  WInv'
<1>1. CASE Write!Next
  BY <1>1, StartKept, LineKept, LastLineKept, AfterKept, StopKept DEF Write!Next
<1>2. CASE UNCHANGED Write!vars
  BY <1>2 DEF Write!vars, WInv, WriteTypes, Copying, Copied, ToBe, NewLine, FirstAt, Write!HostsWhole, Write!First
<1> QED  BY <1>1, <1>2

LEMMA WriteInv == ASSUME Write!DhcpWriteAssumption PROVE Write!Spec => []WInv
<1>1. Write!Init => WInv
  BY WriteStart
<1>2. WInv /\ [Write!Next]_(Write!vars) => WInv'
  BY WriteStep
<1> QED  BY <1>1, <1>2, PTL DEF Write!Spec

(* hosts.net is what it was or what it is to be, however long it is,       *)
(* wherever the program is ended, and wherever the machine stops before    *)
(* the rename or after the flush; unless a line was lost untold.           *)
(* (writehosts)                                                            *)
THEOREM HostsAreWhole == ASSUME Write!DhcpWriteAssumption PROVE Write!Spec => []Write!HostsWhole
<1>1. WInv => Write!HostsWhole
  BY DEF WInv
<1> QED  BY <1>1, WriteInv, PTL

-----------------------------------------------------------------------------
(***************************************************************************)
(* ttntp: the records of the log                                           *)
(***************************************************************************)
Recs == [boot: BOOLEAN, stamp: Int, at: Nat, no: Nat]
ClockTypes ==
  /\ Zone \in Int /\ tru \in Nat /\ err \in Int /\ chip \in Int /\ boots \in Nat
  /\ phase \in {"off", "init", "up"} /\ log \in Seq(Recs)
Past == \A i \in DOMAIN log : log[i].no <= boots /\ log[i].at <= tru
(* The boot record: what lies before it is of earlier boots, what comes    *)
(* after it of this one and later.                                         *)
BootAt(k) ==
  /\ k \in DOMAIN log /\ log[k].boot
  /\ \A j \in DOMAIN log :
       /\ j > k => ~log[j].boot
       /\ j < k => log[j].no < boots
       /\ j >= k => log[j].no = boots /\ log[j].at >= log[k].at
Booted == phase # "off" => \E k \in DOMAIN log : BootAt(k)
(* Before -b the clock stands where the boot found it. Once it has run,    *)
(* what the log is off by the clock is, or what was not worth moving.      *)
AtBoot == phase = "init" => \A i \in DOMAIN log : log[i].no = boots => log[i].at = tru /\ log[i].stamp = tru + err
Slack(i) == log[i].stamp - log[i].at - err
AfterBoot ==
  phase = "up" /\ fixed =>
    \A i \in DOMAIN log : log[i].no = boots =>
      /\ -Step < Slack(i) /\ Slack(i) < Step
      /\ err # 0 => log[i].stamp = log[i].at + err
NInv == ClockTypes /\ Past /\ Booted /\ AtBoot /\ AfterBoot

-----------------------------------------------------------------------------
LEMMA LastIs ==
  ASSUME ClockTypes, NEW k, BootAt(k)
  PROVE  Clock!Last = k /\ Clock!Tb = log[k].stamp
<1>1. k \in DOMAIN log /\ log[k].boot /\ \A j \in DOMAIN log : j > k => ~log[j].boot
  BY DEF BootAt
<1>2. DOMAIN log \subseteq Nat
  BY DEF ClockTypes
<1>3. \A j \in DOMAIN log : log[j].boot => j <= k
  BY <1>1, <1>2
<1>4. \A i \in DOMAIN log : log[i].boot /\ (\A j \in DOMAIN log : log[j].boot => j <= i) => i = k
  BY <1>1, <1>2, <1>3
<1>5. Clock!Last = k
  BY <1>1, <1>3, <1>4 DEF Clock!Last
<1> QED  BY <1>5 DEF Clock!Tb

LEMMA RecordIs ==
  ASSUME ClockTypes, NEW i \in DOMAIN log
  PROVE  i \in Nat /\ log[i] \in Recs /\ log[i].stamp \in Int /\ log[i].at \in Nat /\ log[i].no \in Nat
<1>1. i \in 1 .. Len(log) /\ Len(log) \in Nat /\ log \in [1 .. Len(log) -> Recs]
  BY DEF ClockTypes
<1>2. i \in Nat /\ log[i] \in Recs
  BY <1>1
<1> QED  BY <1>2 DEF Recs

(* shift_file: what it moves is of this boot, and only stamps change.      *)
LEMMA ShiftedIs ==
  ASSUME ClockTypes, NEW k, BootAt(k), NEW delta \in Int, NEW hi \in Int, log' = Clock!Shifted(delta, hi)
  PROVE  /\ log' \in Seq(Recs) /\ Len(log') = Len(log) /\ DOMAIN log' = DOMAIN log
         /\ \A i \in DOMAIN log :
              /\ log'[i].boot = log[i].boot /\ log'[i].at = log[i].at /\ log'[i].no = log[i].no
              /\ IF i >= k /\ log[k].stamp <= log[i].stamp /\ log[i].stamp <= hi
                 THEN log'[i].stamp = log[i].stamp + delta
                 ELSE log'[i] = log[i]
<1>1. Clock!From = k /\ Clock!Tb = log[k].stamp
  BY LastIs DEF Clock!From
<1>2. PICK n \in Nat : n = Len(log) /\ DOMAIN log = 1 .. n /\ log \in [1 .. n -> Recs]
  BY DEF ClockTypes
<1>3. log' = [i \in 1 .. n |-> IF i >= k /\ log[k].stamp <= log[i].stamp /\ log[i].stamp <= hi
                               THEN [log[i] EXCEPT !.stamp = @ + delta] ELSE log[i]]
  BY <1>1, <1>2 DEF Clock!Shifted
<1>4. \A i \in 1 .. n :
        /\ log'[i] \in Recs /\ log'[i].boot = log[i].boot /\ log'[i].at = log[i].at /\ log'[i].no = log[i].no
        /\ IF i >= k /\ log[k].stamp <= log[i].stamp /\ log[i].stamp <= hi
           THEN log'[i].stamp = log[i].stamp + delta
           ELSE log'[i] = log[i]
  <2> SUFFICES ASSUME NEW i \in 1 .. n
               PROVE  /\ log'[i] \in Recs /\ log'[i].boot = log[i].boot /\ log'[i].at = log[i].at /\ log'[i].no = log[i].no
                      /\ IF i >= k /\ log[k].stamp <= log[i].stamp /\ log[i].stamp <= hi
                         THEN log'[i].stamp = log[i].stamp + delta
                         ELSE log'[i] = log[i]
    OBVIOUS
  <2>1. log[i] \in Recs
    BY <1>2, RecordIs
  <2>2. PICK r : r = [log[i] EXCEPT !.stamp = @ + delta]
    OBVIOUS
  <2>3. r \in Recs /\ r.boot = log[i].boot /\ r.at = log[i].at /\ r.no = log[i].no /\ r.stamp = log[i].stamp + delta
    BY <2>1, <2>2 DEF Recs
  <2>4. CASE i >= k /\ log[k].stamp <= log[i].stamp /\ log[i].stamp <= hi
    <3>1. log'[i] = r
      BY <1>3, <2>2, <2>4
    <3> QED  BY <2>3, <2>4, <3>1
  <2>5. CASE ~(i >= k /\ log[k].stamp <= log[i].stamp /\ log[i].stamp <= hi)
    <3>1. log'[i] = log[i]
      BY <1>3, <2>5
    <3> QED  BY <2>1, <2>5, <3>1
  <2> QED  BY <2>4, <2>5
<1>5. log' \in [1 .. n -> Recs]
  BY <1>3, <1>4
<1>6. log' \in Seq(Recs) /\ Len(log') = n /\ DOMAIN log' = 1 .. n
  BY <1>2, <1>5
<1> QED  BY <1>2, <1>4, <1>6

(* A step that moves stamps alone, of a machine that stays up              *)
Stamps ==
  /\ tru' = tru /\ boots' = boots /\ log' \in Seq(Recs) /\ DOMAIN log' = DOMAIN log
  /\ \A i \in DOMAIN log : log'[i].boot = log[i].boot /\ log'[i].at = log[i].at /\ log'[i].no = log[i].no
LEMMA StampsKept ==
  ASSUME ClockTypes, Past, Stamps
  PROVE  Past' /\ \A k : BootAt(k) => BootAt(k)'
<1>1. Past'
  BY DEF Past, Stamps
<1>2. ASSUME NEW k, BootAt(k)
      PROVE  BootAt(k)'
  BY <1>2 DEF BootAt, Stamps
<1> QED  BY <1>1, <1>2

(* A record is written.                                                    *)
LEMMA AppendIs ==
  ASSUME ClockTypes, NEW r \in Recs, log' = Append(log, r)
  PROVE  /\ log' \in Seq(Recs) /\ Len(log') = Len(log) + 1 /\ Len(log) \in Nat
         /\ DOMAIN log = 1 .. Len(log) /\ DOMAIN log' = 1 .. Len(log) + 1
         /\ log'[Len(log) + 1] = r /\ \A i \in DOMAIN log : log'[i] = log[i]
  BY DEF ClockTypes

LEMMA PassKept ==
  ASSUME NInv, Clock!Pass
  PROVE  NInv'
<1>1. /\ tru' = tru + 1 /\ phase # "init" /\ phase' = phase /\ Zone' = Zone /\ err' = err /\ chip' = chip
      /\ log' = log /\ boots' = boots /\ fixed' = fixed
  BY DEF Clock!Pass
<1>2. ClockTypes'
  BY <1>1 DEF NInv, ClockTypes
<1>3. Past'
  <2>1. \A i \in DOMAIN log : log[i].at \in Nat
    BY RecordIs DEF NInv
  <2> QED  BY <1>1, <2>1 DEF NInv, ClockTypes, Past
<1>4. Booted'
  BY <1>1 DEF NInv, Booted, BootAt
<1>5. AtBoot' /\ AfterBoot'
  BY <1>1 DEF NInv, AtBoot, AfterBoot, Slack
<1> QED  BY <1>2, <1>3, <1>4, <1>5 DEF NInv

LEMMA BootKept ==
  ASSUME NInv, Clock!Boot
  PROVE  NInv'
<1>1. PICK r : r = [boot |-> TRUE, stamp |-> tru + err', at |-> tru, no |-> boots']
  OBVIOUS
<1>2. /\ boots' = boots + 1 /\ phase' = "init" /\ err' = chip - Zone /\ fixed' = FALSE
      /\ Zone' = Zone /\ tru' = tru /\ chip' = chip /\ log' = Append(log, r)
  BY <1>1 DEF Clock!Boot, Clock!Record
<1>3. err' \in Int /\ boots' \in Nat /\ tru \in Nat /\ boots \in Nat
  BY <1>2 DEF NInv, ClockTypes
<1>a. \A x \in Nat : x <= boots => x < boots' /\ x # boots'
  <2>1. boots' = boots + 1
    BY <1>2
  <2> QED  BY <1>3, <2>1
<1>4. r \in Recs /\ r.boot = TRUE /\ r.stamp = tru + err' /\ r.at = tru /\ r.no = boots + 1
  BY <1>1, <1>2, <1>3 DEF Recs
<1>5. PICK n \in Nat : /\ log' \in Seq(Recs) /\ DOMAIN log = 1 .. n /\ DOMAIN log' = 1 .. n + 1
                       /\ log'[n + 1] = r /\ \A i \in 1 .. n : log'[i] = log[i]
  BY <1>2, <1>4, AppendIs DEF NInv
<1>6. ClockTypes'
  BY <1>2, <1>3, <1>5 DEF NInv, ClockTypes
<1>7. \A i \in 1 .. n : log'[i] = log[i] /\ log[i].no \in Nat /\ log[i].at \in Nat /\ log[i].no <= boots /\ log[i].at <= tru
  BY <1>5, RecordIs DEF NInv, Past
<1>8. \A i \in 1 .. n + 1 : i \in 1 .. n \/ i = n + 1
  OBVIOUS
<1>9. Past'
  BY <1>2, <1>3, <1>4, <1>5, <1>7, <1>8 DEF Past
<1>10. BootAt(n + 1)'
  <2>1. \A j \in 1 .. n + 1 :
          /\ j > n + 1 => ~log'[j].boot
          /\ j < n + 1 => log'[j].no < boots'
          /\ j >= n + 1 => log'[j].no = boots' /\ log'[j].at >= log'[n + 1].at
    <3> SUFFICES ASSUME NEW j \in 1 .. n + 1
                 PROVE  /\ ~(j > n + 1)
                        /\ j < n + 1 => log'[j].no < boots'
                        /\ j >= n + 1 => log'[j].no = boots' /\ log'[j].at >= log'[n + 1].at
      OBVIOUS
    <3>1. CASE j \in 1 .. n
      <4>1. log'[j].no <= boots /\ log'[j].no \in Nat
        BY <1>7, <3>1
      <4>2. log'[j].no < boots'
        BY <1>a, <4>1
      <4> QED  BY <3>1, <4>2
    <3>2. CASE j = n + 1
      BY <1>2, <1>3, <1>4, <1>5, <3>2
    <3> QED  BY <1>8, <3>1, <3>2
  <2> QED  BY <1>4, <1>5, <2>1 DEF BootAt
<1>11. Booted'
  BY <1>5, <1>10 DEF Booted
<1>12. AtBoot'
  <2> SUFFICES ASSUME NEW i \in 1 .. n + 1, log'[i].no = boots'
               PROVE  log'[i].at = tru' /\ log'[i].stamp = tru' + err'
    BY <1>5 DEF AtBoot
  <2>1. i = n + 1
    <3>1. ASSUME i \in 1 .. n
          PROVE  FALSE
      <4>1. log'[i].no <= boots /\ log'[i].no \in Nat
        BY <1>7, <3>1
      <4> QED  BY <1>a, <4>1
    <3> QED  BY <1>8, <3>1
  <2> QED  BY <1>2, <1>4, <1>5, <2>1
<1>13. AfterBoot'
  BY <1>2 DEF AfterBoot
<1> QED  BY <1>6, <1>9, <1>11, <1>12, <1>13 DEF NInv

LEMMA LogRecordKept ==
  ASSUME Clock!NtpAssumption, NInv, Clock!LogRecord
  PROVE  NInv'
<1>1. PICK r : r = [boot |-> FALSE, stamp |-> tru + err, at |-> tru, no |-> boots]
  OBVIOUS
<1>2. /\ phase # "off" /\ boots' = boots /\ phase' = phase /\ err' = err /\ fixed' = fixed
      /\ Zone' = Zone /\ tru' = tru /\ chip' = chip /\ log' = Append(log, r)
  BY <1>1 DEF Clock!LogRecord, Clock!Record
<1>3. err \in Int /\ boots \in Nat /\ tru \in Nat
  BY DEF NInv, ClockTypes
<1>4. r \in Recs /\ r.boot = FALSE /\ r.stamp = tru + err /\ r.at = tru /\ r.no = boots
  BY <1>1, <1>3 DEF Recs
<1>5. PICK n \in Nat : /\ log' \in Seq(Recs) /\ DOMAIN log = 1 .. n /\ DOMAIN log' = 1 .. n + 1
                       /\ log'[n + 1] = r /\ \A i \in 1 .. n : log'[i] = log[i]
  BY <1>2, <1>4, AppendIs DEF NInv
<1>6. ClockTypes'
  BY <1>2, <1>3, <1>5 DEF NInv, ClockTypes
<1>7. \A i \in 1 .. n + 1 : i \in 1 .. n \/ i = n + 1
  OBVIOUS
<1>8. Past'
  BY <1>2, <1>3, <1>4, <1>5, <1>7 DEF NInv, Past
<1>9. PICK k \in 1 .. n : BootAt(k)
  BY <1>2, <1>5 DEF NInv, Booted
<1>10. k < n + 1 /\ log'[k] = log[k] /\ log[k].at <= tru /\ log[k].at \in Nat
  BY <1>5, <1>9, RecordIs DEF NInv, Past
<1>11. BootAt(k)'
  <2>1. \A j \in 1 .. n + 1 :
          /\ j > k => ~log'[j].boot
          /\ j < k => log'[j].no < boots'
          /\ j >= k => log'[j].no = boots' /\ log'[j].at >= log'[k].at
    <3> SUFFICES ASSUME NEW j \in 1 .. n + 1
                 PROVE  /\ j > k => ~log'[j].boot
                        /\ j < k => log'[j].no < boots'
                        /\ j >= k => log'[j].no = boots' /\ log'[j].at >= log'[k].at
      OBVIOUS
    <3>1. CASE j \in 1 .. n
      BY <1>2, <1>5, <1>9, <1>10, <3>1 DEF BootAt
    <3>2. CASE j = n + 1
      BY <1>2, <1>3, <1>4, <1>5, <1>10, <3>2
    <3> QED  BY <1>7, <3>1, <3>2
  <2>2. k \in 1 .. n + 1 /\ log'[k].boot
    BY <1>5, <1>9, <1>10 DEF BootAt
  <2> QED  BY <1>5, <2>1, <2>2 DEF BootAt
<1>12. Booted'
  BY <1>5, <1>11 DEF Booted, BootAt
<1>13. AtBoot'
  <2> SUFFICES ASSUME phase' = "init", NEW i \in 1 .. n + 1, log'[i].no = boots'
               PROVE  log'[i].at = tru' /\ log'[i].stamp = tru' + err'
    BY <1>5 DEF AtBoot
  <2>1. CASE i \in 1 .. n
    BY <1>2, <1>5, <2>1 DEF NInv, AtBoot
  <2>2. CASE i = n + 1
    BY <1>2, <1>4, <1>5, <2>2
  <2> QED  BY <1>7, <2>1, <2>2
<1>14. AfterBoot'
  <2> SUFFICES ASSUME phase' = "up", fixed', NEW i \in 1 .. n + 1, log'[i].no = boots'
               PROVE  /\ -Step < Slack(i)' /\ Slack(i)' < Step
                      /\ err' # 0 => log'[i].stamp = log'[i].at + err'
    BY <1>5 DEF AfterBoot
  <2>1. CASE i \in 1 .. n
    BY <1>2, <1>5, <2>1 DEF NInv, AfterBoot, Slack
  <2>2. CASE i = n + 1
    <3>1. log'[i].stamp = tru + err /\ log'[i].at = tru /\ Slack(i)' = 0
      BY <1>2, <1>3, <1>4, <1>5, <2>2 DEF Slack
    <3> QED  BY <1>2, <3>1 DEF Clock!NtpAssumption
  <2> QED  BY <1>7, <2>1, <2>2
<1> QED  BY <1>6, <1>8, <1>12, <1>13, <1>14 DEF NInv

(* -b: the records of this boot all have the stamp of the boot record.     *)
LEMMA BootLocalKept ==
  ASSUME Clock!NtpAssumption, NInv, Clock!BootLocal
  PROVE  NInv' /\ Stamps
<1>1. /\ phase = "init" /\ phase' = "up" /\ err' = err + Zone /\ log' = Clock!Shifted(Zone, Clock!Clock + 1) /\ fixed' = TRUE
      /\ Zone' = Zone /\ tru' = tru /\ chip' = chip /\ boots' = boots
  BY DEF Clock!BootLocal
<1>2. PICK k \in DOMAIN log : BootAt(k)
  BY <1>1 DEF NInv, Booted
<1>3. tru \in Nat /\ err \in Int /\ Zone \in Int /\ Clock!Clock = tru + err /\ boots \in Nat
  BY DEF NInv, ClockTypes, Clock!Clock
<1>4. PICK hi \in Int : hi = tru + err + 1 /\ log' = Clock!Shifted(Zone, hi)
  BY <1>1, <1>3
<1>5. /\ log' \in Seq(Recs) /\ Len(log') = Len(log) /\ DOMAIN log' = DOMAIN log
      /\ \A i \in DOMAIN log :
           /\ log'[i].boot = log[i].boot /\ log'[i].at = log[i].at /\ log'[i].no = log[i].no
           /\ IF i >= k /\ log[k].stamp <= log[i].stamp /\ log[i].stamp <= hi
              THEN log'[i].stamp = log[i].stamp + Zone
              ELSE log'[i] = log[i]
  BY <1>2, <1>3, <1>4, ShiftedIs DEF NInv
<1>6. Stamps
  BY <1>1, <1>5 DEF Stamps
<1>7. ClockTypes'
  BY <1>1, <1>3, <1>5 DEF NInv, ClockTypes
<1>8. Past' /\ Booted'
  BY <1>2, <1>5, <1>6, StampsKept DEF NInv, Booted
<1>9. AtBoot'
  BY <1>1 DEF AtBoot
<1>10. AfterBoot'
  <2> SUFFICES ASSUME NEW i \in DOMAIN log, log[i].no = boots
               PROVE  /\ -Step < Slack(i)' /\ Slack(i)' < Step
                      /\ log'[i].stamp = log'[i].at + err'
    BY <1>1, <1>5 DEF AfterBoot
  <2>1. log[i].at = tru /\ log[i].stamp = tru + err
    BY <1>1 DEF NInv, AtBoot
  <2>2. log[k].no = boots /\ (i < k => log[i].no < boots) /\ i \in Nat /\ k \in Nat
    BY <1>2 DEF BootAt, NInv, ClockTypes
  <2>3. log[k].stamp = tru + err /\ i >= k
    BY <1>1, <1>2, <1>3, <2>2 DEF NInv, AtBoot
  <2>a. i >= k /\ log[k].stamp <= log[i].stamp /\ log[i].stamp <= hi
    <3>1. tru + err <= tru + err /\ tru + err <= hi
      BY <1>3, <1>4
    <3> QED  BY <2>1, <2>3, <3>1
  <2>4. log'[i].stamp = tru + err + Zone /\ log'[i].at = tru
    <3>1. log'[i].stamp = log[i].stamp + Zone /\ log'[i].at = log[i].at
      BY <1>5, <2>a
    <3> QED  BY <2>1, <3>1
  <2>5. Slack(i)' = 0
    BY <1>1, <1>3, <2>4 DEF Slack
  <2> QED  BY <1>1, <1>3, <2>4, <2>5 DEF Clock!NtpAssumption
<1> QED  BY <1>6, <1>7, <1>8, <1>9, <1>10 DEF NInv

LEMMA NoLocalKept ==
  ASSUME Clock!NtpAssumption, NInv, Clock!NoLocal
  PROVE  NInv'
<1>1. /\ phase = "init" /\ phase' = "up" /\ err' = err /\ log' = log /\ fixed' = fixed
      /\ Zone' = Zone /\ tru' = tru /\ chip' = chip /\ boots' = boots
  BY DEF Clock!NoLocal
<1>2. ClockTypes' /\ Past' /\ AtBoot'
  BY <1>1 DEF NInv, ClockTypes, Past, AtBoot
<1>3. Booted'
  BY <1>1 DEF NInv, Booted, BootAt
<1>4. AfterBoot'
  <2> SUFFICES ASSUME NEW i \in DOMAIN log, log[i].no = boots
               PROVE  /\ -Step < Slack(i) /\ Slack(i) < Step
                      /\ log[i].stamp = log[i].at + err
    BY <1>1 DEF AfterBoot, Slack
  <2>1. log[i].at = tru /\ log[i].stamp = tru + err /\ tru \in Nat /\ err \in Int
    BY <1>1 DEF NInv, AtBoot, ClockTypes
  <2>2. Slack(i) = 0
    BY <2>1 DEF Slack
  <2> QED  BY <2>1, <2>2 DEF Clock!NtpAssumption
<1> QED  BY <1>2, <1>3, <1>4 DEF NInv

(* A server's answer: a long step takes along all of this boot's records   *)
(* up to now.                                                              *)
LEMMA SntpKept ==
  ASSUME Clock!NtpAssumption, NInv, NEW zone \in BOOLEAN, Clock!Sntp(zone)
  PROVE  NInv' /\ Stamps
<1>1. /\ phase = "up" /\ phase' = phase /\ err' = 0 /\ log' = Clock!Moved /\ fixed' = fixed
      /\ Zone' = Zone /\ tru' = tru /\ chip' \in {chip, 0} /\ boots' = boots
  BY DEF Clock!Sntp, Clock!Written
<1>2. PICK k \in DOMAIN log : BootAt(k)
  BY <1>1 DEF NInv, Booted
<1>3. tru \in Nat /\ err \in Int /\ Clock!Clock = tru + err /\ boots \in Nat /\ Step \in Nat /\ 0 < Step
  BY DEF NInv, ClockTypes, Clock!Clock, Clock!NtpAssumption
<1>4. CASE Clock!Abs(err) < Step
  <2>1. log' = log
    <3>1. ~(Clock!Abs(err) >= Step)
      BY <1>3, <1>4 DEF Clock!Abs
    <3> QED  BY <1>1, <3>1 DEF Clock!Moved
  <2>2. -Step < err /\ err < Step
    BY <1>3, <1>4 DEF Clock!Abs
  <2>3. Stamps
    BY <1>1, <2>1 DEF NInv, ClockTypes, Stamps
  <2>4. ClockTypes' /\ Past' /\ AtBoot'
    BY <1>1, <2>1 DEF NInv, ClockTypes, Past, AtBoot
  <2>5. Booted'
    BY <1>1, <2>1 DEF NInv, Booted, BootAt
  <2>6. AfterBoot'
    <3> SUFFICES ASSUME fixed, NEW i \in DOMAIN log, log[i].no = boots
                 PROVE  -Step < Slack(i)' /\ Slack(i)' < Step
      BY <1>1, <2>1 DEF AfterBoot
    <3>1. -Step < Slack(i) /\ Slack(i) < Step /\ (err # 0 => log[i].stamp = log[i].at + err)
      BY <1>1 DEF NInv, AfterBoot
    <3>2. log[i].stamp \in Int /\ log[i].at \in Nat
      BY RecordIs DEF NInv
    <3>3. Slack(i)' = log[i].stamp - log[i].at
      BY <1>1, <2>1, <3>2 DEF Slack
    <3>4. CASE err = 0
      BY <3>1, <3>2, <3>3, <3>4 DEF Slack
    <3>5. CASE err # 0
      BY <1>3, <2>2, <3>1, <3>2, <3>3, <3>5
    <3> QED  BY <3>4, <3>5
  <2> QED  BY <2>3, <2>4, <2>5, <2>6 DEF NInv
<1>5. CASE ~(Clock!Abs(err) < Step)
  <2>1. Clock!Abs(err) >= Step /\ err # 0
    BY <1>3, <1>5 DEF Clock!Abs
  <2>2. PICK delta \in Int : delta = -err
    BY <1>3
  <2>3. PICK hi \in Int : hi = tru + err + 1 /\ log' = Clock!Shifted(delta, hi)
    BY <1>1, <1>3, <2>1, <2>2 DEF Clock!Moved
  <2>4. /\ log' \in Seq(Recs) /\ Len(log') = Len(log) /\ DOMAIN log' = DOMAIN log
        /\ \A i \in DOMAIN log :
             /\ log'[i].boot = log[i].boot /\ log'[i].at = log[i].at /\ log'[i].no = log[i].no
             /\ IF i >= k /\ log[k].stamp <= log[i].stamp /\ log[i].stamp <= hi
                THEN log'[i].stamp = log[i].stamp + delta
                ELSE log'[i] = log[i]
    BY <1>2, <2>3, ShiftedIs DEF NInv
  <2>5. Stamps
    BY <1>1, <2>4 DEF Stamps
  <2>6. ClockTypes' /\ AtBoot'
    BY <1>1, <1>3, <2>4 DEF NInv, ClockTypes, AtBoot
  <2>7. Past' /\ Booted'
    BY <1>2, <2>4, <2>5, StampsKept DEF NInv, Booted
  <2>8. AfterBoot'
    <3> SUFFICES ASSUME fixed, NEW i \in DOMAIN log, log[i].no = boots
                 PROVE  -Step < Slack(i)' /\ Slack(i)' < Step
      BY <1>1, <2>4 DEF AfterBoot
    <3>1. log[i].stamp = log[i].at + err
      BY <1>1, <2>1 DEF NInv, AfterBoot
    <3>2. log[k].no = boots /\ (i < k => log[i].no < boots) /\ (i >= k => log[i].at >= log[k].at) /\ i \in Nat /\ k \in Nat
      BY <1>2 DEF BootAt, NInv, ClockTypes
    <3>3. log[k].stamp = log[k].at + err
      BY <1>1, <1>2, <2>1, <3>2 DEF NInv, AfterBoot
    <3>4. i >= k /\ log[i].at >= log[k].at
      BY <1>3, <3>2
    <3>5. log[i].at \in Nat /\ log[k].at \in Nat /\ log[i].at <= tru
      BY <1>2, RecordIs DEF NInv, Past
    <3>6. log[k].stamp <= log[i].stamp /\ log[i].stamp <= hi
      BY <1>3, <2>3, <3>1, <3>3, <3>4, <3>5
    <3>7. log'[i].stamp = log[i].stamp + delta /\ log'[i].at = log[i].at
      BY <2>4, <3>4, <3>6
    <3>8. Slack(i)' = 0
      BY <1>1, <1>3, <2>2, <3>1, <3>5, <3>7 DEF Slack
    <3> QED  BY <1>3, <3>8
  <2> QED  BY <2>5, <2>6, <2>7, <2>8 DEF NInv
<1> QED  BY <1>4, <1>5

LEMMA SetByHandKept ==
  ASSUME NInv, Clock!SetByHand
  PROVE  NInv'
<1>1. /\ phase = "up" /\ phase' = phase /\ err' = 0 /\ log' = log /\ fixed' = FALSE
      /\ Zone' = Zone /\ tru' = tru /\ chip' \in {chip, 0} /\ boots' = boots
  BY DEF Clock!SetByHand, Clock!Written
<1>2. ClockTypes' /\ Past' /\ AtBoot' /\ AfterBoot'
  BY <1>1 DEF NInv, ClockTypes, Past, AtBoot, AfterBoot
<1>3. Booted'
  BY <1>1 DEF NInv, Booted, BootAt
<1> QED  BY <1>2, <1>3 DEF NInv

LEMMA FixRecordsKept ==
  ASSUME Clock!NtpAssumption, NInv, Clock!FixRecords
  PROVE  NInv' /\ Stamps
<1>1. /\ phase = "up" /\ phase' = phase /\ err' = err /\ fixed' = FALSE
      /\ log' = (IF Clock!Early THEN Clock!Shifted(Zone, Clock!EarlyTo) ELSE log)
      /\ Zone' = Zone /\ tru' = tru /\ chip' = chip /\ boots' = boots
  BY DEF Clock!FixRecords
<1>2. PICK k \in DOMAIN log : BootAt(k)
  BY <1>1 DEF NInv, Booted
<1>3. Zone \in Int /\ Window \in Nat /\ log[k].stamp \in Int
  BY <1>2, RecordIs DEF NInv, ClockTypes, Clock!NtpAssumption
<1>4. PICK hi \in Int : hi = Clock!EarlyTo
  <2>1. Clock!EarlyTo = log[k].stamp + Window
    BY <1>2, LastIs DEF NInv, Clock!EarlyTo
  <2> QED  BY <1>3, <2>1
<1>5. /\ log' \in Seq(Recs) /\ DOMAIN log' = DOMAIN log
      /\ \A i \in DOMAIN log : log'[i].boot = log[i].boot /\ log'[i].at = log[i].at /\ log'[i].no = log[i].no
  <2>1. CASE Clock!Early
    <3>1. log' = Clock!Shifted(Zone, hi)
      BY <1>1, <1>4, <2>1
    <3> QED  BY <1>2, <1>3, <3>1, ShiftedIs DEF NInv
  <2>2. CASE ~Clock!Early
    BY <1>1, <2>2 DEF NInv, ClockTypes
  <2> QED  BY <2>1, <2>2
<1>6. Stamps
  BY <1>1, <1>5 DEF Stamps
<1>7. ClockTypes' /\ AtBoot' /\ AfterBoot'
  BY <1>1, <1>5 DEF NInv, ClockTypes, AtBoot, AfterBoot
<1>8. Past' /\ Booted'
  BY <1>2, <1>5, <1>6, StampsKept DEF NInv, Booted
<1> QED  BY <1>6, <1>7, <1>8 DEF NInv

LEMMA ClockStep ==
  ASSUME Clock!NtpAssumption, NInv, [Clock!Next]_(Clock!vars)
  PROVE  NInv'
<1>1. CASE Clock!Next
  <2>1. ASSUME NEW zone \in BOOLEAN, Clock!Sntp(zone)
        PROVE  NInv'
    BY <2>1, SntpKept
  <2> QED  BY <1>1, <2>1, PassKept, BootKept, LogRecordKept, BootLocalKept, NoLocalKept, SetByHandKept, FixRecordsKept
           DEF Clock!Next
<1>2. CASE UNCHANGED Clock!vars
  <2>1. /\ Zone' = Zone /\ tru' = tru /\ err' = err /\ chip' = chip /\ phase' = phase /\ log' = log
        /\ boots' = boots /\ fixed' = fixed
    BY <1>2 DEF Clock!vars
  <2>2. ClockTypes' /\ Past' /\ AtBoot' /\ AfterBoot'
    BY <2>1 DEF NInv, ClockTypes, Past, AtBoot, AfterBoot, Slack
  <2>3. Booted'
    BY <2>1 DEF NInv, Booted, BootAt
  <2> QED  BY <2>2, <2>3 DEF NInv
<1> QED  BY <1>1, <1>2

LEMMA ClockInit ==
  ASSUME Clock!NtpAssumption, Clock!Init
  PROVE  NInv
<1>1. /\ Zone \in Zones /\ tru = 0 /\ err = 0 /\ chip \in ChipErrs /\ phase = "off" /\ log = <<>> /\ boots = 0
  BY DEF Clock!Init
<1>2. ClockTypes
  BY <1>1 DEF Clock!NtpAssumption, ClockTypes
<1>3. Past /\ Booted /\ AtBoot /\ AfterBoot
  BY <1>1 DEF Past, Booted, AtBoot, AfterBoot
<1> QED  BY <1>2, <1>3 DEF NInv

LEMMA ClockInv == ASSUME Clock!NtpAssumption PROVE Clock!Spec => []NInv
<1>1. Clock!Init => NInv
  BY ClockInit
<1>2. NInv /\ [Clock!Next]_(Clock!vars) => NInv'
  BY ClockStep
<1> QED  BY <1>1, <1>2, PTL DEF Clock!Spec

LEMMA RightRecords ==
  ASSUME Clock!NtpAssumption, NInv
  PROVE  Clock!RecordsRight
<1> SUFFICES ASSUME phase = "up", fixed, NEW i \in DOMAIN log, log[i].no = boots
             PROVE  Clock!Abs(log[i].stamp - log[i].at - err) < Step
  BY DEF Clock!RecordsRight
<1>1. log[i].stamp \in Int /\ log[i].at \in Nat /\ err \in Int /\ Step \in Nat
  BY RecordIs DEF NInv, ClockTypes, Clock!NtpAssumption
<1>2. PICK x \in Int : x = log[i].stamp - log[i].at - err
  BY <1>1
<1>3. -Step < x /\ x < Step
  BY <1>2 DEF NInv, AfterBoot, Slack
<1>4. Clock!Abs(x) < Step
  BY <1>1, <1>3 DEF Clock!Abs
<1> QED  BY <1>2, <1>4

(* Once -b has run, and a server was asked since or not, how often soever, *)
(* this boot's records agree with the clock, whatever the zone, the chip   *)
(* was off by, and when they were written. (boot_local, setclock)          *)
THEOREM RecordsAreRight == ASSUME Clock!NtpAssumption PROVE Clock!Spec => []Clock!RecordsRight
<1>1. NInv => Clock!RecordsRight
  BY RightRecords
<1> QED  BY <1>1, ClockInv, PTL

(* What -b, a server's answer and -u move is of this boot.                 *)
LEMMA OldStays ==
  ASSUME ClockTypes, NEW k, BootAt(k), NEW delta \in Int, NEW hi \in Int, log' = Clock!Shifted(delta, hi)
  PROVE  Clock!OldStep
<1> SUFFICES ASSUME NEW i \in DOMAIN log, log[i].no < boots
             PROVE  log'[i] = log[i]
  BY DEF Clock!OldStep
<1>1. i \in Nat /\ k \in Nat /\ log[i].no \in Nat /\ boots \in Nat
  BY RecordIs DEF BootAt, ClockTypes
<1>2. ~(i >= k)
  BY <1>1 DEF BootAt
<1> QED  BY <1>2, ShiftedIs

LEMMA OldSteps ==
  ASSUME Clock!NtpAssumption, NInv, Clock!Next
  PROVE  Clock!OldStep
<1>1. CASE log' = log
  BY <1>1 DEF Clock!OldStep
<1>2. ASSUME NEW r \in Recs, log' = Append(log, r)
      PROVE  Clock!OldStep
  BY <1>2, AppendIs DEF NInv, Clock!OldStep
<1>3. CASE Clock!Boot
  <2>1. PICK r : r = [boot |-> TRUE, stamp |-> tru + err', at |-> tru, no |-> boots']
    OBVIOUS
  <2>2. log' = Append(log, r) /\ err' = chip - Zone /\ boots' = boots + 1
    BY <1>3, <2>1 DEF Clock!Boot, Clock!Record
  <2>3. r \in Recs
    BY <2>1, <2>2 DEF NInv, ClockTypes, Recs
  <2> QED  BY <1>2, <2>2, <2>3
<1>4. CASE Clock!LogRecord
  <2>1. PICK r : r = [boot |-> FALSE, stamp |-> tru + err, at |-> tru, no |-> boots]
    OBVIOUS
  <2>2. log' = Append(log, r)
    BY <1>4, <2>1 DEF Clock!LogRecord, Clock!Record
  <2>3. r \in Recs
    BY <2>1 DEF NInv, ClockTypes, Recs
  <2> QED  BY <1>2, <2>2, <2>3
<1>5. ASSUME phase # "off", NEW delta \in Int, NEW hi \in Int, log' = Clock!Shifted(delta, hi)
      PROVE  Clock!OldStep
  <2>1. PICK k \in DOMAIN log : BootAt(k)
    BY <1>5 DEF NInv, Booted
  <2> QED  BY <1>5, <2>1, OldStays DEF NInv
<1>6. Zone \in Int /\ -err \in Int /\ Clock!Clock \in Int /\ Clock!Clock + 1 \in Int
  BY DEF NInv, ClockTypes, Clock!Clock
<1>7. CASE Clock!BootLocal
  <2>1. phase # "off" /\ log' = Clock!Shifted(Zone, Clock!Clock + 1)
    BY <1>7 DEF Clock!BootLocal
  <2> QED  BY <1>5, <1>6, <2>1
<1>8. ASSUME NEW zone \in BOOLEAN, Clock!Sntp(zone)
      PROVE  Clock!OldStep
  <2>1. phase # "off" /\ (log' = log \/ log' = Clock!Shifted(-err, Clock!Clock + 1))
    BY <1>8 DEF Clock!Sntp, Clock!Moved
  <2> QED  BY <1>1, <1>5, <1>6, <2>1
<1>9. CASE Clock!FixRecords
  <2>1. phase # "off" /\ (log' = log \/ log' = Clock!Shifted(Zone, Clock!EarlyTo))
    BY <1>9 DEF Clock!FixRecords
  <2>2. PICK k \in DOMAIN log : BootAt(k)
    BY <2>1 DEF NInv, Booted
  <2>3. Clock!EarlyTo \in Int
    <3>1. Clock!EarlyTo = log[k].stamp + Window
      BY <2>2, LastIs DEF NInv, Clock!EarlyTo
    <3>2. log[k].stamp \in Int /\ Window \in Nat
      BY <2>2, RecordIs DEF NInv, Clock!NtpAssumption
    <3> QED  BY <3>1, <3>2
  <2> QED  BY <1>1, <1>5, <1>6, <2>1, <2>3
<1>10. CASE Clock!Pass \/ Clock!NoLocal \/ Clock!SetByHand
  BY <1>1, <1>10 DEF Clock!Pass, Clock!NoLocal, Clock!SetByHand
<1> QED  BY <1>3, <1>4, <1>7, <1>8, <1>9, <1>10 DEF Clock!Next

(* The records of an earlier boot are never moved. (shift_file)            *)
THEOREM OldRecordsStay == ASSUME Clock!NtpAssumption PROVE Clock!Spec => [][Clock!OldStep]_(Clock!vars)
<1>1. NInv /\ [Clock!Next]_(Clock!vars) => [Clock!OldStep]_(Clock!vars)
  BY OldSteps
<1> QED  BY <1>1, ClockInv, PTL DEF Clock!Spec

-----------------------------------------------------------------------------
(* -u finds the early records early when they are, and moves them alone.   *)
LEMMA FixSteps ==
  ASSUME Clock!NtpAssumption, NInv
  PROVE  Clock!FixStep
<1> SUFFICES ASSUME Clock!FixRecords, err = 0, Clock!Last \in Clock!Wrong,
                    \A i \in Clock!Wrong : log[i].stamp = log[i].at - Zone /\ log[i].stamp <= Clock!Tb + Window,
                    Zone < 0 => \E i \in DOMAIN log : i > Clock!Last /\ i \notin Clock!Wrong /\ log[i].stamp < Clock!Tb
             PROVE  Clock!Wrong' = Clock!Mistaken
  BY DEF Clock!FixStep
<1>1. phase = "up" /\ log' = (IF Clock!Early THEN Clock!Shifted(Zone, Clock!EarlyTo) ELSE log)
  BY DEF Clock!FixRecords
<1>2. PICK k \in DOMAIN log : BootAt(k)
  BY <1>1 DEF NInv, Booted
<1>3. PICK tb : tb = log[k].stamp
  OBVIOUS
<1>4. /\ k \in Nat /\ tb \in Int /\ log[k].at \in Nat /\ Zone \in Int /\ tru \in Nat /\ Window \in Nat
      /\ Clock!Last = k /\ Clock!Tb = tb /\ Clock!Clock = tru
  BY <1>2, <1>3, RecordIs, LastIs DEF NInv, ClockTypes, Clock!Clock, Clock!NtpAssumption
<1>5. \A i \in DOMAIN log : /\ i \in Nat /\ log[i].stamp \in Int /\ log[i].at \in Nat /\ log[i].at <= tru
                            /\ i >= k => log[i].at >= log[k].at
                            /\ i \in Clock!Wrong <=> i >= k /\ log[i].stamp # log[i].at
  BY <1>2, <1>4, RecordIs DEF NInv, Past, BootAt, Clock!Wrong
<1>6. tb = log[k].at - Zone /\ tb # log[k].at /\ Zone # 0
  BY <1>2, <1>3, <1>4, <1>5
<1>7. \A i \in DOMAIN log : i >= k /\ log[i].stamp # log[i].at =>
        log[i].stamp = log[i].at - Zone /\ tb <= log[i].stamp /\ log[i].stamp <= tb + Window
  <2> SUFFICES ASSUME NEW i \in DOMAIN log, i >= k, log[i].stamp # log[i].at
               PROVE  log[i].stamp = log[i].at - Zone /\ tb <= log[i].stamp /\ log[i].stamp <= tb + Window
    OBVIOUS
  <2>1. log[i].stamp = log[i].at - Zone /\ log[i].stamp <= tb + Window
    BY <1>4, <1>5
  <2>2. log[i].at >= log[k].at /\ log[i].at \in Nat
    BY <1>5
  <2> QED  BY <1>4, <1>6, <2>1, <2>2
<1>9. Clock!Early
  <2>1. CASE Zone > 0
    <3>1. Clock!Mag = Zone
      BY <1>4, <2>1 DEF Clock!Mag
    <3>2. ASSUME NEW t \in Clock!Later
          PROVE  t >= tb + Zone - Window
      <4>1. CASE t = tru
        <5>1. log[k].at <= tru
          BY <1>2, <1>5
        <5> QED  BY <1>4, <1>6, <4>1, <5>1
      <4>2. CASE t # tru
        <5>1. PICK j \in DOMAIN log : t = log[j].stamp /\ j >= k /\ log[j].stamp > tb + Window
          BY <1>4, <3>2, <4>2 DEF Clock!Later
        <5>2. log[j].stamp = log[j].at
          BY <1>4, <1>5, <1>7, <5>1
        <5>3. log[j].at >= log[k].at /\ log[j].at \in Nat
          BY <1>5, <5>1
        <5> QED  BY <1>4, <1>6, <5>1, <5>2, <5>3
      <4> QED  BY <4>1, <4>2
    <3> QED  BY <1>4, <2>1, <3>1, <3>2 DEF Clock!Early
  <2>2. CASE Zone < 0
    <3>1. PICK i \in DOMAIN log : i > k /\ log[i].stamp < tb
      BY <1>4, <2>2
    <3>2. i >= k /\ ~(Zone > 0)
      BY <1>4, <1>5, <2>2, <3>1
    <3> QED  BY <1>4, <3>1, <3>2 DEF Clock!Early
  <2> QED  BY <1>4, <1>6, <2>1, <2>2
<1>10. PICK hi \in Int : hi = tb + Window /\ log' = Clock!Shifted(Zone, hi)
  <2>1. Clock!EarlyTo = tb + Window /\ tb + Window \in Int
    BY <1>4 DEF Clock!EarlyTo
  <2> QED  BY <1>1, <1>9, <2>1
<1>11. /\ DOMAIN log' = DOMAIN log
       /\ \A i \in DOMAIN log :
            /\ log'[i].at = log[i].at
            /\ IF i >= k /\ tb <= log[i].stamp /\ log[i].stamp <= hi
               THEN log'[i].stamp = log[i].stamp + Zone
               ELSE log'[i] = log[i]
  BY <1>2, <1>3, <1>4, <1>10, ShiftedIs DEF NInv
<1>12. Clock!Last' = k
  <2>1. NInv' /\ Stamps
    BY FixRecordsKept
  <2>2. BootAt(k)' /\ ClockTypes'
    BY <1>2, <2>1, StampsKept DEF NInv
  <2>3. /\ k \in DOMAIN log' /\ log'[k].boot /\ DOMAIN log' \subseteq Nat
        /\ \A j \in DOMAIN log' : log'[j].boot => j <= k
    <3>1. DOMAIN log' \subseteq Nat
      BY <2>2 DEF ClockTypes
    <3> QED  BY <2>2, <3>1 DEF BootAt
  <2>4. \A i \in DOMAIN log' : log'[i].boot /\ (\A j \in DOMAIN log' : log'[j].boot => j <= i) => i = k
    BY <2>3
  <2> QED  BY <2>3, <2>4 DEF Clock!Last
<1>13. ASSUME NEW i \in DOMAIN log, i >= k
       PROVE  log'[i].stamp # log'[i].at <=> log[i].stamp = log[i].at /\ tb <= log[i].stamp /\ log[i].stamp <= hi
  <2>1. CASE tb <= log[i].stamp /\ log[i].stamp <= hi
    <3>1. log'[i].stamp = log[i].stamp + Zone /\ log'[i].at = log[i].at
      BY <1>11, <1>13, <2>1
    <3>2. CASE log[i].stamp = log[i].at
      BY <1>4, <1>5, <1>6, <2>1, <3>1, <3>2
    <3>3. CASE log[i].stamp # log[i].at
      <4>1. log[i].stamp = log[i].at - Zone
        BY <1>7, <1>13, <3>3
      <4> QED  BY <1>4, <1>5, <3>1, <3>3, <4>1
    <3> QED  BY <3>2, <3>3
  <2>2. CASE ~(tb <= log[i].stamp /\ log[i].stamp <= hi)
    <3>1. log'[i] = log[i]
      BY <1>11, <2>2
    <3>2. log[i].stamp = log[i].at
      BY <1>7, <1>10, <1>13, <2>2
    <3> QED  BY <2>2, <3>1, <3>2
  <2> QED  BY <2>1, <2>2
<1>14. Clock!Wrong' = {i \in DOMAIN log : i >= k /\ log'[i].stamp # log'[i].at}
  BY <1>11, <1>12 DEF Clock!Wrong
<1>15. Clock!Mistaken = {i \in DOMAIN log : i >= k /\ log[i].stamp = log[i].at /\ tb <= log[i].stamp /\ log[i].stamp <= hi}
  <2>1. \A i \in DOMAIN log : log[i].stamp \in tb .. tb + Window <=> tb <= log[i].stamp /\ log[i].stamp <= hi
    BY <1>4, <1>5, <1>10
  <2> QED  BY <1>4, <1>5, <2>1 DEF Clock!Mistaken
<1> QED  BY <1>13, <1>14, <1>15

(* -u, where the clock was set right another way, leaves each early record *)
(* of this boot right and spoils only right ones stamped in the window     *)
(* after the boot record, if the early ones were written within the window *)
(* and, east of Greenwich, someone has logged in within the offset since.  *)
(* (shift_file)                                                            *)
THEOREM FixAlwaysHelps == ASSUME Clock!NtpAssumption PROVE Clock!Spec => [][Clock!FixStep]_(Clock!vars)
<1>1. NInv => Clock!FixStep
  BY FixSteps
<1>2. NInv /\ [Clock!Next]_(Clock!vars) => [Clock!FixStep]_(Clock!vars)
  BY <1>1
<1> QED  BY <1>2, ClockInv, PTL DEF Clock!Spec

-----------------------------------------------------------------------------
(***************************************************************************)
(* The X servers' keyboard: what is still to be read, buf and then wire,   *)
(* settles what the clients will take to be down, however it is split.     *)
(***************************************************************************)
Units == [t: {"key"}, key: Io!Keys, up: BOOLEAN, meant: BOOLEAN] \cup [t: {"mouse"}, b: SUBSET Io!Buttons] \cup [t: {"rest"}]
Servants == [ctrl: BOOLEAN, alt: BOOLEAN, down: SUBSET Io!Keys, eaten: SUBSET FKeys, told: SUBSET Io!Buttons,
             clients: SUBSET (Io!Keys \cup Io!Buttons), asked: {"no", "meant", "unmeant"}]
(* What the server knows of its clients, between any two units             *)
Knows(s) ==
  /\ s \in Servants /\ s.asked # "unmeant"
  /\ s.told = s.clients \cap Io!Buttons
  /\ s.down \ FKeys = (s.clients \cap Io!Keys) \ FKeys

(* Whether k will be down once units i + 1 .. n of q are read; it is now   *)
(* if it is in B                                                           *)
Of(q, j, k) == q[j].t = "key" /\ q[j].key = k
Ends(q, k, i, n, B) ==
  \/ k \in B /\ \A j \in i + 1 .. n : ~Of(q, j, k)
  \/ \E j \in i + 1 .. n : Of(q, j, k) /\ ~q[j].up /\ \A l \in j + 1 .. n : ~Of(q, l, k)
(* What the server takes Ctrl and Alt to be                                *)
Turns == {"ctrl", "alt"}
Mods(s) == (IF s.ctrl THEN {"ctrl"} ELSE {}) \cup (IF s.alt THEN {"alt"} ELSE {})
(* What is to be read of q behind unit i leaves down only what the hands h *)
(* hold; Ctrl, Alt and an F-key in it were meant; the last of the packets  *)
(* has the buttons bs; a packet is whole.                                  *)
KeysTo(q, s, i, h) ==
  /\ \A k \in Io!Keys \ FKeys : Ends(q, k, i, Len(q), s.clients) => k \in h
  /\ \A k \in Turns : Ends(q, k, i, Len(q), Mods(s)) => k \in h
Switches(q, s, i) ==
  \A j \in i + 1 .. Len(q) :
    /\ q[j].t = "key" /\ q[j].key \in FKeys /\ ~q[j].up
    /\ \A k \in Turns : Ends(q, k, i, j - 1, Mods(s))
    => q[j].meant
ButtonsTo(q, s, i, bs) ==
  /\ (\A j \in i + 1 .. Len(q) : q[j].t # "mouse") => s.told \subseteq bs
  /\ \A j \in i + 1 .. Len(q) : q[j].t = "mouse" /\ (\A l \in j + 1 .. Len(q) : q[l].t # "mouse") => q[j].b \subseteq bs
Goes(q, s, i, h, bs) == Knows(s) /\ KeysTo(q, s, i, h) /\ Switches(q, s, i) /\ ButtonsTo(q, s, i, bs)
Packets(q) ==
  \A i \in 1 .. Len(q) : q[i].t = "mouse" => i + 2 <= Len(q) /\ q[i + 1].t = "rest" /\ q[i + 2].t = "rest"

Pending == buf \o wire
IoInv ==
  /\ wire \in Seq(Units) /\ buf \in Seq(Units) /\ ours \in BOOLEAN
  /\ hands \subseteq Io!Keys /\ buttons \subseteq Io!Buttons /\ Knows(Io!S)
  /\ ours => Packets(Pending) /\ Goes(Pending, Io!S, 0, hands, buttons)
  /\ ~ours => wire = <<>> /\ buf = <<>> /\ clients \ FKeys = {}

LEMMA UnitIs ==
  ASSUME NEW u \in Units
  PROVE  \/ u.t = "key" /\ u.key \in Io!Keys /\ u.up \in BOOLEAN /\ u.meant \in BOOLEAN
         \/ u.t = "mouse" /\ u.b \subseteq Io!Buttons
         \/ u.t = "rest"
  BY DEF Units

(* Reading one unit more                                                   *)
LEMMA EndsReads ==
  ASSUME NEW q \in Seq(Units), NEW k, NEW i \in Nat, NEW n \in Nat, i < n, n <= Len(q), NEW B, NEW C,
         k \in C <=> IF Of(q, i + 1, k) THEN ~q[i + 1].up ELSE k \in B
  PROVE  Ends(q, k, i, n, B) <=> Ends(q, k, i + 1, n, C)
<1>1. \A j : j \in i + 1 .. n <=> j = i + 1 \/ j \in (i + 1) + 1 .. n
  OBVIOUS
<1>2. CASE Of(q, i + 1, k)
  <2>1. Ends(q, k, i + 1, n, C) => Ends(q, k, i, n, B)
    <3> SUFFICES ASSUME Ends(q, k, i + 1, n, C)
                 PROVE  Ends(q, k, i, n, B)
      OBVIOUS
    <3>1. CASE k \in C /\ \A j \in (i + 1) + 1 .. n : ~Of(q, j, k)
      BY <1>1, <1>2, <3>1 DEF Ends
    <3>2. CASE \E j \in (i + 1) + 1 .. n : Of(q, j, k) /\ ~q[j].up /\ \A l \in j + 1 .. n : ~Of(q, l, k)
      BY <1>1, <3>2 DEF Ends
    <3> QED  BY <3>1, <3>2 DEF Ends
  <2>2. Ends(q, k, i, n, B) => Ends(q, k, i + 1, n, C)
    <3> SUFFICES ASSUME Ends(q, k, i, n, B)
                 PROVE  Ends(q, k, i + 1, n, C)
      OBVIOUS
    <3>1. PICK j \in i + 1 .. n : Of(q, j, k) /\ ~q[j].up /\ \A l \in j + 1 .. n : ~Of(q, l, k)
      BY <1>1, <1>2 DEF Ends
    <3>2. CASE j = i + 1
      BY <3>1, <3>2 DEF Ends
    <3>3. CASE j # i + 1
      BY <1>1, <3>1, <3>3 DEF Ends
    <3> QED  BY <3>2, <3>3
  <2> QED  BY <1>2, <2>1, <2>2
<1>3. CASE ~Of(q, i + 1, k)
  <2>1. (\A j \in i + 1 .. n : ~Of(q, j, k)) <=> (\A j \in (i + 1) + 1 .. n : ~Of(q, j, k))
    BY <1>1, <1>3
  <2>2. \A j : j \in i + 1 .. n /\ Of(q, j, k) <=> j \in (i + 1) + 1 .. n /\ Of(q, j, k)
    BY <1>1, <1>3
  <2> HIDE DEF Of
  <2> QED  BY <1>3, <2>1, <2>2 DEF Ends
<1> QED  BY <1>2, <1>3

LEMMA EndsNow ==
  ASSUME NEW q \in Seq(Units), NEW k, NEW i \in Nat, NEW B
  PROVE  Ends(q, k, i, i, B) <=> k \in B
<1>1. i + 1 .. i = {}
  OBVIOUS
<1> QED  BY <1>1 DEF Ends

(* What is to be read from unit d + 1 on, as a sequence of its own         *)
LEMMA EndsBehind ==
  ASSUME NEW q \in Seq(Units), NEW d \in Nat, d <= Len(q), NEW r \in Seq(Units), Len(r) = Len(q) - d,
         \A j \in 1 .. Len(r) : r[j] = q[j + d], NEW n \in 0 .. Len(r), NEW k, NEW B
  PROVE  Ends(r, k, 0, n, B) <=> Ends(q, k, d, n + d, B)
<1>1. \A j \in 1 .. n : Of(r, j, k) <=> Of(q, j + d, k)
  BY DEF Of
<1>2. \A j \in 1 .. n : j + d \in d + 1 .. n + d
  OBVIOUS
<1>3. \A j \in d + 1 .. n + d : j - d \in 1 .. n /\ (j - d) + d = j
  OBVIOUS
<1>4. (\A j \in 1 .. n : ~Of(r, j, k)) <=> (\A j \in d + 1 .. n + d : ~Of(q, j, k))
  <2>1. \A j \in d + 1 .. n + d : Of(q, j, k) <=> Of(r, j - d, k)
    <3> SUFFICES ASSUME NEW j \in d + 1 .. n + d
                 PROVE  Of(q, j, k) <=> Of(r, j - d, k)
      OBVIOUS
    <3>1. PICK x \in 1 .. n : x = j - d /\ x + d = j
      BY <1>3
    <3> QED  BY <1>1, <3>1
  <2> HIDE DEF Of
  <2> QED  BY <1>1, <1>2, <1>3, <2>1
<1>5. ASSUME NEW j \in 1 .. n
      PROVE  (\A l \in j + 1 .. n : ~Of(r, l, k)) <=> (\A l \in (j + d) + 1 .. n + d : ~Of(q, l, k))
  <2>1. \A l \in j + 1 .. n : l + d \in (j + d) + 1 .. n + d /\ l \in 1 .. n
    OBVIOUS
  <2>2. \A l \in (j + d) + 1 .. n + d : l - d \in j + 1 .. n /\ (l - d) + d = l /\ l - d \in 1 .. n
    OBVIOUS
  <2>3. ASSUME NEW l \in (j + d) + 1 .. n + d
        PROVE  \E x \in j + 1 .. n : Of(q, l, k) <=> Of(r, x, k)
    <3>1. PICK x \in 1 .. n : x = l - d /\ x + d = l /\ x \in j + 1 .. n
      BY <2>2
    <3> QED  BY <1>1, <3>1
  <2>4. ASSUME NEW l \in j + 1 .. n
        PROVE  \E x \in (j + d) + 1 .. n + d : Of(r, l, k) <=> Of(q, x, k)
    BY <1>1, <2>1
  <2> HIDE DEF Of
  <2> QED  BY <2>3, <2>4
<1>6. \A j \in 1 .. n : r[j] = q[j + d]
  OBVIOUS
<1>7. (\E j \in 1 .. n : Of(r, j, k) /\ ~r[j].up /\ \A l \in j + 1 .. n : ~Of(r, l, k))
      => \E j \in d + 1 .. n + d : Of(q, j, k) /\ ~q[j].up /\ \A l \in j + 1 .. n + d : ~Of(q, l, k)
  <2> SUFFICES ASSUME NEW j \in 1 .. n, Of(r, j, k), ~r[j].up, \A l \in j + 1 .. n : ~Of(r, l, k)
               PROVE  \E x \in d + 1 .. n + d : Of(q, x, k) /\ ~q[x].up /\ \A l \in x + 1 .. n + d : ~Of(q, l, k)
    OBVIOUS
  <2>1. j + d \in d + 1 .. n + d /\ Of(q, j + d, k) /\ ~q[j + d].up /\ \A l \in (j + d) + 1 .. n + d : ~Of(q, l, k)
    BY <1>1, <1>2, <1>5, <1>6
  <2> QED  BY <2>1
<1>8. (\E j \in d + 1 .. n + d : Of(q, j, k) /\ ~q[j].up /\ \A l \in j + 1 .. n + d : ~Of(q, l, k))
      => \E j \in 1 .. n : Of(r, j, k) /\ ~r[j].up /\ \A l \in j + 1 .. n : ~Of(r, l, k)
  <2> SUFFICES ASSUME NEW x \in d + 1 .. n + d, Of(q, x, k), ~q[x].up, \A l \in x + 1 .. n + d : ~Of(q, l, k)
               PROVE  \E j \in 1 .. n : Of(r, j, k) /\ ~r[j].up /\ \A l \in j + 1 .. n : ~Of(r, l, k)
    OBVIOUS
  <2>1. PICK j \in 1 .. n : x = j + d
    BY <1>3
  <2>2. Of(r, j, k) /\ ~r[j].up /\ \A l \in j + 1 .. n : ~Of(r, l, k)
    BY <1>1, <1>5, <1>6, <2>1
  <2> QED  BY <2>2
<1>9. 0 + 1 = 1
  OBVIOUS
<1> HIDE DEF Of
<1> QED  BY <1>4, <1>7, <1>8, <1>9 DEF Ends

(* Units come behind                                                       *)
LEMMA EndsComes ==
  ASSUME NEW q \in Seq(Units), NEW u \in Units, NEW k, NEW B, NEW r, r = Append(q, u)
  PROVE  /\ \A n \in 0 .. Len(q) : Ends(r, k, 0, n, B) <=> Ends(q, k, 0, n, B)
         /\ Ends(r, k, 0, Len(r), B) <=> IF u.t = "key" /\ u.key = k THEN ~u.up ELSE Ends(q, k, 0, Len(q), B)
<1> DEFINE N == Len(q)
<1>1. Len(r) = N + 1 /\ r[N + 1] = u /\ (\A j \in 1 .. N : r[j] = q[j]) /\ N \in Nat
  OBVIOUS
<1> HIDE DEF N
<1>2. \A j \in 1 .. N : Of(r, j, k) <=> Of(q, j, k)
  BY <1>1 DEF Of
<1>3. \A n \in 0 .. N : Ends(r, k, 0, n, B) <=> Ends(q, k, 0, n, B)
  <2> SUFFICES ASSUME NEW n \in 0 .. N
               PROVE  Ends(r, k, 0, n, B) <=> Ends(q, k, 0, n, B)
    OBVIOUS
  <2>1. \A j \in 0 + 1 .. n : j \in 1 .. N /\ \A l \in j + 1 .. n : l \in 1 .. N
    BY <1>1
  <2>2. \A j \in 0 + 1 .. n : r[j] = q[j] /\ (Of(r, j, k) <=> Of(q, j, k)) /\ \A l \in j + 1 .. n : Of(r, l, k) <=> Of(q, l, k)
    BY <1>1, <1>2, <2>1
  <2> HIDE DEF Of
  <2> QED  BY <2>2 DEF Ends
<1>4. Of(r, N + 1, k) <=> u.t = "key" /\ u.key = k
  BY <1>1 DEF Of
<1>5. \A j : j \in 0 + 1 .. N + 1 <=> j = N + 1 \/ j \in 0 + 1 .. N
  BY <1>1
<1>6. CASE Of(r, N + 1, k)
  <2>1. \A j \in 0 + 1 .. N : N + 1 \in j + 1 .. N + 1
    BY <1>1
  <2>2. (N + 1) + 1 .. N + 1 = {}
    BY <1>1
  <2>3. N + 1 \in 0 + 1 .. N + 1
    BY <1>1
  <2>4. Ends(r, k, 0, N + 1, B) <=> ~r[N + 1].up
    <3> HIDE DEF Of
    <3> QED  BY <1>5, <1>6, <2>1, <2>2, <2>3 DEF Ends
  <2> QED  BY <1>1, <1>3, <1>4, <1>6, <2>4 DEF N
<1>7. CASE ~Of(r, N + 1, k)
  <2>1. (\A j \in 0 + 1 .. N + 1 : ~Of(r, j, k)) <=> (\A j \in 0 + 1 .. N : ~Of(r, j, k))
    BY <1>5, <1>7
  <2>2. \A j : j \in 0 + 1 .. N + 1 /\ Of(r, j, k) <=> j \in 0 + 1 .. N /\ Of(r, j, k)
    BY <1>5, <1>7
  <2>3. ASSUME NEW j \in 0 + 1 .. N
        PROVE  (\A l \in j + 1 .. N + 1 : ~Of(r, l, k)) <=> (\A l \in j + 1 .. N : ~Of(r, l, k))
    <3>1. \A l : l \in j + 1 .. N + 1 <=> l = N + 1 \/ l \in j + 1 .. N
      BY <1>1
    <3> QED  BY <1>7, <3>1
  <2>4. Ends(r, k, 0, N + 1, B) <=> Ends(r, k, 0, N, B)
    <3> HIDE DEF Of
    <3> QED  BY <2>1, <2>2, <2>3 DEF Ends
  <2>5. Ends(r, k, 0, N, B) <=> Ends(q, k, 0, N, B)
    BY <1>1, <1>3
  <2> QED  BY <1>1, <1>3, <1>4, <1>7, <2>4, <2>5 DEF N
<1> QED  BY <1>6, <1>7

(* The server reads a unit                                                 *)
LEMMA KeyRead ==
  ASSUME Io!IoAssumption, NEW s, Knows(s), NEW u \in Units, u.t = "key",
         u.key \in FKeys /\ ~u.up /\ Mods(s) = Turns => u.meant, NEW t, t = Io!AtwInput(s, u)
  PROVE  /\ Knows(t) /\ t.told = s.told
         /\ \A x \in Turns : x \in Mods(t) <=> IF x = u.key THEN ~u.up ELSE x \in Mods(s)
         /\ \A x \in Io!Keys \ FKeys : x \in t.clients <=> IF x = u.key THEN ~u.up ELSE x \in s.clients
<1> DEFINE k == u.key
           m == Io!Modifiers(s, k, u.up)
<1>0. k \in Io!Keys /\ u.up \in BOOLEAN /\ u.meant \in BOOLEAN
  BY UnitIs
<1>a. t = Io!AtwKey(s, k, u.up, u.meant)
  BY DEF Io!AtwInput
<1>1. /\ s \in Servants /\ m \in Servants /\ m.down = s.down /\ m.clients = s.clients /\ m.told = s.told
      /\ m.eaten = s.eaten /\ m.asked = s.asked
      /\ m.ctrl = (IF k = "ctrl" THEN ~u.up ELSE s.ctrl) /\ m.alt = (IF k = "alt" THEN ~u.up ELSE s.alt)
  BY <1>0 DEF Knows, Servants, Io!Modifiers
<1>2. Io!Keys \cap Io!Buttons = {} /\ "ctrl" \notin FKeys /\ "alt" \notin FKeys
  BY DEF Io!IoAssumption, Io!Keys, Io!Buttons
<1>3. m.told = m.clients \cap Io!Buttons /\ m.down \ FKeys = (m.clients \cap Io!Keys) \ FKeys /\ m.asked # "unmeant"
  BY <1>1 DEF Knows
<1>m. (s.ctrl /\ s.alt => Mods(s) = Turns) /\ \A x \in Turns : x \in Mods(m) <=> IF x = k THEN ~u.up ELSE x \in Mods(s)
  BY <1>1 DEF Mods, Turns
<1>t. t.ctrl = m.ctrl /\ t.alt = m.alt => Mods(t) = Mods(m)
  BY DEF Mods
<1> HIDE DEF m, k
<1>4. CASE k \in FKeys /\ ~u.up /\ m.ctrl /\ m.alt
  <2>1. u.meant
    BY <1>1, <1>2, <1>4, <1>m DEF k
  <2>2. t = [m EXCEPT !.eaten = @ \cup {k}, !.asked = "meant"]
    BY <1>a, <1>3, <1>4, <2>1 DEF Io!AtwKey, m
  <2>3. t \in Servants
    <3>1. m.eaten \cup {k} \in SUBSET FKeys
      BY <1>1, <1>4 DEF Servants
    <3>2. [m EXCEPT !.eaten = m.eaten \cup {k}, !.asked = "meant"] \in Servants
      BY <1>1, <3>1 DEF Servants
    <3> QED  BY <2>2, <3>2
  <2>4. /\ t.down = m.down /\ t.clients = m.clients /\ t.told = m.told /\ t.asked = "meant"
        /\ t.ctrl = m.ctrl /\ t.alt = m.alt
    BY <1>1, <2>2 DEF Servants
  <2>5. Knows(t)
    BY <1>3, <2>3, <2>4 DEF Knows
  <2>6. \A x \in Io!Keys \ FKeys : x \in t.clients <=> IF x = k THEN ~u.up ELSE x \in s.clients
    BY <1>1, <1>4, <2>4
  <2> QED  BY <1>1, <1>m, <1>t, <2>4, <2>5, <2>6 DEF k
<1>5. CASE ~(k \in FKeys /\ ~u.up /\ m.ctrl /\ m.alt) /\ k \in FKeys /\ u.up /\ k \in m.eaten
  <2>1. t = [m EXCEPT !.eaten = @ \ {k}]
    BY <1>a, <1>5 DEF Io!AtwKey, m
  <2>2. t \in Servants
    BY <1>1, <2>1 DEF Servants
  <2>3. /\ t.down = m.down /\ t.clients = m.clients /\ t.told = m.told /\ t.asked = m.asked
        /\ t.ctrl = m.ctrl /\ t.alt = m.alt
    BY <1>1, <2>1 DEF Servants
  <2>4. Knows(t)
    BY <1>3, <2>2, <2>3 DEF Knows
  <2>5. \A x \in Io!Keys \ FKeys : x \in t.clients <=> IF x = k THEN ~u.up ELSE x \in s.clients
    BY <1>1, <1>5, <2>3
  <2> QED  BY <1>1, <1>m, <1>t, <2>3, <2>4, <2>5 DEF k
<1>6. CASE ~(k \in FKeys /\ ~u.up /\ m.ctrl /\ m.alt) /\ ~(k \in FKeys /\ u.up /\ k \in m.eaten)
  <2>1. t = [m EXCEPT !.down = IF u.up THEN @ \ {k} ELSE @ \cup {k}, !.clients = IF u.up THEN @ \ {k} ELSE @ \cup {k}]
    BY <1>a, <1>6 DEF Io!AtwKey, m
  <2>2. t \in Servants
    <3>1. PICK d \in SUBSET Io!Keys : d = IF u.up THEN m.down \ {k} ELSE m.down \cup {k}
      BY <1>0, <1>1 DEF Servants, k
    <3>2. PICK c \in SUBSET (Io!Keys \cup Io!Buttons) : c = IF u.up THEN m.clients \ {k} ELSE m.clients \cup {k}
      BY <1>0, <1>1 DEF Servants, k
    <3>3. [m EXCEPT !.down = d, !.clients = c] \in Servants
      BY <1>1 DEF Servants
    <3> QED  BY <2>1, <3>1, <3>2, <3>3
  <2>3. /\ t.down = (IF u.up THEN m.down \ {k} ELSE m.down \cup {k}) /\ t.told = m.told /\ t.asked = m.asked
        /\ t.clients = (IF u.up THEN m.clients \ {k} ELSE m.clients \cup {k})
        /\ t.ctrl = m.ctrl /\ t.alt = m.alt
    BY <1>1, <2>1 DEF Servants
  <2>4. t.told = t.clients \cap Io!Buttons
    BY <1>0, <1>2, <1>3, <2>3
  <2>5. t.down \ FKeys = (t.clients \cap Io!Keys) \ FKeys
    BY <1>0, <1>3, <2>3
  <2>6. \A x \in Io!Keys \ FKeys : x \in t.clients <=> IF x = k THEN ~u.up ELSE x \in s.clients
    BY <1>1, <2>3
  <2>7. Knows(t)
    BY <1>3, <2>2, <2>3, <2>4, <2>5 DEF Knows
  <2> QED  BY <1>1, <1>m, <1>t, <2>3, <2>6, <2>7 DEF k
<1> QED  BY <1>4, <1>5, <1>6

LEMMA MouseRead ==
  ASSUME Io!IoAssumption, NEW s, Knows(s), NEW u \in Units, u.t = "mouse", NEW t, t = Io!AtwInput(s, u)
  PROVE  /\ Knows(t) /\ t.told = u.b /\ Mods(t) = Mods(s)
         /\ \A x \in Io!Keys : x \in t.clients <=> x \in s.clients
<1> DEFINE b == u.b
<1>0. b \in SUBSET Io!Buttons
  BY UnitIs
<1>1. s \in Servants /\ s.asked # "unmeant" /\ s.told = s.clients \cap Io!Buttons
      /\ s.down \ FKeys = (s.clients \cap Io!Keys) \ FKeys
  BY DEF Knows
<1>2. Io!Keys \cap Io!Buttons = {}
  BY DEF Io!IoAssumption, Io!Keys, Io!Buttons
<1>a. t = Io!AtwMousePacket(s, b)
  BY DEF Io!AtwInput
<1> HIDE DEF b
<1>3. /\ t \in Servants /\ t.clients = (s.clients \ (s.told \ b)) \cup (b \ s.told) /\ t.told = b
      /\ t.down = s.down /\ t.asked = s.asked /\ t.ctrl = s.ctrl /\ t.alt = s.alt
  BY <1>0, <1>1, <1>a DEF Io!AtwMousePacket, Servants
<1>4. t.told = t.clients \cap Io!Buttons
  BY <1>0, <1>1, <1>3
<1>5. \A x \in Io!Keys : x \in t.clients <=> x \in s.clients
  BY <1>0, <1>1, <1>2, <1>3
<1>6. t.down \ FKeys = (t.clients \cap Io!Keys) \ FKeys
  BY <1>1, <1>3, <1>5
<1>7. Mods(t) = Mods(s)
  BY <1>3 DEF Mods
<1> QED  BY <1>1, <1>3, <1>4, <1>5, <1>6, <1>7 DEF Knows, b

LEMMA ReadsOn ==
  ASSUME Io!IoAssumption, NEW q \in Seq(Units), NEW i \in Nat, i < Len(q), NEW s, NEW h, NEW bs, Goes(q, s, i, h, bs)
  PROVE  Goes(q, Io!AtwInput(s, q[i + 1]), i + 1, h, bs)
<1> DEFINE N == Len(q)
           u == q[i + 1]
           t == Io!AtwInput(s, u)
<1>1. N \in Nat /\ i + 1 \in 1 .. N /\ u \in Units
  OBVIOUS
<1>2. Knows(s)
  BY DEF Goes
<1>3. \A j : j \in i + 1 .. N <=> j = i + 1 \/ j \in (i + 1) + 1 .. N
  BY <1>1
(* The server after the unit                                               *)
<1>4. /\ Knows(t)
      /\ \A k \in Io!Keys \ FKeys : k \in t.clients <=> IF Of(q, i + 1, k) THEN ~u.up ELSE k \in s.clients
      /\ \A k \in Turns : k \in Mods(t) <=> IF Of(q, i + 1, k) THEN ~u.up ELSE k \in Mods(s)
      /\ t.told = IF u.t = "mouse" THEN u.b ELSE s.told
  <2>1. CASE u.t = "key"
    <3>2. u.key \in FKeys /\ ~u.up /\ Mods(s) = Turns => u.meant
      <4> SUFFICES ASSUME u.key \in FKeys, ~u.up, Mods(s) = Turns
                   PROVE  u.meant
        OBVIOUS
      <4>1. (i + 1) - 1 = i /\ i + 1 \in i + 1 .. N
        BY <1>1
      <4>2. \A k \in Turns : Ends(q, k, i, i, Mods(s))
        BY EndsNow
      <4> QED  BY <2>1, <4>1, <4>2 DEF Goes, Switches
    <3>4. \A k : Of(q, i + 1, k) <=> k = u.key
      BY <2>1 DEF Of
    <3> HIDE DEF t, u
    <3>6. /\ Knows(t) /\ t.told = s.told
          /\ \A x \in Turns : x \in Mods(t) <=> IF x = u.key THEN ~u.up ELSE x \in Mods(s)
          /\ \A x \in Io!Keys \ FKeys : x \in t.clients <=> IF x = u.key THEN ~u.up ELSE x \in s.clients
      BY <1>1, <1>2, <2>1, <3>2, KeyRead DEF t
    <3> HIDE DEF Of
    <3>7. u.t # "mouse"
      BY <2>1
    <3> QED  BY <3>4, <3>6, <3>7 DEF u
  <2>2. CASE u.t = "mouse"
    <3>1. \A k : ~Of(q, i + 1, k)
      BY <2>2 DEF Of
    <3> HIDE DEF t, u
    <3>2. /\ Knows(t) /\ t.told = u.b /\ Mods(t) = Mods(s)
          /\ \A x \in Io!Keys : x \in t.clients <=> x \in s.clients
      BY <1>1, <1>2, <2>2, MouseRead DEF t
    <3> HIDE DEF Of
    <3> QED  BY <2>2, <3>1, <3>2 DEF u
  <2>3. CASE u.t = "rest"
    <3>1. t = s
      BY <2>3 DEF Io!AtwInput
    <3>2. \A k : ~Of(q, i + 1, k)
      BY <2>3 DEF Of
    <3>3. u.t # "mouse"
      BY <2>3
    <3> HIDE DEF t, u, Of
    <3> QED  BY <1>2, <3>1, <3>2, <3>3 DEF u
  <2> HIDE DEF t, u
  <2> QED  BY <1>1, <2>1, <2>2, <2>3, UnitIs DEF u
<1> HIDE DEF t, N
<1>5. KeysTo(q, t, i + 1, h)
  <2>1. ASSUME NEW k \in Io!Keys \ FKeys, Ends(q, k, i + 1, N, t.clients)
        PROVE  k \in h
    <3>1. k \in t.clients <=> IF Of(q, i + 1, k) THEN ~u.up ELSE k \in s.clients
      BY <1>4
    <3> DEFINE B == s.clients
               C == t.clients
    <3>a. (k \in C <=> IF Of(q, i + 1, k) THEN ~q[i + 1].up ELSE k \in B) /\ Ends(q, k, i + 1, N, C)
      BY <2>1, <3>1
    <3> HIDE DEF B, C
    <3>b. Ends(q, k, i, N, B)
      BY <1>1, <3>a, EndsReads DEF N
    <3>2. Ends(q, k, i, N, s.clients)
      BY <3>b DEF B
    <3> QED  BY <3>2 DEF Goes, KeysTo, N
  <2>2. ASSUME NEW k \in Turns, Ends(q, k, i + 1, N, Mods(t))
        PROVE  k \in h
    <3>1. Ends(q, k, i, N, Mods(s))
      BY <1>1, <1>4, <2>2, EndsReads DEF N
    <3> QED  BY <3>1 DEF Goes, KeysTo, N
  <2> QED  BY <2>1, <2>2 DEF KeysTo, N
<1>6. Switches(q, t, i + 1)
  <2> SUFFICES ASSUME NEW j \in (i + 1) + 1 .. N, q[j].t = "key", q[j].key \in FKeys, ~q[j].up,
                      \A k \in Turns : Ends(q, k, i + 1, j - 1, Mods(t))
               PROVE  q[j].meant
    BY DEF Switches, N
  <2>1. j - 1 \in Nat /\ i < j - 1 /\ j - 1 <= Len(q) /\ j \in i + 1 .. N
    BY <1>1 DEF N
  <2>2. ASSUME NEW k \in Turns
        PROVE  Ends(q, k, i, j - 1, Mods(s))
    BY <1>4, <2>1, EndsReads
  <2> QED  BY <2>1, <2>2 DEF Goes, Switches, N
<1>7. ButtonsTo(q, t, i + 1, bs)
  <2>1. ASSUME \A j \in (i + 1) + 1 .. N : q[j].t # "mouse"
        PROVE  t.told \subseteq bs
    BY <1>1, <1>3, <1>4, <2>1 DEF Goes, ButtonsTo, N
  <2>2. \A j \in (i + 1) + 1 .. N : j \in i + 1 .. N
    BY <1>3
  <2> QED  BY <2>1, <2>2 DEF Goes, ButtonsTo, N
<1> QED  BY <1>4, <1>5, <1>6, <1>7 DEF Goes, t

(* What is left to be read goes on as it did                               *)
LEMMA GoesBehind ==
  ASSUME NEW q \in Seq(Units), NEW d \in Nat, d <= Len(q), NEW r \in Seq(Units), Len(r) = Len(q) - d,
         \A j \in 1 .. Len(r) : r[j] = q[j + d], NEW s, NEW h, NEW bs, Goes(q, s, d, h, bs), Packets(q)
  PROVE  Goes(r, s, 0, h, bs) /\ Packets(r)
<1> DEFINE N == Len(r)
<1>1. N \in Nat /\ N + d = Len(q) /\ 0 + 1 = 1
  OBVIOUS
<1>2. Knows(s)
  BY DEF Goes
<1>3. \A j \in 1 .. N : j + d \in d + 1 .. Len(q) /\ j + d \in 1 .. Len(q) /\ r[j] = q[j + d]
  BY <1>1
<1>4. ASSUME NEW j \in d + 1 .. Len(q)
      PROVE  \E x \in 1 .. N : j = x + d
  <2>1. j - d \in 1 .. N /\ j = (j - d) + d
    BY <1>1
  <2> QED  BY <2>1
<1>0. \A n \in 0 .. Len(r) : \A k, B : Ends(r, k, 0, n, B) <=> Ends(q, k, d, n + d, B)
  BY EndsBehind
<1>5. KeysTo(r, s, 0, h)
  <2>1. N \in 0 .. Len(r)
    BY <1>1
  <2>2. \A k, B : Ends(r, k, 0, N, B) <=> Ends(q, k, d, Len(q), B)
    BY <1>0, <1>1, <2>1
  <2> QED  BY <2>2 DEF Goes, KeysTo
<1>6. Switches(r, s, 0)
  <2> SUFFICES ASSUME NEW j \in 1 .. N, r[j].t = "key", r[j].key \in FKeys, ~r[j].up,
                      \A k \in Turns : Ends(r, k, 0, j - 1, Mods(s))
               PROVE  r[j].meant
    BY <1>1 DEF Switches
  <2>1. j - 1 \in 0 .. Len(r) /\ (j - 1) + d = (j + d) - 1
    OBVIOUS
  <2>2. \A k \in Turns : Ends(q, k, d, (j + d) - 1, Mods(s))
    BY <1>0, <2>1
  <2> QED  BY <1>3, <2>2 DEF Goes, Switches
<1>7. ButtonsTo(r, s, 0, bs)
  <2>1. ASSUME \A j \in 1 .. N : r[j].t # "mouse"
        PROVE  s.told \subseteq bs
    BY <1>3, <1>4, <2>1 DEF Goes, ButtonsTo
  <2>2. ASSUME NEW j \in 1 .. N, r[j].t = "mouse", \A l \in j + 1 .. N : r[l].t # "mouse"
        PROVE  r[j].b \subseteq bs
    <3>1. ASSUME NEW l \in (j + d) + 1 .. Len(q)
          PROVE  q[l].t # "mouse"
      <4>1. l - d \in j + 1 .. N /\ l - d \in 1 .. N /\ (l - d) + d = l
        BY <1>1
      <4>2. r[l - d] = q[l]
        BY <1>3, <4>1
      <4> QED  BY <2>2, <4>1, <4>2
    <3> QED  BY <1>3, <2>2, <3>1 DEF Goes, ButtonsTo
  <2> QED  BY <1>1, <2>1, <2>2 DEF ButtonsTo
<1>8. Packets(r)
  <2> SUFFICES ASSUME NEW j \in 1 .. N, r[j].t = "mouse"
               PROVE  j + 2 <= N /\ r[j + 1].t = "rest" /\ r[j + 2].t = "rest"
    BY DEF Packets
  <2>1. q[j + d].t = "mouse" /\ j + d \in 1 .. Len(q)
    BY <1>3
  <2>2. (j + d) + 2 <= Len(q) /\ q[(j + d) + 1].t = "rest" /\ q[(j + d) + 2].t = "rest"
    BY <2>1 DEF Packets
  <2>3. j + 2 <= N /\ j + 1 \in 1 .. N /\ j + 2 \in 1 .. N /\ (j + 1) + d = (j + d) + 1 /\ (j + 2) + d = (j + d) + 2
    BY <1>1, <2>2
  <2> QED  BY <1>3, <2>2, <2>3
<1> QED  BY <1>2, <1>5, <1>6, <1>7, <1>8 DEF Goes
(* A unit comes behind what is to be read                                  *)
LEMMA Comes ==
  ASSUME NEW q \in Seq(Units), NEW u \in Units, NEW s, NEW h \in SUBSET Io!Keys, NEW g \in SUBSET Io!Keys, NEW bs, NEW cs,
         Goes(q, s, 0, h, bs), NEW r, r = Append(q, u),
         u.t = "key" => /\ \A x \in Io!Keys : x \in g <=> IF x = u.key THEN ~u.up ELSE x \in h
                        /\ u.key \in FKeys /\ ~u.up /\ Turns \subseteq h => u.meant
                        /\ cs = bs,
         u.t = "mouse" => g = h /\ cs = u.b,
         u.t = "rest" => g = h /\ cs = bs
  PROVE  Goes(r, s, 0, g, cs)
<1> DEFINE N == Len(q)
<1>1. Len(r) = N + 1 /\ r[N + 1] = u /\ (\A j \in 1 .. N : r[j] = q[j]) /\ N \in Nat /\ 0 + 1 = 1
  OBVIOUS
<1>2. \A k, B : \A n \in 0 .. N : Ends(r, k, 0, n, B) <=> Ends(q, k, 0, n, B)
  BY EndsComes
<1>3. \A k, B : Ends(r, k, 0, Len(r), B) <=> IF u.t = "key" /\ u.key = k THEN ~u.up ELSE Ends(q, k, 0, N, B)
  BY EndsComes
<1>4. /\ \A k \in Io!Keys \ FKeys : Ends(q, k, 0, N, s.clients) => k \in h
      /\ \A k \in Turns : Ends(q, k, 0, N, Mods(s)) => k \in h
  BY DEF Goes, KeysTo
<1>5. Turns \subseteq Io!Keys
  BY DEF Turns, Io!Keys
<1>6. \A x \in Io!Keys : x \in g <=> IF u.t = "key" /\ u.key = x THEN ~u.up ELSE x \in h
  BY UnitIs
<1> HIDE DEF N
<1>7. KeysTo(r, s, 0, g)
  <2>1. ASSUME NEW k \in Io!Keys \ FKeys, Ends(r, k, 0, Len(r), s.clients)
        PROVE  k \in g
    BY <1>3, <1>4, <1>6, <2>1
  <2>2. ASSUME NEW k \in Turns, Ends(r, k, 0, Len(r), Mods(s))
        PROVE  k \in g
    BY <1>3, <1>4, <1>5, <1>6, <2>2
  <2> QED  BY <2>1, <2>2 DEF KeysTo
<1>8. Switches(r, s, 0)
  <2> SUFFICES ASSUME NEW j \in 1 .. N + 1, r[j].t = "key", r[j].key \in FKeys, ~r[j].up,
                      \A k \in Turns : Ends(r, k, 0, j - 1, Mods(s))
               PROVE  r[j].meant
    BY <1>1 DEF Switches
  <2>1. j - 1 \in 0 .. N
    BY <1>1
  <2>2. \A k \in Turns : Ends(q, k, 0, j - 1, Mods(s))
    BY <1>2, <2>1
  <2>3. CASE j = N + 1
    <3>1. j - 1 = N /\ r[j] = u
      BY <1>1, <2>3
    <3>2. Turns \subseteq h
      BY <1>4, <2>2, <3>1
    <3> QED  BY <3>1, <3>2
  <2>4. CASE j # N + 1
    <3>1. j \in 0 + 1 .. N /\ r[j] = q[j]
      BY <1>1, <2>4
    <3> QED  BY <2>2, <3>1 DEF Goes, Switches, N
  <2> QED  BY <2>3, <2>4
<1>9. ButtonsTo(r, s, 0, cs)
  <2>1. ASSUME \A j \in 0 + 1 .. Len(r) : r[j].t # "mouse"
        PROVE  s.told \subseteq cs
    <3>1. u.t # "mouse" /\ cs = bs
      BY <1>1, <2>1, UnitIs
    <3>2. \A j \in 0 + 1 .. N : q[j].t # "mouse"
      BY <1>1, <2>1
    <3> QED  BY <3>1, <3>2 DEF Goes, ButtonsTo, N
  <2>2. ASSUME NEW j \in 0 + 1 .. Len(r), r[j].t = "mouse", \A l \in j + 1 .. Len(r) : r[l].t # "mouse"
        PROVE  r[j].b \subseteq cs
    <3>1. CASE j = N + 1
      BY <1>1, <2>2, <3>1
    <3>2. CASE j # N + 1
      <4>1. j \in 0 + 1 .. N /\ r[j] = q[j] /\ N + 1 \in j + 1 .. Len(r)
        BY <1>1, <3>2
      <4>2. u.t # "mouse" /\ cs = bs
        BY <1>1, <2>2, <4>1, UnitIs
      <4>3. \A l \in j + 1 .. N : q[l].t # "mouse"
        <5>1. \A l \in j + 1 .. N : l \in 1 .. N /\ l \in j + 1 .. Len(r)
          BY <1>1, <4>1
        <5> QED  BY <1>1, <2>2, <5>1
      <4> QED  BY <2>2, <4>1, <4>2, <4>3 DEF Goes, ButtonsTo, N
    <3> QED  BY <3>1, <3>2
  <2> QED  BY <2>1, <2>2 DEF ButtonsTo
<1> QED  BY <1>7, <1>8, <1>9 DEF Goes

(* The units of a buffer, one by one: what Parse's function is             *)
Begun(st) == [s |-> st, skip |-> 0, end |-> 0]
Reading(g, w, st, n) == g = [i \in 0 .. n |-> IF i = 0 THEN Begun(st) ELSE Io!ReadUnit(w, i, g[i - 1])]

LEMMA ReadingIs ==
  ASSUME NEW w, NEW st, NEW N \in Nat
  PROVE  \E g : Reading(g, w, st, N)
<1> DEFINE S == {k \in 0 .. N : ~ \E g : Reading(g, w, st, k)}
<1>1. SUFFICES ASSUME S # {} PROVE FALSE
  BY <1>1
<1>2. PICK m \in S : \A j \in S : m <= j
  <2>1. S \subseteq Nat
    OBVIOUS
  <2> HIDE DEF S
  <2> QED  BY <1>1, <2>1, Smallest
<1>3. m \in 0 .. N /\ ~ \E g : Reading(g, w, st, m)
  OBVIOUS
<1>4. m # 0
  <2>1. Reading([i \in 0 .. 0 |-> Begun(st)], w, st, 0)
    <3>1. \A i \in 0 .. 0 : i = 0
      OBVIOUS
    <3> QED  BY <3>1 DEF Reading
  <2> QED  BY <1>3, <2>1
<1>5. m - 1 \in 0 .. N /\ ~(m <= m - 1) /\ m - 1 \in Nat
  BY <1>3, <1>4
<1>6. PICK g : Reading(g, w, st, m - 1)
  <2>1. m - 1 \notin S
    BY <1>2, <1>5
  <2> QED  BY <1>5, <2>1
<1> DEFINE h == [i \in 0 .. m |-> IF i = m THEN Io!ReadUnit(w, m, g[m - 1]) ELSE g[i]]
<1>7. Reading(h, w, st, m)
  <2>1. \A i \in 0 .. m : h[i] = IF i = 0 THEN Begun(st) ELSE Io!ReadUnit(w, i, h[i - 1])
    <3> SUFFICES ASSUME NEW i \in 0 .. m
                 PROVE  h[i] = IF i = 0 THEN Begun(st) ELSE Io!ReadUnit(w, i, h[i - 1])
      OBVIOUS
    <3>1. i # 0 => i - 1 \in 0 .. m - 1 /\ i - 1 \in 0 .. m /\ i - 1 # m
      BY <1>3
    <3>2. i # 0 => h[i - 1] = g[i - 1]
      BY <3>1
    <3>3. CASE i = m
      BY <1>4, <3>2, <3>3
    <3>4. CASE i # m
      <4>1. i \in 0 .. m - 1
        BY <1>3, <3>4
      <4>2. g[i] = IF i = 0 THEN Begun(st) ELSE Io!ReadUnit(w, i, g[i - 1])
        BY <1>6, <4>1 DEF Reading
      <4> QED  BY <3>2, <3>4, <4>2
    <3> QED  BY <3>3, <3>4
  <2>2. h = [i \in 0 .. m |-> h[i]]
    OBVIOUS
  <2> HIDE DEF h
  <2> QED  BY <2>1, <2>2 DEF Reading
<1> HIDE DEF h
<1> QED  BY <1>3, <1>7

LEMMA ParseIs ==
  ASSUME NEW w \in Seq(Units), NEW st
  PROVE  \E g : Reading(g, w, st, Len(w)) /\ Io!Parse(w, st) = g[Len(w)]
<1> DEFINE c == CHOOSE g : Reading(g, w, st, Len(w))
<1>1. Len(w) \in Nat
  OBVIOUS
<1>2. \E g : Reading(g, w, st, Len(w))
  BY <1>1, ReadingIs
<1>3. Reading(c, w, st, Len(w))
  BY <1>2
<1>4. Io!Parse(w, st) = c[Len(w)]
  BY Zenon DEF Io!Parse, Reading, Begun
<1> QED  BY <1>3, <1>4

(* After i units of w, the beginning of q: the rest of a packet is still   *)
(* in it; or end is where a packet is split                                *)
Reached(q, i, p, h, bs) ==
  /\ p.skip \in 0 .. 2 /\ p.end \in 0 .. i
  /\ p.end = 0 => Goes(q, p.s, i, h, bs) /\ \A j \in 1 .. p.skip : q[i + j].t = "rest"
  /\ p.end # 0 => Goes(q, p.s, p.end - 1, h, bs)

Shaped(p) == p = [s |-> p.s, skip |-> p.skip, end |-> p.end]

LEMMA UnitReached ==
  ASSUME Io!IoAssumption, NEW q \in Seq(Units), Packets(q), NEW w \in Seq(Units), Len(w) <= Len(q),
         \A j \in 1 .. Len(w) : w[j] = q[j], NEW i \in Nat, i < Len(w), NEW h, NEW bs,
         NEW p, Reached(q, i, p, h, bs), Shaped(p),
         NEW r, r = Io!ReadUnit(w, i + 1, p)
  PROVE  Reached(q, i + 1, r, h, bs) /\ Shaped(r)
<1>1. i + 1 \in 1 .. Len(w) /\ i + 1 \in 1 .. Len(q) /\ i < Len(q) /\ w[i + 1] = q[i + 1] /\ (i + 1) - 1 = i
  OBVIOUS
<1>2. p.end = 0 => Goes(q, Io!AtwInput(p.s, q[i + 1]), i + 1, h, bs)
  BY <1>1, ReadsOn DEF Reached
<1>3. CASE p.end # 0
  <2>1. r = p
    BY <1>3 DEF Io!ReadUnit
  <2>2. p.end \in 0 .. i + 1
    BY DEF Reached
  <2> QED  BY <1>3, <2>1, <2>2 DEF Reached
<1>4. CASE p.end = 0 /\ p.skip > 0
  <2>1. r = [s |-> p.s, skip |-> p.skip - 1, end |-> 0]
    <3>1. r = [p EXCEPT !.skip = p.skip - 1]
      BY <1>4 DEF Io!ReadUnit
    <3> QED  BY <1>4, <3>1 DEF Shaped
  <2>2. p.skip \in 1 .. 2
    BY <1>4 DEF Reached
  <2>3. q[i + 1].t = "rest"
    <3>1. 1 \in 1 .. p.skip
      BY <2>2
    <3> QED  BY <1>4, <3>1 DEF Reached
  <2>4. Io!AtwInput(p.s, q[i + 1]) = p.s
    BY <2>3 DEF Io!AtwInput
  <2>5. ASSUME NEW j \in 1 .. p.skip - 1
        PROVE  q[(i + 1) + j].t = "rest"
    <3>1. j + 1 \in 1 .. p.skip /\ (i + 1) + j = i + (j + 1)
      BY <2>2
    <3> QED  BY <1>4, <3>1 DEF Reached
  <2>6. p.skip - 1 \in 0 .. 2
    BY <2>2
  <2>7. r.s = p.s /\ r.skip = p.skip - 1 /\ r.end = 0
    BY <2>1
  <2>8. Goes(q, r.s, i + 1, h, bs)
    BY <1>2, <1>4, <2>4, <2>7
  <2>9. Shaped(r)
    BY <2>1 DEF Shaped
  <2> QED  BY <2>5, <2>6, <2>7, <2>8, <2>9 DEF Reached
<1>5. CASE p.end = 0 /\ ~(p.skip > 0) /\ Io!Split(w, i + 1)
  <2>1. r = [s |-> p.s, skip |-> p.skip, end |-> i + 1]
    <3>1. r = [p EXCEPT !.end = i + 1]
      BY <1>5 DEF Io!ReadUnit
    <3> QED  BY <3>1 DEF Shaped
  <2>2. r.s = p.s /\ r.skip = p.skip /\ r.end = i + 1 /\ r.end - 1 = i /\ r.end # 0 /\ r.end \in 0 .. i + 1
    BY <2>1
  <2>3. Goes(q, r.s, r.end - 1, h, bs) /\ r.skip \in 0 .. 2
    BY <1>5, <2>2 DEF Reached
  <2>4. Shaped(r)
    BY <2>1 DEF Shaped
  <2> QED  BY <2>2, <2>3, <2>4 DEF Reached
<1>6. CASE p.end = 0 /\ ~(p.skip > 0) /\ ~Io!Split(w, i + 1)
  <2>1. r = [s |-> Io!AtwInput(p.s, q[i + 1]), skip |-> IF q[i + 1].t = "mouse" THEN 2 ELSE 0, end |-> 0]
    BY <1>1, <1>6 DEF Io!ReadUnit
  <2>2. Goes(q, r.s, i + 1, h, bs) /\ r.end = 0 /\ r.skip = IF q[i + 1].t = "mouse" THEN 2 ELSE 0
    BY <1>2, <1>6, <2>1
  <2>3. ASSUME NEW j \in 1 .. r.skip
        PROVE  q[(i + 1) + j].t = "rest"
    <3>1. q[i + 1].t = "mouse" /\ (j = 1 \/ j = 2)
      BY <2>2
    <3>2. q[(i + 1) + 1].t = "rest" /\ q[(i + 1) + 2].t = "rest"
      BY <1>1, <3>1 DEF Packets
    <3> QED  BY <3>1, <3>2
  <2>4. r.skip \in 0 .. 2 /\ r.end \in 0 .. i + 1
    BY <2>2
  <2>5. Shaped(r)
    BY <2>1 DEF Shaped
  <2> QED  BY <2>2, <2>3, <2>4, <2>5 DEF Reached
<1> QED  BY <1>3, <1>4, <1>5, <1>6

LEMMA ParseReaches ==
  ASSUME Io!IoAssumption, NEW q \in Seq(Units), Packets(q), NEW w \in Seq(Units), Len(w) <= Len(q),
         \A j \in 1 .. Len(w) : w[j] = q[j], NEW st, NEW h, NEW bs, Goes(q, st, 0, h, bs)
  PROVE  Reached(q, Len(w), Io!Parse(w, st), h, bs)
<1> DEFINE N == Len(w)
           Ok(i, p) == Reached(q, i, p, h, bs) /\ Shaped(p)
<1>1. N \in Nat
  OBVIOUS
<1>2. PICK g : Reading(g, w, st, N) /\ Io!Parse(w, st) = g[N]
  BY ParseIs
<1> DEFINE S == {i \in 0 .. N : ~Ok(i, g[i])}
<1>3. ASSUME S # {}
      PROVE  FALSE
  <2>1. PICK m \in S : \A j \in S : m <= j
    <3>1. S \subseteq Nat
      OBVIOUS
    <3> HIDE DEF S
    <3> QED  BY <1>3, <3>1, Smallest
  <2>2. m \in 0 .. N /\ ~Ok(m, g[m])
    OBVIOUS
  <2>3. m # 0
    <3>1. g[0] = Begun(st)
      BY <1>1, <1>2 DEF Reading
    <3>2. Begun(st).s = st /\ Begun(st).skip = 0 /\ Begun(st).end = 0
          /\ Shaped(Begun(st))
      BY DEF Begun, Shaped
    <3>3. Reached(q, 0, Begun(st), h, bs)
      BY <3>2 DEF Reached
    <3> QED  BY <2>2, <3>1, <3>2, <3>3
  <2>4. m - 1 \in 0 .. N /\ ~(m <= m - 1) /\ m - 1 \in Nat /\ m - 1 < N /\ (m - 1) + 1 = m
    BY <1>1, <2>2, <2>3
  <2>5. Ok(m - 1, g[m - 1])
    <3>1. m - 1 \notin S
      BY <2>1, <2>4
    <3> HIDE DEF Ok
    <3> QED  BY <2>4, <3>1
  <2>6. g[m] = Io!ReadUnit(w, (m - 1) + 1, g[m - 1])
    BY <1>2, <2>2, <2>3, <2>4 DEF Reading
  <2>7. Ok((m - 1) + 1, g[m])
    BY <2>4, <2>5, <2>6, UnitReached
  <2> QED  BY <2>2, <2>4, <2>7
<1>4. N \notin S
  BY <1>3
<1> QED  BY <1>1, <1>2, <1>4

(* Nothing is to be read                                                   *)
LEMMA NothingToRead ==
  ASSUME NEW s, Knows(s), Mods(s) = {}, NEW h, NEW bs, s.clients \cap Io!Keys \subseteq FKeys, s.told \subseteq bs
  PROVE  Goes(<<>>, s, 0, h, bs) /\ Packets(<<>>)
<1>1. Len(<<>>) = 0 /\ 0 + 1 .. 0 = {} /\ 1 .. 0 = {}
  OBVIOUS
<1>2. \A k, B : Ends(<<>>, k, 0, 0, B) <=> k \in B
  BY <1>1 DEF Ends
<1>3. KeysTo(<<>>, s, 0, h)
  BY <1>1, <1>2 DEF KeysTo
<1> QED  BY <1>1, <1>3 DEF Goes, Switches, ButtonsTo, Packets

LEMMA PacketsOn ==
  ASSUME NEW q \in Seq(Units), Packets(q), NEW u \in Units, u.t # "mouse"
  PROVE  Packets(Append(q, u))
<1> DEFINE r == Append(q, u)
           N == Len(q)
<1>1. Len(r) = N + 1 /\ r[N + 1] = u /\ (\A j \in 1 .. N : r[j] = q[j]) /\ N \in Nat
  OBVIOUS
<1> HIDE DEF r
<1>2. ASSUME NEW i \in 1 .. Len(r), r[i].t = "mouse"
      PROVE  i + 2 <= Len(r) /\ r[i + 1].t = "rest" /\ r[i + 2].t = "rest"
  <2>1. i \in 1 .. N /\ q[i].t = "mouse"
    BY <1>1, <1>2
  <2>2. i + 2 <= N /\ q[i + 1].t = "rest" /\ q[i + 2].t = "rest"
    BY <2>1 DEF Packets
  <2> QED  BY <1>1, <2>1, <2>2
<1> QED  BY <1>2 DEF Packets, r

LEMMA PacketComes ==
  ASSUME NEW q \in Seq(Units), Packets(q), NEW u \in Units, NEW v \in Units, v.t = "rest"
  PROVE  Packets(Append(Append(Append(q, u), v), v))
<1> DEFINE r == Append(Append(Append(q, u), v), v)
           N == Len(q)
<1>1. Len(r) = N + 3 /\ r[N + 1] = u /\ r[N + 2] = v /\ r[N + 3] = v /\ (\A j \in 1 .. N : r[j] = q[j]) /\ N \in Nat
  OBVIOUS
<1> HIDE DEF r
<1>2. ASSUME NEW i \in 1 .. Len(r), r[i].t = "mouse"
      PROVE  i + 2 <= Len(r) /\ r[i + 1].t = "rest" /\ r[i + 2].t = "rest"
  <2>1. i \in 1 .. N \/ i = N + 1 \/ i = N + 2 \/ i = N + 3
    BY <1>1
  <2>2. CASE i \in 1 .. N
    <3>1. i + 2 <= N /\ q[i + 1].t = "rest" /\ q[i + 2].t = "rest"
      BY <1>1, <1>2, <2>2 DEF Packets
    <3> QED  BY <1>1, <2>2, <3>1
  <2>3. CASE i = N + 1
    BY <1>1, <2>3
  <2> QED  BY <1>1, <1>2, <2>1, <2>2, <2>3
<1> QED  BY <1>2 DEF Packets, r

(* What the hands do comes behind what is to be read                       *)
LEMMA KeysStart ==
  ASSUME Io!IoAssumption, Io!Init
  PROVE  IoInv
<1>1. /\ wire = <<>> /\ buf = <<>> /\ ours = TRUE /\ hands = {} /\ buttons = {} /\ Pending = <<>>
      /\ Io!S.ctrl = FALSE /\ Io!S.alt = FALSE /\ Io!S.down = {} /\ Io!S.told = {} /\ Io!S.clients = {} /\ Io!S.asked = "no"
  BY DEF Io!Init, Io!S, Pending
<1>2. Knows(Io!S)
  <2>1. Io!S \in Servants
    BY DEF Io!Init, Io!S, Servants
  <2> QED  BY <1>1, <2>1 DEF Knows
<1>3. Goes(Pending, Io!S, 0, hands, buttons) /\ Packets(Pending)
  BY <1>1, <1>2, NothingToRead DEF Mods
<1> QED  BY <1>1, <1>2, <1>3 DEF IoInv

LEMMA KeyIsUnit ==
  ASSUME NEW k \in Io!Keys, NEW up \in BOOLEAN, NEW meant \in BOOLEAN
  PROVE  /\ Io!Key(k, up, meant) \in Units /\ Io!Key(k, up, meant).t = "key" /\ Io!Key(k, up, meant).key = k
         /\ (Io!Key(k, up, meant).up <=> up) /\ (Io!Key(k, up, meant).meant <=> meant)
  BY DEF Io!Key, Units

LEMMA OneBehind ==
  ASSUME NEW b \in Seq(Units), NEW w \in Seq(Units), NEW u \in Units
  PROVE  b \o Append(w, u) = Append(b \o w, u)
  OBVIOUS

LEMMA ThreeBehind ==
  ASSUME NEW b \in Seq(Units), NEW w \in Seq(Units), NEW u \in Units, NEW v \in Units
  PROVE  b \o (w \o <<u, v, v>>) = Append(Append(Append(b \o w, u), v), v)
<1> DEFINE w1 == Append(w, u)
           w2 == Append(w1, v)
<1>1. w1 \in Seq(Units) /\ w2 \in Seq(Units)
  OBVIOUS
<1>2. w \o <<u, v, v>> = Append(w2, v)
  OBVIOUS
<1>3. b \o w1 = Append(b \o w, u)
  BY OneBehind
<1> HIDE DEF w1
<1>4. b \o w2 = Append(b \o w1, v)
  BY <1>1, OneBehind
<1> HIDE DEF w2
<1>5. b \o Append(w2, v) = Append(b \o w2, v)
  BY <1>1, OneBehind
<1> QED  BY <1>2, <1>3, <1>4, <1>5

LEMMA HandsStep ==
  ASSUME Io!IoAssumption, IoInv, Io!Hands
  PROVE  IoInv'
<1>1. /\ wire \in Seq(Units) /\ buf \in Seq(Units) /\ ours \in BOOLEAN
      /\ hands \subseteq Io!Keys /\ buttons \subseteq Io!Buttons /\ Knows(Io!S)
      /\ Pending \in Seq(Units)
  BY DEF IoInv, Pending
<1>2. /\ ours' = ours /\ buf' = buf /\ clients' = clients
      /\ Io!S' = Io!S
  BY DEF Io!Hands, Io!S
<1>3. CASE \E k \in Io!Keys : /\ hands' = IF k \in hands THEN hands \ {k} ELSE hands \cup {k}
                              /\ Io!Sends(<<Io!Key(k, k \in hands, {"ctrl", "alt"} \subseteq hands)>>) /\ UNCHANGED buttons
  <2>1. PICK k \in Io!Keys : /\ hands' = IF k \in hands THEN hands \ {k} ELSE hands \cup {k}
                             /\ Io!Sends(<<Io!Key(k, k \in hands, {"ctrl", "alt"} \subseteq hands)>>) /\ UNCHANGED buttons
    BY <1>3
  <2> DEFINE u == Io!Key(k, k \in hands, {"ctrl", "alt"} \subseteq hands)
  <2>2. u \in Units /\ u.t = "key" /\ u.key = k /\ (u.up <=> k \in hands) /\ (u.meant <=> {"ctrl", "alt"} \subseteq hands)
    <3>1. (k \in hands) \in BOOLEAN /\ ({"ctrl", "alt"} \subseteq hands) \in BOOLEAN
      OBVIOUS
    <3> QED  BY <3>1, KeyIsUnit, Zenon
  <2> HIDE DEF u
  <2>3. hands' \subseteq Io!Keys /\ \A x \in Io!Keys : x \in hands' <=> IF x = k THEN ~u.up ELSE x \in hands
    BY <1>1, <2>1, <2>2
  <2>4. CASE ours
    <3>1. wire' = Append(wire, u) /\ Pending' = Append(Pending, u)
      <4>1. wire' = wire \o <<u>>
        BY <2>1, <2>4 DEF Io!Sends, u
      <4> QED  BY <1>1, <1>2, <4>1 DEF Pending
    <3>2. Goes(Pending, Io!S, 0, hands, buttons) /\ Packets(Pending)
      BY <2>4 DEF IoInv
    <3>3. Goes(Pending', Io!S, 0, hands', buttons)
      <4>1. /\ \A x \in Io!Keys : x \in hands' <=> IF x = u.key THEN ~u.up ELSE x \in hands
            /\ Turns \subseteq hands => u.meant
        BY <2>2, <2>3 DEF Turns
      <4> QED  BY <1>1, <2>2, <2>3, <3>1, <3>2, <4>1, Comes
    <3>4. Packets(Pending')
      BY <1>1, <2>2, <3>1, <3>2, PacketsOn
    <3>5. wire' \in Seq(Units)
      BY <1>1, <2>2, <3>1
    <3> QED  BY <1>1, <1>2, <2>1, <2>3, <2>4, <3>3, <3>4, <3>5 DEF IoInv
  <2>5. CASE ~ours
    <3>1. wire' = wire
      BY <2>1, <2>5 DEF Io!Sends
    <3> QED  BY <1>1, <1>2, <2>1, <2>3, <2>5, <3>1 DEF IoInv
  <2> QED  BY <1>1, <2>4, <2>5
<1>4. CASE \E b \in SUBSET Io!Buttons : buttons' = b /\ Io!Sends(<<Io!Mouse(b), Io!Rest, Io!Rest>>) /\ UNCHANGED hands
  <2>1. PICK b \in SUBSET Io!Buttons : buttons' = b /\ Io!Sends(<<Io!Mouse(b), Io!Rest, Io!Rest>>) /\ UNCHANGED hands
    BY <1>4
  <2> DEFINE u == Io!Mouse(b)
             v == Io!Rest
             P1 == Append(Pending, u)
             P2 == Append(P1, v)
             P3 == Append(P2, v)
  <2>2. u \in Units /\ u.t = "mouse" /\ u.b = b /\ v \in Units /\ v.t = "rest"
    BY DEF Io!Mouse, Io!Rest, Units
  <2> HIDE DEF u, v
  <2>3. P1 \in Seq(Units) /\ P2 \in Seq(Units) /\ P3 \in Seq(Units)
    BY <1>1, <2>2
  <2>4. CASE ours
    <3>1. wire' = wire \o <<u, v, v>>
      BY <2>1, <2>4 DEF Io!Sends, u, v
    <3>2. Pending' = P3
      <4>1. buf \o (wire \o <<u, v, v>>) = Append(Append(Append(buf \o wire, u), v), v)
        BY <1>1, <2>2, ThreeBehind
      <4> QED  BY <1>2, <3>1, <4>1 DEF Pending
    <3>3. Goes(Pending, Io!S, 0, hands, buttons) /\ Packets(Pending)
      BY <2>4 DEF IoInv
    <3> HIDE DEF P1, P2, P3
    <3>4. Goes(P1, Io!S, 0, hands, b)
      BY <1>1, <2>2, <3>3, Comes DEF P1
    <3>5. Goes(P2, Io!S, 0, hands, b)
      BY <1>1, <2>2, <2>3, <3>4, Comes DEF P2
    <3>6. Goes(P3, Io!S, 0, hands, b)
      BY <1>1, <2>2, <2>3, <3>5, Comes DEF P3
    <3>7. Packets(P3)
      BY <1>1, <2>2, <3>3, PacketComes DEF P1, P2, P3
    <3>8. wire' \in Seq(Units)
      BY <1>1, <2>2, <3>1
    <3> QED  BY <1>1, <1>2, <2>1, <2>4, <3>2, <3>6, <3>7, <3>8 DEF IoInv
  <2>5. CASE ~ours
    <3>1. wire' = wire
      BY <2>1, <2>5 DEF Io!Sends
    <3> QED  BY <1>1, <1>2, <2>1, <2>5, <3>1 DEF IoInv
  <2> QED  BY <1>1, <2>4, <2>5
<1> QED  BY <1>3, <1>4 DEF Io!Hands

(* What is left of w from its unit e on, and of q behind w                 *)
LEMMA RestOf ==
  ASSUME NEW w \in Seq(Units), NEW e \in 1 .. Len(w), NEW d, d = e - 1, NEW b, b = SubSeq(w, e, Len(w))
  PROVE  b \in Seq(Units) /\ Len(b) = Len(w) - d /\ \A j \in 1 .. Len(b) : b[j] = w[j + d] /\ j + d \in 1 .. Len(w)
<1>1. Len(w) \in Nat /\ e \in Nat /\ 1 <= e /\ e <= Len(w)
  OBVIOUS
<1>2. b \in Seq(Units) /\ Len(b) = Len(w) - d
  BY <1>1
<1>3. ASSUME NEW j \in 1 .. Len(b)
      PROVE  b[j] = w[j + d] /\ j + d \in 1 .. Len(w)
  <2>1. j \in 1 .. (Len(w) - e) + 1
    BY <1>1, <1>2
  <2>2. b[j] = w[(e + j) - 1]
    BY <1>1, <2>1
  <2> QED  BY <1>1, <2>1, <2>2
<1> QED  BY <1>2, <1>3

LEMMA JoinIs ==
  ASSUME NEW b \in Seq(Units), NEW v \in Seq(Units), NEW r, r = b \o v
  PROVE  /\ r \in Seq(Units) /\ Len(r) = Len(b) + Len(v) /\ Len(b) \in Nat /\ Len(v) \in Nat
         /\ \A j \in 1 .. Len(b) : r[j] = b[j]
         /\ \A j \in 1 .. Len(v) : r[j + Len(b)] = v[j]
  OBVIOUS

(* What is read is settled; what is left of a packet stays                 *)
LEMMA ReadInputStep ==
  ASSUME Io!IoAssumption, IoInv, Io!AtwReadInput
  PROVE  IoInv'
<1>1. /\ wire \in Seq(Units) /\ buf \in Seq(Units) /\ ours
      /\ hands \subseteq Io!Keys /\ buttons \subseteq Io!Buttons /\ Knows(Io!S)
      /\ Packets(Pending) /\ Goes(Pending, Io!S, 0, hands, buttons)
  BY DEF IoInv, Io!AtwReadInput
<1>2. UNCHANGED <<hands, buttons, ours>>
  BY DEF Io!AtwReadInput
<1>3. PICK n \in 1 .. Len(wire) :
        LET w == buf \o SubSeq(wire, 1, n) p == Io!Parse(w, Io!S) IN
          /\ Io!Becomes(p.s) /\ buf' = IF p.end = 0 THEN <<>> ELSE SubSeq(w, p.end, Len(w))
          /\ wire' = SubSeq(wire, n + 1, Len(wire))
  BY DEF Io!AtwReadInput
<1> DEFINE q == Pending
           w == buf \o SubSeq(wire, 1, n)
           p == Io!Parse(w, Io!S)
           d == IF p.end = 0 THEN Len(w) ELSE p.end - 1
           b == buf'
           v == wire'
           r == b \o v
<1>4. /\ q \in Seq(Units) /\ w \in Seq(Units) /\ Len(w) = Len(buf) + n /\ Len(q) = Len(buf) + Len(wire)
      /\ wire' \in Seq(Units) /\ Len(wire') = Len(wire) - n
  BY <1>1, <1>3 DEF Pending
<1>5. /\ \A j \in 1 .. Len(w) : w[j] = q[j]
      /\ \A j \in 1 .. Len(wire') : wire'[j] = q[j + Len(w)]
  BY <1>1, <1>3 DEF Pending
<1>6. Len(w) <= Len(q) /\ Len(wire') = Len(q) - Len(w) /\ Len(w) \in Nat /\ Len(q) \in Nat
  BY <1>1, <1>4
<1> HIDE DEF q, w, p
<1>7. Reached(q, Len(w), p, hands, buttons)
  BY <1>1, <1>4, <1>5, <1>6, ParseReaches DEF q, p
<1>8. /\ Io!Becomes(p.s) /\ buf' = (IF p.end = 0 THEN <<>> ELSE SubSeq(w, p.end, Len(w))) /\ p.end \in 0 .. Len(w)
  BY <1>3, <1>7 DEF w, p, Reached
<1>9. d \in Nat /\ d <= Len(w) /\ Goes(q, p.s, d, hands, buttons)
  BY <1>6, <1>7, <1>8 DEF Reached
<1> HIDE DEF b, v
<1>10. /\ b \in Seq(Units) /\ Len(b) = Len(w) - d
       /\ \A j \in 1 .. Len(b) : b[j] = q[j + d]
  <2>1. CASE p.end = 0
    BY <1>6, <1>8, <2>1 DEF b
  <2>2. CASE p.end # 0
    <3>1. p.end \in 1 .. Len(w) /\ d = p.end - 1 /\ b = SubSeq(w, p.end, Len(w))
      BY <1>8, <2>2 DEF b
    <3> HIDE DEF d
    <3>2. b \in Seq(Units) /\ Len(b) = Len(w) - d /\ \A j \in 1 .. Len(b) : b[j] = w[j + d] /\ j + d \in 1 .. Len(w)
      <4>1. w \in Seq(Units)
        BY <1>4
      <4>2. PICK e \in 1 .. Len(w) : e = p.end
        BY <3>1
      <4>3. d = e - 1 /\ b = SubSeq(w, e, Len(w))
        BY <3>1, <4>2
      <4> QED  BY <4>1, <4>3, RestOf
    <3> QED  BY <1>5, <3>2
  <2> QED  BY <2>1, <2>2
<1> HIDE DEF d
<1>v. v \in Seq(Units) /\ Len(v) = Len(q) - Len(w) /\ \A j \in 1 .. Len(v) : v[j] = q[j + Len(w)]
  BY <1>4, <1>5, <1>6 DEF v
<1>11. r \in Seq(Units) /\ Len(r) = Len(q) - d /\ \A j \in 1 .. Len(r) : r[j] = q[j + d]
  <2>1. /\ r \in Seq(Units) /\ Len(r) = Len(b) + Len(v) /\ Len(b) \in Nat /\ Len(v) \in Nat
        /\ \A j \in 1 .. Len(b) : r[j] = b[j]
        /\ \A j \in 1 .. Len(v) : r[j + Len(b)] = v[j]
    <3>1. b \in Seq(Units) /\ v \in Seq(Units)
      BY <1>v, <1>10
    <3>2. r = b \o v
      OBVIOUS
    <3> HIDE DEF r
    <3> QED  BY <3>1, <3>2, JoinIs
  <2> HIDE DEF r
  <2>2. Len(r) = Len(q) - d
    BY <1>6, <1>9, <1>10, <1>v, <2>1
  <2>3. ASSUME NEW j \in 1 .. Len(r)
        PROVE  r[j] = q[j + d]
    <3>1. CASE j <= Len(b)
      <4>1. j \in 1 .. Len(b)
        BY <2>1, <3>1
      <4> QED  BY <1>10, <2>1, <4>1
    <3>2. CASE ~(j <= Len(b))
      <4>1. PICK l \in 1 .. Len(v) : j = l + Len(b)
        <5>1. j - Len(b) \in 1 .. Len(v) /\ j = (j - Len(b)) + Len(b)
          BY <2>1, <3>2
        <5> QED  BY <5>1
      <4>2. l + Len(w) = j + d
        BY <1>6, <1>9, <1>10, <2>1, <4>1
      <4> QED  BY <1>v, <2>1, <4>1, <4>2
    <3> QED  BY <3>1, <3>2
  <2> QED  BY <2>1, <2>2, <2>3
<1> HIDE DEF r
<1>12. d <= Len(q)
  BY <1>6, <1>9
<1>13. Goes(r, p.s, 0, hands, buttons) /\ Packets(r)
  BY <1>1, <1>4, <1>9, <1>11, <1>12, GoesBehind DEF q
<1>14. Knows(p.s) /\ Io!S' = p.s
  <2>1. p.s \in Servants /\ Knows(p.s)
    BY <1>13 DEF Goes, Knows
  <2>2. Io!S' = [ctrl |-> p.s.ctrl, alt |-> p.s.alt, down |-> p.s.down, eaten |-> p.s.eaten, told |-> p.s.told,
                 clients |-> p.s.clients, asked |-> p.s.asked]
    BY <1>8 DEF Io!S, Io!Becomes
  <2> QED  BY <2>1, <2>2 DEF Servants
<1>15. Pending' = r
  BY DEF Pending, r, b, v
<1>16. wire' \in Seq(Units) /\ buf' \in Seq(Units)
  BY <1>10, <1>v DEF b, v
<1> QED  BY <1>1, <1>2, <1>16, <1>13, <1>14, <1>15 DEF IoInv

LEMMA Becoming ==
  ASSUME NEW s \in Servants, Io!Becomes(s)
  PROVE  Io!S' = s /\ clients' = s.clients
<1>1. Io!S' = [ctrl |-> s.ctrl, alt |-> s.alt, down |-> s.down, eaten |-> s.eaten, told |-> s.told,
               clients |-> s.clients, asked |-> s.asked]
  BY DEF Io!S, Io!Becomes
<1> QED  BY <1>1 DEF Servants, Io!Becomes

(* The keyboard goes, and nothing is left down                             *)
LEMMA LeaveStep ==
  ASSUME Io!IoAssumption, IoInv, Io!Leave
  PROVE  IoInv'
<1> DEFINE s == Io!S
           t == Io!Released(s)
<1>1. /\ hands \subseteq Io!Keys /\ buttons \subseteq Io!Buttons /\ s \in Servants /\ s.asked # "unmeant"
      /\ s.told = s.clients \cap Io!Buttons /\ s.down \ FKeys = (s.clients \cap Io!Keys) \ FKeys
      /\ s.eaten \subseteq FKeys /\ s.clients \subseteq Io!Keys \cup Io!Buttons
  BY DEF IoInv, Knows, Servants
<1>2. ours' = FALSE /\ wire' = <<>> /\ buf' = <<>> /\ Io!Becomes(t) /\ hands' = hands /\ buttons' = buttons
  BY DEF Io!Leave
<1>3. Io!Keys \cap Io!Buttons = {}
  BY DEF Io!IoAssumption, Io!Keys, Io!Buttons
<1> HIDE DEF s
<1>4. /\ t.clients = (s.clients \ (s.down \ s.eaten)) \ s.told /\ t.down = s.down \cap s.eaten /\ t.told = {}
      /\ t.asked = s.asked /\ t \in Servants
  <2>1. s.ctrl \in BOOLEAN /\ s.alt \in BOOLEAN /\ s.down \subseteq Io!Keys /\ s.eaten \subseteq FKeys
    BY <1>1 DEF Servants
  <2> QED  BY <1>1, <2>1 DEF Io!Released, Servants
<1> HIDE DEF t
<1>5. t.clients \ FKeys = {} /\ t.told = t.clients \cap Io!Buttons /\ t.down \ FKeys = (t.clients \cap Io!Keys) \ FKeys
  BY <1>1, <1>3, <1>4
<1>6. Knows(t)
  BY <1>1, <1>4, <1>5 DEF Knows
<1>7. Io!S' = t /\ clients' = t.clients
  BY <1>2, <1>4, Becoming
<1>8. <<>> \in Seq(Units)
  OBVIOUS
<1>9. wire' \in Seq(Units) /\ buf' \in Seq(Units) /\ ours' \in BOOLEAN /\ ~ours' /\ Knows(Io!S')
  BY <1>2, <1>6, <1>7, <1>8
<1>10. hands' \subseteq Io!Keys /\ buttons' \subseteq Io!Buttons /\ clients' \ FKeys = {}
  BY <1>1, <1>2, <1>5, <1>7
<1> QED  BY <1>2, <1>9, <1>10 DEF IoInv

LEMMA ReturnStep ==
  ASSUME Io!IoAssumption, IoInv, Io!Return
  PROVE  IoInv'
<1> DEFINE s == Io!S
           t == Io!ComeBack(s)
<1>1. /\ hands \subseteq Io!Keys /\ buttons \subseteq Io!Buttons /\ Knows(s) /\ s \in Servants
      /\ wire = <<>> /\ buf = <<>> /\ s.clients \ FKeys = {}
  BY DEF IoInv, Knows, Io!Return, Io!S
<1>2. ours' = TRUE /\ wire' = wire /\ buf' = buf /\ Io!Becomes(t) /\ hands' = hands /\ buttons' = buttons
  BY DEF Io!Return
<1>3. FKeys \cap Io!Buttons = {}
  BY DEF Io!IoAssumption, Io!Keys, Io!Buttons
<1> HIDE DEF s
<1>4. /\ t \in Servants /\ t.ctrl = FALSE /\ t.alt = FALSE /\ t.clients = s.clients /\ t.told = s.told
      /\ t.down = s.down /\ t.asked = s.asked
  BY <1>1 DEF Io!ComeBack, Servants
<1> HIDE DEF t
<1>5. Knows(t)
  BY <1>1, <1>4 DEF Knows
<1>6. Io!S' = t
  BY <1>2, <1>4, Becoming
<1>7. t.told = {} /\ Mods(t) = {} /\ t.clients \cap Io!Keys \subseteq FKeys
  BY <1>1, <1>3, <1>4, <1>5 DEF Knows, Mods
<1>8. Pending' = <<>>
  BY <1>1, <1>2 DEF Pending
<1>9. Goes(<<>>, t, 0, hands, buttons) /\ Packets(<<>>)
  BY <1>5, <1>7, NothingToRead
<1> QED  BY <1>1, <1>2, <1>5, <1>6, <1>8, <1>9 DEF IoInv

LEMMA KeysStep ==
  ASSUME Io!IoAssumption, IoInv, [Io!Next]_(Io!vars)
  PROVE  IoInv'
<1>1. CASE UNCHANGED Io!vars
  <2>1. Io!S' = Io!S /\ Pending' = Pending
    BY <1>1 DEF Io!vars, Io!S, Pending
  <2> QED  BY <1>1, <2>1 DEF IoInv, Io!vars
<1>2. CASE Io!Next
  BY <1>2, HandsStep, ReadInputStep, LeaveStep, ReturnStep DEF Io!Next
<1> QED  BY <1>1, <1>2

LEMMA KeysRight ==
  ASSUME IoInv
  PROVE  Io!NoneStuck /\ Io!AwayNone /\ Io!OnlyMeant
<1>1. Knows(Io!S) /\ Io!S.clients = clients /\ Io!S.told = btold /\ Io!S.asked = asked
  BY DEF IoInv, Io!S
<1>2. /\ clients \subseteq Io!Keys \cup Io!Buttons /\ btold = clients \cap Io!Buttons
      /\ asked # "no" => asked = "meant"
  BY <1>1 DEF Knows, Servants
<1>3. ASSUME ours, wire = <<>>, buf = <<>>
      PROVE  clients \ FKeys \subseteq hands \cup buttons
  <2>1. Pending = <<>>
    BY <1>3 DEF Pending
  <2>2. KeysTo(<<>>, Io!S, 0, hands) /\ ButtonsTo(<<>>, Io!S, 0, buttons)
    BY <1>3, <2>1 DEF IoInv, Goes
  <2>3. Len(<<>>) = 0 /\ 0 + 1 .. 0 = {}
    OBVIOUS
  <2>4. \A k, B : Ends(<<>>, k, 0, 0, B) <=> k \in B
    BY <2>3 DEF Ends
  <2>5. \A k \in Io!Keys \ FKeys : k \in clients => k \in hands
    BY <1>1, <2>2, <2>3, <2>4 DEF KeysTo
  <2>6. btold \subseteq buttons
    BY <1>1, <2>2, <2>3 DEF ButtonsTo
  <2> QED  BY <1>2, <2>5, <2>6
<1> QED  BY <1>2, <1>3 DEF IoInv, Io!NoneStuck, Io!Read, Io!AwayNone, Io!OnlyMeant

-----------------------------------------------------------------------------
(***************************************************************************)
(* The parts together                                                      *)
(***************************************************************************)
PInv ==
  /\ part = "mount" => MInv
  /\ part = "dhcp" => LInv
  /\ part = "write" => WInv
  /\ part = "ntp" => NInv
  /\ part = "io" => IoInv

LEMMA PartsStart ==
  ASSUME Init
  PROVE  PInv
<1>1. part = "mount" => Mount!Init
  BY DEF Init
<1>2. part = "dhcp" => Lease!Init
  BY DEF Init
<1>3. part = "write" => Write!Init
  BY DEF Init
<1>4. part = "ntp" => Clock!Init
  BY DEF Init
<1>5. part = "io" => Io!Init
  BY DEF Init
<1> QED  BY <1>1, <1>2, <1>3, <1>4, <1>5, MountInit, LeaseInit, WriteStart, ClockInit, KeysStart, MountAssumption,
            WriteAssumption, ClockAssumption, KeysAssumption DEF PInv

(* A step is one of the part's own, or of another part's.                  *)
LEMMA PartStep ==
  ASSUME [Next]_vars
  PROVE  /\ part' = part
         /\ part = "mount" => [Mount!Next]_(Mount!vars)
         /\ part = "dhcp" => [Lease!Next]_(Lease!vars)
         /\ part = "write" => [Write!Next]_(Write!vars)
         /\ part = "ntp" => [Clock!Next]_(Clock!vars)
         /\ part = "io" => [Io!Next]_(Io!vars)
<1>1. CASE Next
  BY <1>1 DEF Next
<1>2. CASE UNCHANGED vars
  BY <1>2 DEF vars, mount_vars, dhcp_vars, write_vars, ntp_vars, io_vars, Mount!vars, Lease!vars, Write!vars, Clock!vars,
                 Io!vars
<1> QED  BY <1>1, <1>2

LEMMA PartsKept ==
  ASSUME PInv, [Next]_vars
  PROVE  PInv'
<1>1. part' = part
  BY PartStep
<1>2. part = "mount" => MInv'
  BY PartStep, MountStep, MountAssumption DEF PInv
<1>3. part = "dhcp" => LInv'
  BY PartStep, LeaseStep, LeaseAssumption DEF PInv
<1>4. part = "write" => WInv'
  BY PartStep, WriteStep, WriteAssumption DEF PInv
<1>5. part = "ntp" => NInv'
  BY PartStep, ClockStep, ClockAssumption DEF PInv
<1>6. part = "io" => IoInv'
  BY PartStep, KeysStep, KeysAssumption DEF PInv
<1> QED  BY <1>1, <1>2, <1>3, <1>4, <1>5, <1>6 DEF PInv

(* While leases run two machines never have one address, each of its first *)
(* 256 transactions ends with what was asked for last, and hosts.net is    *)
(* torn at most by a machine that stops between the rename and the flush.  *)
(* (dhcpc.c)                                                               *)
THEOREM LeasesAreSound == Spec => []LeaseSound
<1>1. Init => PInv
  BY PartsStart
<1>2. PInv /\ [Next]_vars => PInv'
  BY PartsKept
<1>3. ASSUME PInv
      PROVE  LeaseSound
  <2>1. LInv => Lease!OwnAddress /\ Lease!AckOfLast
    BY DEF LInv, Requests, Lease!AckOfLast, Lease!LastAsked
  <2>2. WInv => Write!HostsWhole
    BY DEF WInv
  <2> QED  BY <1>3, <2>1, <2>2 DEF PInv, LeaseSound
<1> QED  BY <1>1, <1>2, <1>3, PTL DEF Spec

(* Once all is read no key or button is down for the clients that the      *)
(* hands do not hold, however the packets were split and as often as the   *)
(* keyboard goes between packets; without it nothing is; a switch was      *)
(* meant. (atwIo.c)                                                        *)
THEOREM KeysAreSound == Spec => []KeysSound
<1>1. Init => PInv
  BY PartsStart
<1>2. PInv /\ [Next]_vars => PInv'
  BY PartsKept
<1>3. PInv => KeysSound
  BY KeysRight DEF PInv, KeysSound
<1> QED  BY <1>1, <1>2, <1>3, PTL DEF Spec

(* The log's records agree with the clock after -b, an earlier boot's      *)
(* stay, and -u mends this one's as far as FixStep says; no letter of the  *)
(* BIOS is taken over. (ttntp.c, ufs.c)                                    *)
THEOREM RecordsAreKept == Spec => RecordsKept
<1> DEFINE Right == part = "ntp" => Clock!RecordsRight
           Steps == /\ part = "ntp" => Clock!OldStep /\ Clock!FixStep
                    /\ part = "mount" => Mount!LettersKept
<1>1. Init => PInv
  BY PartsStart
<1>2. PInv /\ [Next]_vars => PInv'
  BY PartsKept
<1>3. PInv => Right
  BY RightRecords, ClockAssumption DEF PInv
<1>4. ASSUME PInv, Next
      PROVE  Steps
  <2>1. part = "ntp" => Clock!Next
    BY <1>4 DEF Next
  <2>2. part = "mount" => Mount!Next
    BY <1>4 DEF Next
  <2>3. part = "ntp" => Clock!OldStep /\ Clock!FixStep
    BY <1>4, <2>1, OldSteps, FixSteps, ClockAssumption DEF PInv
  <2>4. part = "mount" => Mount!LettersKept
    BY <1>4, <2>2, LettersStep, MountAssumption DEF PInv
  <2> QED  BY <2>3, <2>4
<1>5. PInv /\ [Next]_vars => [Steps]_vars
  BY <1>4
<1> HIDE DEF Right, Steps
<1>6. Spec => []Right /\ [][Steps]_vars
  BY <1>1, <1>2, <1>3, <1>5, PTL DEF Spec
<1> QED  BY <1>6 DEF RecordsKept, Right, Steps
=============================================================================
