------------------------------ MODULE Programs ------------------------------
(***************************************************************************)
(* The programs outside the kernel, none of which touches another's        *)
(* state: FreeMiNT's UFS reader (files and names, the search for slices,   *)
(* nodes), dhcpc (the exchange, what it writes), ttntp, the X servers'     *)
(* keyboard. A behaviour is one of one part, the others staying as they    *)
(* began; each part's bounds are here, or in the configuration.            *)
(***************************************************************************)
EXTENDS Integers, Sequences, FiniteSets, TLC

CONSTANTS
  Slices, Drives, FirstDrive, Reserved, MaxDrives, RootTag,  \* UfsMount
  Clients, Servers, Pool, Secs, Wait0, WaitMax, XidByte, MaxXid,  \* Dhcp
  MaxLines,  \* DhcpWrite
  Zones, Window, Step, MaxTime, MaxBoots, MaxRecs, ChipErrs,  \* Ntp
  Plain, FKeys, BufSize, MaxWire, MaxMoves, MaxTurns  \* AtwIo

VARIABLES
  part,
  ufile, utree, ubad, f, dirh, ans,  \* Ufs
  disks, mat, bits, ufs, di, pending, nextDrive, rootDrv, failed,  \* UfsMount
  nat, rest, from, path, links, res, trouble,  \* UfsNode
  dpc, xid, wait, time, lease, net, dheld,  \* Dhcp
  wpc, hosts, wold, tmp, sh, resolv, wread, done, lost, dirty, torn,  \* DhcpWrite
  Zone, tru, err, ctold, chip, phase, log, boots, logged, fixed,  \* Ntp
  hands, buttons, wire, ours, buf, ctrl, alt, down, eaten, btold, clients, asked, moves, turns  \* AtwIo

Fs == INSTANCE Ufs WITH file <- ufile, tree <- utree, bad <- ubad, NDADDR <- 1, NIADDR <- 2, Nindir <- 2, Fsize <- 2,
         Frag <- 2, MaxSize <- 22, Lens <- {3, 22}, Inos <- {3, 4}, Names <- {"a", "b"}, PathMax <- 2
Mount == INSTANCE UfsMount WITH at <- mat
D(up, x) == [kind |-> "dir", dir |-> x @@ (".." :> up), link |-> <<>>]
L(p) == [kind |-> "link", dir |-> <<>>, link |-> p]
F == [kind |-> "file", dir |-> <<>>, link |-> <<>>]
TheGeo == [s \in {"root", "usr"} |->
  IF s = "root" THEN [ipg |-> 4, inopb |-> 2, frag |-> 2, fpg |-> 16, cgoffset |-> 1, spread |-> 2, iblkno |-> 4, ncg |-> 3]
  ELSE [ipg |-> 8, inopb |-> 4, frag |-> 1, fpg |-> 8, cgoffset |-> 2, spread |-> 1, iblkno |-> 2, ncg |-> 2]]
TheTree == [s \in {"root", "usr"} |->
  IF s = "root"
  THEN 2 :> D(2, "a" :> 5 @@ "l" :> 6 @@ "m" :> 9 @@ "r" :> 10) @@ 5 :> D(2, "b" :> 7 @@ "a" :> 8 @@ "x" :> 11)
       @@ 6 :> L(<<"/", "a">>) @@ 7 :> F @@ 8 :> L(<<"b">>) @@ 9 :> D(2, <<>>) @@ 10 :> L(<<"/", "r">>)
       @@ 11 :> L(<<"/", "a", ".", "b">>)
  ELSE 2 :> D(2, "a" :> 9 @@ "l" :> 12) @@ 9 :> D(2, "b" :> 13 @@ "l" :> 14) @@ 12 :> L(<<"/", "a">>) @@ 13 :> F
       @@ 14 :> L(<<"/", "l", "b">>)]
Node == INSTANCE UfsNode WITH at <- nat, Slices <- {"root", "usr"}, Geo <- TheGeo, Tree <- TheTree, RootIno <- 2,
         Mounts <- {<<9, "usr">>}, Paths <- UNION {[1 .. n -> {"a", "b", "l", ".", "..", "r", "x"}]: n \in 1 .. 3},
         Room <- 4, MaxLinks <- 3
ThePool == "s1" :> {"x"} @@ "s2" :> {"y"}
TheSecs == "c1" :> 1 @@ "c2" :> 1
Lease == INSTANCE Dhcp WITH pc <- dpc, held <- dheld
Write == INSTANCE DhcpWrite WITH pc <- wpc, old <- wold, read <- wread
TheZones == {3, -3}
Clock == INSTANCE Ntp WITH told <- ctold
Io == INSTANCE AtwIo WITH held <- hands, told <- btold, MidPacket <- FALSE

ASSUME FsAssumption == Fs!UfsAssumption
ASSUME MountAssumption == Mount!UfsMountAssumption
ASSUME LeaseAssumption == Lease!DhcpAssumption
ASSUME WriteAssumption == Write!DhcpWriteAssumption
ASSUME ClockAssumption == Clock!NtpAssumption
ASSUME KeysAssumption == Io!IoAssumption

ufs_vars == <<ufile, utree, ubad, f, dirh, ans>>
mount_vars == <<disks, mat, bits, ufs, di, pending, nextDrive, rootDrv, failed>>
node_vars == <<nat, rest, from, path, links, res, trouble>>
dhcp_vars == <<dpc, xid, wait, time, lease, net, dheld>>
write_vars == <<wpc, hosts, wold, tmp, sh, resolv, wread, done, lost, dirty, torn>>
ntp_vars == <<Zone, tru, err, ctold, chip, phase, log, boots, logged, fixed>>
io_vars == <<hands, buttons, wire, ours, buf, ctrl, alt, down, eaten, btold, clients, asked, moves, turns>>
vars == <<part, ufs_vars, mount_vars, node_vars, dhcp_vars, write_vars, ntp_vars, io_vars>>

(* A part that is not the behaviour's *)
FsOff == ufile = 0 /\ utree = 0 /\ ubad = 0 /\ f = 0 /\ dirh = 0 /\ ans = 0
MountOff == disks = 0 /\ mat = 0 /\ bits = 0 /\ ufs = 0 /\ di = 0 /\ pending = 0 /\ nextDrive = 0 /\ rootDrv = 0 /\ failed = 0
NodeOff == nat = 0 /\ rest = 0 /\ from = 0 /\ path = 0 /\ links = 0 /\ res = 0 /\ trouble = 0
LeaseOff == dpc = 0 /\ xid = 0 /\ wait = 0 /\ time = 0 /\ lease = 0 /\ net = 0 /\ dheld = 0
WriteOff == wpc = 0 /\ hosts = 0 /\ wold = 0 /\ tmp = 0 /\ sh = 0 /\ resolv = 0 /\ wread = 0 /\ done = 0 /\
  lost = 0 /\ dirty = 0 /\ torn = 0
ClockOff == Zone = 0 /\ tru = 0 /\ err = 0 /\ ctold = 0 /\ chip = 0 /\ phase = 0 /\ log = 0 /\ boots = 0 /\
  logged = 0 /\ fixed = 0
IoOff == hands = 0 /\ buttons = 0 /\ wire = 0 /\ ours = 0 /\ buf = 0 /\ ctrl = 0 /\ alt = 0 /\ down = 0 /\
  eaten = 0 /\ btold = 0 /\ clients = 0 /\ asked = 0 /\ moves = 0 /\ turns = 0
Init ==
  \/ part = "ufs" /\ Fs!Init /\ MountOff /\ NodeOff /\ LeaseOff /\ WriteOff /\ ClockOff /\ IoOff
  \/ part = "mount" /\ Mount!Init /\ FsOff /\ NodeOff /\ LeaseOff /\ WriteOff /\ ClockOff /\ IoOff
  \/ part = "node" /\ Node!Init /\ FsOff /\ MountOff /\ LeaseOff /\ WriteOff /\ ClockOff /\ IoOff
  \/ part = "dhcp" /\ Lease!Init /\ FsOff /\ MountOff /\ NodeOff /\ WriteOff /\ ClockOff /\ IoOff
  \/ part = "write" /\ Write!Init /\ FsOff /\ MountOff /\ NodeOff /\ LeaseOff /\ ClockOff /\ IoOff
  \/ part = "ntp" /\ Clock!Init /\ FsOff /\ MountOff /\ NodeOff /\ LeaseOff /\ WriteOff /\ IoOff
  \/ part = "io" /\ Io!Init /\ FsOff /\ MountOff /\ NodeOff /\ LeaseOff /\ WriteOff /\ ClockOff

Next ==
  \/ part = "ufs" /\ Fs!Next /\ UNCHANGED <<part, mount_vars, node_vars, dhcp_vars, write_vars, ntp_vars, io_vars>>
  \/ part = "mount" /\ Mount!Next /\ UNCHANGED <<part, ufs_vars, node_vars, dhcp_vars, write_vars, ntp_vars, io_vars>>
  \/ part = "node" /\ Node!Next /\ UNCHANGED <<part, ufs_vars, mount_vars, dhcp_vars, write_vars, ntp_vars, io_vars>>
  \/ part = "dhcp" /\ Lease!Next /\ UNCHANGED <<part, ufs_vars, mount_vars, node_vars, write_vars, ntp_vars, io_vars>>
  \/ part = "write" /\ Write!Next /\ UNCHANGED <<part, ufs_vars, mount_vars, node_vars, dhcp_vars, ntp_vars, io_vars>>
  \/ part = "ntp" /\ Clock!Next /\ UNCHANGED <<part, ufs_vars, mount_vars, node_vars, dhcp_vars, write_vars, io_vars>>
  \/ part = "io" /\ Io!Next /\ UNCHANGED <<part, ufs_vars, mount_vars, node_vars, dhcp_vars, write_vars, ntp_vars>>
Spec == Init /\ [][Next]_vars

-----------------------------------------------------------------------------
(* Each part's variables have their types. *)
TypeOK ==
  /\ part = "ufs" => Fs!TypeOK
  /\ part = "mount" => Mount!TypeOK
  /\ part = "node" => Node!TypeOK
  /\ part = "dhcp" => Lease!TypeOK
  /\ part = "write" => Write!TypeOK
  /\ part = "ntp" => Clock!TypeOK
  /\ part = "io" => Io!TypeOK

(* A read gives the file's bytes up to its end or a bad block, a listing that ended
   told or refused each name that is found, a path from getname leads back; each
   slice that is one has a drive, in order, unless something failed for it or the
   letters are used up, and no descriptor is left; a path, and the links on it, lead
   to the inode System V finds, unless they leave the slice through its root or a
   mount point, and what is not found is not there unless the disk or the memory
   failed. (ufs.c, ufs_bmap, ufs_readfile, ufs_readdir, ufs_getname, ufs_mount_slice,
   ufs_lookup, ufs_readlink)                                               *)
FilesSound ==
  /\ part = "ufs" => Fs!ReadIs /\ Fs!ListsAll /\ Fs!PathBack
  /\ part = "mount" => Mount!DrivesSound
  /\ part = "node" => Node!AsSysV

(* Two machines never have one address while their leases run, and each has what
   it asked for last while its transactions have ids of their own, whatever was
   lost, late or repeated; hosts.net is as it was or as it is to be, wherever the
   program is ended, and wherever the machine stops but between the rename and the
   flush. (dhcpc.c, main, parse, writehosts)                               *)
LeaseSound ==
  /\ part = "dhcp" => Lease!OwnAddress /\ Lease!AckOfLast
  /\ part = "write" => Write!HostsWhole

(* No key is stuck down or meant for another server. (atwIo.c)             *)
KeysSound == part = "io" => Io!NoneStuck /\ Io!AwayNone /\ Io!OnlyMeant

(* After -b this boot's records agree with the clock; an earlier boot's records
   stay; -u makes this one's early records right and spoils only those FixStep
   names, under the conditions it states; no letter of the BIOS is taken over.
   (ttntp.c, boot_local, main, shift_file; ufs.c, ufs_free_drive)          *)
RecordsKept ==
  /\ [](part = "ntp" => Clock!RecordsRight)
  /\ [][/\ part = "ntp" => Clock!OldStep /\ Clock!FixStep
        /\ part = "mount" => Mount!LettersKept]_vars
=============================================================================
