----------------------------- MODULE DhcpWrite ------------------------------
(***************************************************************************)
(* What dhcpc -w writes (dhcpc/dhcpc.c: writehosts, writerest): the node's *)
(* line of hosts.net, through a file of its own that is renamed, then      *)
(* dhcp.sh and resolv.conf in place. A line is written when its buffer is: *)
(* that may fail, and only the last time is looked at (fclose). The        *)
(* program may be ended at any step, or the machine stop, and be run       *)
(* again. There is no fsync: what is written is in memory until the kernel *)
(* flushes it, while names change on the disk at once.                     *)
(*                                                                         *)
(* External: the file system and its flushing.                             *)
(***************************************************************************)
EXTENDS Integers, Sequences

CONSTANTS
  MaxLines   \* bound: lines of hosts.net

DhcpWriteAssumption == MaxLines \in Nat

VARIABLES
  pc,              \* where the program is
  hosts, old,      \* hosts.net; as it was when the program started
  tmp, sh, resolv, \* hosts.net.dhcp; dhcp.sh and resolv.conf: whole, or cut off
  read, done,      \* lines read; the node's has been among them
  lost,            \* a line was not written, and the close did not tell
  dirty,           \* files whose data may not all be on the disk
  torn             \* the machine stopped, and hosts.net lost what was not
vars == <<pc, hosts, old, tmp, sh, resolv, read, done, lost, dirty, torn>>

(* a line: the node's, with the address it had or has now, or any other *)
Lines == {"node", "new", "other"}
Files == UNION {[1 .. n -> Lines]: n \in 0 .. MaxLines}

TypeOK ==
  /\ pc \in {"rest", "copy", "close", "rename", "sh", "shput", "resolv", "resolvput"}
  /\ {hosts, old, tmp} \subseteq Seq(Lines) /\ {sh, resolv} \subseteq {"whole", "cut"}
  /\ read \in 0 .. Len(old) /\ done \in BOOLEAN /\ lost \in BOOLEAN
  /\ dirty \subseteq {"hosts", "tmp", "sh", "resolv"} /\ torn \in BOOLEAN

Init ==
  /\ pc = "rest" /\ hosts \in Files /\ old = hosts /\ tmp = <<>> /\ sh = "whole" /\ resolv = "whole"
  /\ read = 0 /\ done = FALSE /\ lost = FALSE /\ dirty = {} /\ torn = FALSE

rest == <<sh, resolv>>
Write(file) == dirty' = dirty \cup {file}

(* mutant: the file itself is rewritten *)
CreateInPlace == hosts' = <<>>
Create == UNCHANGED hosts
Start ==
  /\ pc = "rest" /\ Len(hosts) <= MaxLines
  /\ old' = hosts /\ Create /\ tmp' = <<>> /\ read' = 0 /\ done' = FALSE /\ lost' = FALSE /\ pc' = "copy"
  /\ torn' = FALSE /\ Write("tmp") /\ UNCHANGED rest

(* a line's buffer goes out, or does not *)
Put(line) == \/ tmp' = Append(tmp, line) /\ UNCHANGED lost
             \/ UNCHANGED tmp /\ lost' = TRUE

(* the node's first line; its aliases stay on it *)
IsNodes(line) == line \in {"node", "new"} /\ ~done
Copy ==
  /\ pc = "copy"
  /\ IF read < Len(old)
     THEN LET line == old[read + 1] IN
            /\ Put(IF IsNodes(line) THEN "new" ELSE line) /\ done' = (done \/ IsNodes(line)) /\ read' = read + 1
            /\ UNCHANGED pc
     ELSE (IF ~done THEN Put("new") ELSE UNCHANGED <<tmp, lost>>) /\ pc' = "close" /\ UNCHANGED <<read, done>>
  /\ Write("tmp") /\ UNCHANGED <<hosts, old, rest, torn>>

(* the close writes what is left; when that fails, that is told *)
Close ==
  /\ pc = "close" /\ pc' \in {"rename", "rest"} /\ Write("tmp")
  /\ UNCHANGED <<hosts, old, tmp, rest, read, done, lost, torn>>
(* hosts.net is then the file that was written, flushed or not *)
Takes == (dirty \ {"hosts", "tmp"}) \cup (IF "tmp" \in dirty THEN {"hosts"} ELSE {})
Rename ==
  /\ pc = "rename" /\ (\/ hosts' = tmp /\ dirty' = Takes /\ pc' = "sh"
                       \/ UNCHANGED <<hosts, dirty>> /\ pc' = "rest")
  /\ UNCHANGED <<old, tmp, rest, read, done, lost, torn>>

(* writerest: opened, which empties it, and written; resolv.conf when there are nameservers *)
Sh ==
  /\ \/ pc = "sh" /\ ((sh' = "cut" /\ pc' = "shput" /\ Write("sh")) \/ (UNCHANGED <<sh, dirty>> /\ pc' = "rest"))
     \/ pc = "shput" /\ sh' = "whole" /\ pc' \in {"resolv", "rest"} /\ Write("sh")
  /\ UNCHANGED <<hosts, old, tmp, resolv, read, done, lost, torn>>
Resolv ==
  /\ \/ pc = "resolv" /\ ((resolv' = "cut" /\ pc' = "resolvput" /\ Write("resolv")) \/ (UNCHANGED <<resolv, dirty>> /\ pc' = "rest"))
     \/ pc = "resolvput" /\ resolv' = "whole" /\ pc' = "rest" /\ Write("resolv")
  /\ UNCHANGED <<hosts, old, tmp, sh, read, done, lost, torn>>

(* the program is ended *)
Ended == pc # "rest" /\ pc' = "rest" /\ UNCHANGED <<hosts, old, tmp, rest, read, done, lost, dirty, torn>>

(* External: a file's data is flushed; the machine stops, and a file whose
   data was not is cut off somewhere                                       *)
Flush == \E file \in dirty: dirty' = dirty \ {file} /\ UNCHANGED <<pc, hosts, old, tmp, rest, read, done, lost, torn>>
Cut(file, was) == IF file \in dirty THEN {was, "cut"} ELSE {was}
Stop ==
  /\ pc' = "rest" /\ dirty' = {}
  /\ \/ UNCHANGED <<hosts, torn>>
     \/ "hosts" \in dirty /\ torn' = TRUE /\ \E n \in 0 .. Len(hosts) - 1: hosts' = SubSeq(hosts, 1, n)
  /\ sh' \in Cut("sh", sh) /\ resolv' \in Cut("resolv", resolv)
  /\ UNCHANGED <<old, tmp, read, done, lost>>

Next == Start \/ Copy \/ Close \/ Rename \/ Sh \/ Resolv \/ Ended \/ Flush \/ Stop
Spec == Init /\ [][Next]_vars

-----------------------------------------------------------------------------
(* hosts.net is what it was, or that with the node's new address, wherever the
   program is ended, and wherever the machine stops before the rename or once
   the new file has been flushed; unless a line was lost that the close did not
   tell of. No line goes, and the node has one. (writehosts: the rename)   *)
First(l) == \E i \in DOMAIN old: old[i] # "other" /\ (\A j \in 1 .. i - 1: old[j] = "other") /\ l = [old EXCEPT ![i] = "new"]
HostsWhole ==
  ~lost /\ ~torn => hosts = old \/ First(hosts) \/ ((\A i \in DOMAIN old: old[i] = "other") /\ hosts = Append(old, "new"))

(* Not so: also when a line was not written: ferror is not asked.          *)
HostsAlways == ~torn => hosts = old \/ First(hosts) \/ hosts = Append(old, "new")
(* Not so: also when the machine stops soon after the rename: the name is on the
   disk before what was written. hosts.net may be found empty.             *)
HostsDurable == ~lost => hosts = old \/ First(hosts) \/ hosts = Append(old, "new")
(* Not so: dhcp.sh is never found cut off. It is written in place.         *)
ShWhole == pc = "rest" => sh = "whole"
=============================================================================
