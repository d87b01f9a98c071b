-------------------------------- MODULE Dhcp --------------------------------
(***************************************************************************)
(* The DHCP client (dhcpc/dhcpc.c), several of them booting on one wire    *)
(* with several servers. Everything is broadcast; a message may be lost,   *)
(* late, repeated or overtaken: net holds all that were ever sent.         *)
(* Transaction ids (xid) start from the time and the process id: they may  *)
(* be the same on two machines. xid counts a machine's transactions; the   *)
(* messages carry its last byte alone. Bound: no lease runs out. The       *)
(* program does not renew one: what is said of a lease is said while it    *)
(* runs.                                                                   *)
(*                                                                         *)
(* External: the servers, with an address pool each.                       *)
(***************************************************************************)
EXTENDS Integers, FiniteSets

CONSTANTS
  Clients,
  Servers,
  Pool,      \* the addresses of each server
  Secs,      \* -t of each: seconds after which no discover is sent any more
  Wait0, WaitMax, \* what an exchange waits: at first, at most (2, 8)
  XidByte,      \* values of the counted byte of xid (256)
  MaxXid     \* bound: transactions of a client but the first

DhcpAssumption ==
  /\ Secs \in [Clients -> Nat] /\ {Wait0, WaitMax} \subseteq Nat \ {0} /\ Wait0 <= WaitMax
  /\ XidByte \in Nat \ {0}
  /\ "none" \notin Clients

VARIABLES
  pc,      \* a client: "start", "offer" and "ack" awaited, "done", "failed"
  xid, wait, time, lease,
  net,
  held     \* what the servers have offered or given, and to whom

vars == <<pc, xid, wait, time, lease, net, held>>

Addrs == UNION {Pool[s]: s \in Servers}
NoLease == [addr |-> "none", server |-> "none"]
Free == [to |-> "none", given |-> FALSE]
Late(c) == Secs[c] + 2 * WaitMax

TypeOK ==
  /\ pc \in [Clients -> {"start", "offer", "ack", "done", "failed"}] /\ xid \in [Clients -> Nat]
  /\ wait \in [Clients -> Wait0 .. WaitMax] /\ \A c \in Clients: time[c] \in 0 .. Late(c)
  /\ lease \in [Clients -> [addr: Addrs \cup {"none"}, server: Servers \cup {"none"}]]
  /\ held \in [Addrs -> [to: Clients \cup {"none"}, given: BOOLEAN]]

Init ==
  /\ pc = [c \in Clients |-> "start"] /\ xid = [c \in Clients |-> 0] /\ wait = [c \in Clients |-> Wait0]
  /\ time = [c \in Clients |-> 0] /\ lease = [c \in Clients |-> NoLease] /\ net = {} /\ held = [a \in Addrs |-> Free]

Msg(type, c, l) == [type |-> type, to |-> c, xid |-> xid[c], lease |-> l]

-----------------------------------------------------------------------------
(* External: a server offers, gives or refuses; an offer taken elsewhere, or
   long ago, is taken back                                                 *)

Answer(m, type, l) == net' = net \cup {[m EXCEPT !.type = type, !.lease = l]}

Offer(s) ==
  \E m \in net, a \in Pool[s]:
    /\ m.type = "discover" /\ held[a].to \in {"none", m.to}
    /\ held' = [held EXCEPT ![a].to = m.to] /\ Answer(m, "offer", [addr |-> a, server |-> s])
    /\ UNCHANGED <<pc, xid, wait, time, lease>>

Give(s) ==
  \E m \in net:
    /\ m.type = "request" /\ m.lease.server = s
    /\ IF held[m.lease.addr].to = m.to
       THEN held' = [held EXCEPT ![m.lease.addr].given = TRUE] /\ Answer(m, "ack", m.lease)
       ELSE UNCHANGED held /\ Answer(m, "nak", NoLease)
    /\ UNCHANGED <<pc, xid, wait, time, lease>>

TakeBack(a) ==
  /\ held[a].to # "none" /\ ~held[a].given /\ held' = [held EXCEPT ![a] = Free]
  /\ UNCHANGED <<pc, xid, wait, time, lease, net>>

-----------------------------------------------------------------------------
(* main, exchange                                                          *)

(* while there is time: a discover *)
Discover(c) ==
  /\ pc[c] = "start" /\ xid[c] <= MaxXid
  /\ IF time[c] < Secs[c]
     THEN pc' = [pc EXCEPT ![c] = "offer"] /\ net' = net \cup {Msg("discover", c, NoLease)}
     ELSE pc' = [pc EXCEPT ![c] = "failed"] /\ UNCHANGED net
  /\ lease' = [lease EXCEPT ![c] = NoLease]
  /\ UNCHANGED <<xid, wait, time, held>>

(* mutant: any machine's reply *)
MineAny(c, m) == m.xid % XidByte = xid[c] % XidByte
(* parse: a reply to this machine and this transaction, as far as the byte tells *)
Mine(c, m) == m.xid % XidByte = xid[c] % XidByte /\ m.to = c

Replies(c, want) == {m \in net: m.type \in {want, "nak"} /\ Mine(c, m)}

(* mutant: the next attempt goes on with the same transaction *)
SameXid(c) == xid
(* a request that was refused or not answered: another transaction *)
NextXid(c) == [xid EXCEPT ![c] = @ + 1]
(* mutant: it doubles without end *)
LongerAlways(c) == [wait EXCEPT ![c] = @ * 2]
Longer(c) == [wait EXCEPT ![c] = IF @ < WaitMax THEN @ * 2 ELSE WaitMax]
Again(c) == pc' = [pc EXCEPT ![c] = "start"] /\ wait' = Longer(c)

(* the offer that comes first is requested; a refusal is none *)
OfferCame(c) ==
  /\ pc[c] = "offer"
  /\ \E m \in Replies(c, "offer"), k \in 0 .. wait[c] - 1:
       /\ time' = [time EXCEPT ![c] = @ + k]
       /\ IF m.type = "offer"
          THEN pc' = [pc EXCEPT ![c] = "ack"] /\ lease' = [lease EXCEPT ![c] = m.lease]
               /\ net' = net \cup {Msg("request", c, m.lease)} /\ UNCHANGED wait
          ELSE Again(c) /\ UNCHANGED <<lease, net>>
  /\ UNCHANGED <<xid, held>>

AckCame(c) ==
  /\ pc[c] = "ack"
  /\ \E m \in Replies(c, "ack"), k \in 0 .. wait[c] - 1:
       /\ time' = [time EXCEPT ![c] = @ + k]
       /\ IF m.type = "ack"
          THEN pc' = [pc EXCEPT ![c] = "done"] /\ lease' = [lease EXCEPT ![c] = m.lease] /\ UNCHANGED <<xid, wait>>
          ELSE Again(c) /\ xid' = NextXid(c) /\ UNCHANGED lease
  /\ UNCHANGED <<net, held>>

(* nothing came in time *)
TimedOut(c) ==
  /\ pc[c] \in {"offer", "ack"}
  /\ time' = [time EXCEPT ![c] = @ + wait[c]] /\ Again(c)
  /\ xid' = IF pc[c] = "ack" THEN NextXid(c) ELSE xid
  /\ UNCHANGED <<lease, net, held>>

Next ==
  \/ \E s \in Servers: Offer(s) \/ Give(s)
  \/ \E a \in Addrs: TakeBack(a)
  \/ \E c \in Clients: Discover(c) \/ OfferCame(c) \/ AckCame(c) \/ TimedOut(c)

Spec == Init /\ [][Next]_vars

-----------------------------------------------------------------------------
(* Two machines that got their addresses never have the same one: each has
   what its server gave to it, whatever was lost, late or repeated.
   (the xid and the address compared in parse)                             *)
OwnAddress ==
  \A c \in Clients: pc[c] = "done" => held[lease[c].addr] = [to |-> c, given |-> TRUE]

(* A machine has been given what it asked for in its last request, never what
   an earlier one was late answered with, while its transactions have ids of
   their own: the first 256. (xid[3]++ of main)                            *)
LastAsked(c) == \A m \in net: m.type = "request" /\ m.to = c /\ m.xid = xid[c] => m.lease = lease[c]
AckOfLast == \A c \in Clients: pc[c] = "done" /\ xid[c] < XidByte => LastAsked(c)
(* Not so: also later, when the byte has come round. *)
AckAlways == \A c \in Clients: pc[c] = "done" => LastAsked(c)

(* Not so: a machine that says no server answered holds no address. *)
FailedHasNone == \A c \in Clients: pc[c] = "failed" => \A a \in Addrs: held[a] # [to |-> c, given |-> TRUE]
=============================================================================
