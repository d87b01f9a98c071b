------------------------------- MODULE AtwVt -------------------------------
(***************************************************************************)
(* X servers on the one ATW800/2 (xserver-r6/hw/atw/atwVt.c): who is on    *)
(* show is agreed on with two kinds of files and SIGUSR2. Server n is a    *)
(* number; 0 is none. A server's own steps follow the code between two     *)
(* looks at something shared; its polls come again and again (200 ms).     *)
(*                                                                         *)
(* Process numbers are not used again and a number has one server at a     *)
(* time. A start that takes the card finds the keyboard (the server ends    *)
(* otherwise). Modes, colours, video memory and messages are left out.     *)
(*                                                                         *)
(* External: the users, the console's login, the kill that ends a server.  *)
(***************************************************************************)
EXTENDS Naturals, FiniteSets

CONSTANTS
  Last,       \* ATW_VT_MAX
  LendWait,   \* ATW_LEND_WAIT, in looks at the console
  MaxStarts,  \* bound: servers started
  MaxAsks,    \* bound: switch keys
  MaxLends,   \* bound: loans
  MaxKills,   \* bound: servers killed
  Hurried     \* whether servers may start and end while the card changes hands,
              \* and keys be pressed while one starts

VtAssumption == Last \in Nat /\ LendWait \in Nat

VARIABLES
  file,     \* /tmp/.atwvt
  pids,     \* the servers whose /tmp/.atwvtN names a process
  up,       \* processes
  pc,       \* where each server is
  to,       \* whom it gives the card to
  active, sig, want, prev, lend, lent, login, ticks,   \* as in atwVt.c
  ikbd,     \* servers with /dev/ikbd open
  deaf,     \* servers on show that could not open it
  user,     \* someone is logged in on the console
  bereft,   \* a kill left nobody to take the card
  starts, asks, lends, kills
vars == <<file, pids, up, pc, to, active, sig, want, prev, lend, lent, login, ticks, ikbd, deaf,
          user, bereft, starts, asks, lends, kills>>
Shared == <<file, pids, up>>
Flags == <<sig, want, prev, lend, lent, login, ticks>>
Keys == <<ikbd, deaf>>
Bounds == <<user, bereft, starts, asks, lends, kills>>

Server == 1 .. Last
Steps == {"off", "named", "looked", "set", "run", "give", "told", "free", "read", "keep", "unlink", "gone"}

TypeOK ==
  /\ file \in 0 .. Last /\ pids \subseteq Server /\ up \subseteq Server /\ active \subseteq up
  /\ pc \in [Server -> Steps] /\ to \in [Server -> 0 .. Last] /\ want \in [Server -> 0 .. Last]
  /\ prev \in [Server -> 0 .. Last] /\ sig \subseteq up /\ lend \subseteq up /\ lent \subseteq up /\ login \subseteq up
  /\ ticks \in [Server -> 0 .. LendWait] /\ user \in BOOLEAN /\ bereft \in BOOLEAN
  /\ \A s \in Server: pc[s] = "off" <=> s \notin up

Init ==
  /\ file = 0 /\ pids = {} /\ up = {} /\ pc = [s \in Server |-> "off"] /\ to = [s \in Server |-> 0]
  /\ active = {} /\ sig = {} /\ want = [s \in Server |-> 0] /\ prev = [s \in Server |-> 0]
  /\ lend = {} /\ lent = {} /\ login = {} /\ ticks = [s \in Server |-> 0] /\ ikbd = {} /\ deaf = {}
  /\ user = FALSE /\ bereft = FALSE /\ starts = 0 /\ asks = 0 /\ lends = 0 /\ kills = 0

(* atwVtAlive *)
Alive(n) == n \in pids \cap up
At(s, p) == pc' = [pc EXCEPT ![s] = p]
(* atwInputOn: the device may not open *)
InputOn(s) ==
  \/ ikbd' = ikbd \cup {s} /\ deaf' = deaf \ {s}
  \/ s \notin ikbd /\ ikbd' = ikbd /\ deaf' = deaf \cup {s}
(* kill(pid, SIGUSR2) *)
(* mutant: a server that is gone is told *)
SignalledGone(n) == sig' = sig \cup {n}
Signalled(n) == sig' = sig \cup ({n} \cap up)

-----------------------------------------------------------------------------
(* atwVtInit: the number, who is on show, the file, and the card or a signal *)

Changing == sig # {} \/ \E s \in up: pc[s] # "run" \/ want[s] # 0
Starting == \E s \in up: pc[s] \in {"named", "looked", "set"}
Start(s) ==
  /\ s \notin up /\ starts < MaxStarts /\ starts' = starts + 1 /\ (Hurried \/ ~Changing)
  /\ up' = up \cup {s} /\ pids' = pids \cup {s} /\ At(s, "named")
  /\ prev' = [prev EXCEPT ![s] = 0] /\ want' = [want EXCEPT ![s] = 0] /\ ticks' = [ticks EXCEPT ![s] = 0]
  /\ UNCHANGED <<file, to, active, sig, lend, lent, login, Keys, user, bereft, asks, lends, kills>>
Look(s) ==
  /\ pc[s] = "named" /\ At(s, "looked") /\ to' = [to EXCEPT ![s] = file]
  /\ UNCHANGED <<Shared, active, Flags, Keys, Bounds>>
Claim(s) ==
  /\ pc[s] = "looked" /\ At(s, "set") /\ file' = s
  /\ UNCHANGED <<pids, up, to, active, Flags, Keys, Bounds>>
(* mutant: takes the card as if nobody were on show *)
OthersNone(s) == FALSE
Others(s) == to[s] # s /\ Alive(to[s])
Begin(s) ==
  /\ pc[s] = "set" /\ At(s, "run")
  /\ IF Others(s)
     THEN /\ prev' = [prev EXCEPT ![s] = to[s]] /\ Signalled(to[s]) /\ UNCHANGED <<active, Keys, bereft>>
     ELSE /\ active' = active \cup {s} /\ ikbd' = ikbd \cup {s} /\ bereft' = FALSE
          /\ UNCHANGED <<prev, sig, deaf>>
  /\ UNCHANGED <<Shared, to, want, lend, lent, login, ticks, user, starts, asks, lends, kills>>

-----------------------------------------------------------------------------
(* The keys, with the keyboard ours (atwVtSwitch, atwVtConsole)            *)

Switch(s, n) ==
  /\ pc[s] = "run" /\ s \in ikbd /\ asks < MaxAsks /\ asks' = asks + 1 /\ (Hurried \/ ~Starting)
  /\ s \in active /\ n # s /\ Alive(n) /\ want' = [want EXCEPT ![s] = n]
  /\ UNCHANGED <<Shared, pc, to, active, sig, prev, lend, lent, login, ticks, Keys, user, bereft, starts, lends, kills>>
Console(s) ==
  /\ pc[s] = "run" /\ s \in ikbd /\ lends < MaxLends /\ lends' = lends + 1
  /\ s \in active /\ s \notin lent /\ lend' = lend \cup {s}
  /\ UNCHANGED <<Shared, pc, to, active, sig, want, prev, lent, login, ticks, Keys, user, bereft, starts, asks, kills>>

-----------------------------------------------------------------------------
(* atwVtGive: the file, our hands off the card, the signal                 *)

Gives(s, n) == IF Alive(n) THEN At(s, "give") /\ to' = [to EXCEPT ![s] = n] ELSE UNCHANGED <<pc, to>>
Give(s) ==
  /\ pc[s] = "give" /\ At(s, "told") /\ file' = to[s] /\ lent' = lent \ {s}
  /\ UNCHANGED <<pids, up, to, active, sig, want, prev, lend, login, ticks, Keys, Bounds>>
(* atwDeactivate *)
(* mutant: keeps the keyboard *)
LetGoKeeps(s) == ikbd
LetGo(s) == ikbd \ {s}
Deactivate(s) ==
  /\ pc[s] = "told" /\ At(s, "free") /\ active' = active \ {s} /\ ikbd' = LetGo(s) /\ deaf' = deaf \ {s}
  /\ UNCHANGED <<Shared, to, Flags, Bounds>>
(* mutant: the next one is not told *)
TellsNone(s) == UNCHANGED sig
Tells(s) == Signalled(to[s])
Tell(s) ==
  /\ pc[s] = "free" /\ At(s, IF s \in pids THEN "run" ELSE "gone") /\ Tells(s)
  /\ UNCHANGED <<Shared, to, active, want, prev, lend, lent, login, ticks, Keys, Bounds>>

-----------------------------------------------------------------------------
(* atwVtPoll, in its order: the switch key, the loan, a look at the loan, the signal *)

PollWant(s) ==
  /\ pc[s] = "run" /\ want[s] # 0 /\ want' = [want EXCEPT ![s] = 0]
  /\ IF s \in active THEN Gives(s, want[s]) ELSE UNCHANGED <<pc, to>>
  /\ UNCHANGED <<Shared, active, sig, prev, lend, lent, login, ticks, Keys, Bounds>>
(* atwVtLendInput *)
PollLend(s) ==
  /\ pc[s] = "run" /\ want[s] = 0 /\ s \in lend /\ lend' = lend \ {s}
  /\ IF s \in active /\ s \notin lent
     THEN /\ lent' = lent \cup {s} /\ ikbd' = ikbd \ {s} /\ deaf' = deaf \ {s}
          /\ ticks' = [ticks EXCEPT ![s] = 0]
          /\ login' = IF user THEN login \cup {s} ELSE login \ {s}
     ELSE UNCHANGED <<lent, Keys, ticks, login>>
  /\ UNCHANGED <<Shared, pc, to, active, sig, want, prev, Bounds>>
(* atwVtTakeInput *)
TakeInput(s) == lent' = lent \ {s} /\ IF s \in active THEN InputOn(s) ELSE UNCHANGED Keys
(* atwVtCheckLent: the marker; a login, a logout, the minute *)
PollMarker(s) ==
  /\ pc[s] = "run" /\ want[s] = 0 /\ s \notin lend /\ s \in lent /\ TakeInput(s)
  /\ UNCHANGED <<Shared, pc, to, active, sig, want, prev, lend, login, ticks, Bounds>>
(* mutant: the minute is not counted *)
TooLongNever(s) == FALSE
TooLong(s) == ticks[s] = LendWait
PollLent(s) ==
  /\ pc[s] = "run" /\ want[s] = 0 /\ s \notin lend /\ s \in lent
  /\ \/ user /\ login' = login \cup {s} /\ UNCHANGED <<lent, Keys, ticks>>
     \/ ~user /\ (s \in login \/ TooLong(s)) /\ TakeInput(s) /\ UNCHANGED <<login, ticks>>
     \/ ~user /\ s \notin login /\ ~TooLong(s)
        /\ ticks' = [ticks EXCEPT ![s] = IF @ < LendWait THEN @ + 1 ELSE @] /\ UNCHANGED <<lent, Keys, login>>
  /\ UNCHANGED <<Shared, pc, to, active, sig, want, prev, lend, Bounds>>
PollSignal(s) ==
  /\ pc[s] = "run" /\ want[s] = 0 /\ s \notin lend /\ s \in sig /\ sig' = sig \ {s} /\ At(s, "read")
  /\ UNCHANGED <<Shared, to, active, want, prev, lend, lent, login, ticks, Keys, Bounds>>
(* mutant: takes over whatever the file says *)
MineAny(s) == TRUE
Mine(s) == file = s
(* atwActivate, atwVtTakeInput, atwVtGive *)
PollRead(s) ==
  /\ pc[s] = "read"
  /\ IF Mine(s)
     THEN /\ At(s, "run") /\ active' = active \cup {s} /\ bereft' = FALSE /\ UNCHANGED to
          /\ IF s \notin active THEN InputOn(s) /\ UNCHANGED lent
             ELSE IF s \in lent THEN TakeInput(s) ELSE UNCHANGED <<Keys, lent>>
     ELSE /\ UNCHANGED <<active, Keys, lent, bereft>>
          /\ IF s \notin active THEN At(s, "run") /\ UNCHANGED to
             ELSE /\ pc' = [pc EXCEPT ![s] = IF Alive(file) THEN "give" ELSE "keep"]
                  /\ to' = [to EXCEPT ![s] = file]
  /\ UNCHANGED <<Shared, sig, want, prev, lend, login, ticks, user, starts, asks, lends, kills>>
Keep(s) ==
  /\ pc[s] = "keep" /\ At(s, "run") /\ file' = s
  /\ UNCHANGED <<pids, up, to, active, Flags, Keys, Bounds>>

-----------------------------------------------------------------------------
(* atwVtExit: its number, who else is there, and the card or the file; then the
   process is gone. A kill ends it anywhere, and nobody hands the card on   *)

Heirs(s) == {n \in Server \ {s}: Alive(n)}
Exit(s) ==
  /\ pc[s] = "run" /\ (Hurried \/ ~Changing) /\ pids' = pids \ {s}
  /\ IF s \notin active THEN At(s, "gone") /\ UNCHANGED to
     ELSE IF Alive(prev[s]) THEN At(s, "give") /\ to' = [to EXCEPT ![s] = prev[s]]
     ELSE IF Heirs(s) # {} THEN At(s, "give") /\ to' = [to EXCEPT ![s] = CHOOSE n \in Heirs(s): \A m \in Heirs(s): n <= m]
     ELSE At(s, "unlink") /\ UNCHANGED to
  /\ UNCHANGED <<file, up, active, Flags, Keys, Bounds>>
Unlink(s) ==
  /\ pc[s] = "unlink" /\ At(s, "gone") /\ file' = 0
  /\ UNCHANGED <<pids, up, to, active, Flags, Keys, Bounds>>
Ends(s) ==
  /\ up' = up \ {s} /\ active' = active \ {s} /\ ikbd' = ikbd \ {s} /\ deaf' = deaf \ {s} /\ sig' = sig \ {s}
  /\ lend' = lend \ {s} /\ lent' = lent \ {s} /\ login' = login \ {s} /\ At(s, "off")
  /\ want' = [want EXCEPT ![s] = 0] /\ ticks' = [ticks EXCEPT ![s] = 0] /\ to' = [to EXCEPT ![s] = 0]
  /\ UNCHANGED <<file, pids, prev, user, starts, asks, lends>>
Gone(s) == pc[s] = "gone" /\ Ends(s) /\ UNCHANGED <<bereft, kills>>
(* The one on show; one that was to tell the next; the next one *)
Giving(s) == \E x \in up: pc[x] \in {"give", "told", "free"} /\ s \in {x, to[x]}
Awaited(s) == s \in active \/ Giving(s) \/ (active = {} /\ file = s)
Killed(s) ==
  /\ s \in up /\ (Hurried \/ ~Starting) /\ kills < MaxKills /\ kills' = kills + 1 /\ Ends(s)
  /\ bereft' = (bereft \/ Awaited(s))

ConsoleUser == user' = ~user /\ UNCHANGED <<Shared, pc, to, active, Flags, Keys, bereft, starts, asks, lends, kills>>

Own(s) ==
  \/ Look(s) \/ Claim(s) \/ Begin(s) \/ Give(s) \/ Deactivate(s) \/ Tell(s) \/ PollWant(s) \/ PollLend(s)
  \/ PollLent(s) \/ PollSignal(s) \/ PollRead(s) \/ Keep(s) \/ Unlink(s) \/ Gone(s)
Next ==
  \/ \E s \in Server: Start(s) \/ Look(s) \/ Claim(s) \/ Begin(s) \/ (\E n \in Server: Switch(s, n)) \/ Console(s)
  \/ \E s \in Server: Give(s) \/ Deactivate(s) \/ Tell(s) \/ PollWant(s) \/ PollLend(s) \/ PollMarker(s) \/ PollLent(s)
  \/ \E s \in Server: PollSignal(s) \/ PollRead(s) \/ Keep(s) \/ Exit(s) \/ Unlink(s) \/ Gone(s) \/ Killed(s)
  \/ ConsoleUser

Spec == Init /\ [][Next]_vars
(* A server's block handler runs again within 200 ms, whatever the clients do; nobody
   has to touch the marker *)
FairSpec == Spec /\ \A s \in Server: WF_vars(Own(s))

-----------------------------------------------------------------------------
(* One server at most works the card's registers, besides one that is letting go:
   it writes the other's number first, and a signal from before may have the other
   look at once. (atwVtInit, atwVtGive, atwVtPoll)                         *)
OneWorks == Cardinality({s \in active: pc[s] \notin {"give", "told"}}) <= 1
(* An active server has the keyboard unless it is lent or did not open, and no other
   has it. (atwVtLendInput, atwVtTakeInput, atwInputOn)                    *)
KeyboardOwn == /\ ikbd \subseteq active /\ ikbd \cap (lent \cup deaf) = {}
               /\ \A s \in active: s \in ikbd \/ s \in lent \/ s \in deaf \/ pc[s] = "told"
(* Both *)
OneShown == OneWorks /\ KeyboardOwn

(* While servers run, one of them is on show, or will be, unless a kill took the one
   on show, or one of the two while the card went from one to the other: nobody else
   then knows that nobody is. (atwVtGive, atwVtPoll)                       *)
Waits == up # {} /\ active = {} /\ ~bereft
Someone == Waits ~> ~Waits

(* A loan ends, unless someone logs in on the console again and again. (atwVtCheckLent) *)
Lent(s) == s \in lent
LoanEnds == \A s \in Server: Lent(s) ~> (~Lent(s) \/ user)

(* Both *)
Settles == Someone /\ LoanEnds

(* Not so, after a kill: a killed server runs no atwVtExit *)
SomeoneAlways == (up # {} /\ active = {}) ~> ~(up # {} /\ active = {})

(* Not so: Someone of servers that start while the card changes hands (Hurried TRUE):
   the one that was given it reads the new one's number, and is not on show *)
=============================================================================
