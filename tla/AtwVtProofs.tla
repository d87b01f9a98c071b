---------------------------- MODULE AtwVtProofs ----------------------------
(***************************************************************************)
(* AtwVt: servers that start and end while the card is not changing hands  *)
(* never both work it, however switches, loans, signals and kills fall     *)
(* together; the keyboard is always with the one on show.                  *)
(***************************************************************************)
EXTENDS AtwVt, FiniteSetTheorems, WellFoundedInduction, TLAPS

Starters == {"named", "looked", "set"}

(* TypeOK in three parts *)
Numbers ==
  /\ file \in 0 .. Last /\ pc \in [Server -> Steps] /\ to \in [Server -> 0 .. Last] /\ want \in [Server -> 0 .. Last]
  /\ prev \in [Server -> 0 .. Last] /\ ticks \in [Server -> 0 .. LendWait]
Processes ==
  /\ pids \subseteq Server /\ up \subseteq Server /\ active \subseteq up /\ sig \subseteq up /\ lend \subseteq up
  /\ lent \subseteq up /\ login \subseteq up /\ user \in BOOLEAN /\ bereft \in BOOLEAN
OffDown == \A s \in Server: pc[s] = "off" <=> s \notin up

(* What each pc says of its server *)
Phases == \A s \in Server:
  /\ pc[s] \in {"give", "told", "keep", "unlink"} => s \in active
  /\ pc[s] = "free" => s \notin active
  /\ pc[s] \in Starters => s \notin active /\ s \in pids
  /\ pc[s] \in {"run", "read", "keep"} => s \in pids
Keyboard == KeyboardOwn /\ lent \subseteq active /\ deaf \subseteq active /\ \A s \in lent: pc[s] # "told"
Local == TypeOK /\ Phases /\ Keyboard

(* While one starts nobody else does anything about the card *)
Calm == \A n \in Server: pc[n] \in Starters =>
  /\ sig = {} /\ \A x \in Server: x # n => pc[x] \in {"run", "off"}
  /\ \A x \in up: want[x] = 0
Looked == \A n \in Server: (pc[n] = "looked" => to[n] = file) /\ (pc[n] = "set" => file = n)

(* The one that works the card or is about to give it *)
Holds(a) == a \in active /\ pc[a] # "told"
OneHolds == \A a, b \in Server: Holds(a) /\ Holds(b) => a = b
(* No signal is under way to the server the file names *)
Untold(s) ==
  /\ s \notin sig /\ pc[s] # "read"
  /\ \A x \in Server: pc[x] \in {"told", "free"} => to[x] # s
Unseen == \A a, s \in Server: Holds(a) /\ s = file /\ s # a => Untold(s)
Shown == \A a \in active: pc[a] = "run" => file = a \/ a \in sig \/ \E n \in Server: pc[n] = "set" /\ to[n] = a
Hand == Calm /\ Looked /\ OneHolds /\ Unseen /\ Shown
Inv == Local /\ Hand

-----------------------------------------------------------------------------
LEMMA Smallest ==
  ASSUME NEW S, S \subseteq Nat, S # {}
  PROVE \E x \in S: \A y \in S: x <= y
<1> DEFINE R == {ss \in Nat \X Nat: ss[1] < ss[2]}
<1>1. IsWellFoundedOn(R, Nat)
  BY NatLessThanWellFounded DEF OpToRel
<1>2. \A x, y \in Nat: y < x => <<y, x>> \in R
  OBVIOUS
<1> HIDE DEF R
<1>3. \E x \in S: \A y \in S: ~(<<y, x>> \in R)
  BY <1>1, WFMin
<1>4. \A x, y \in S: ~(y < x) => x <= y
  OBVIOUS
<1> QED BY <1>2, <1>3, <1>4

LEMMA Chosen ==
  ASSUME NEW S, S \subseteq Nat, S # {}
  PROVE (CHOOSE n \in S: \A m \in S: n <= m) \in S
BY Smallest

-----------------------------------------------------------------------------
(* Types, phases and the keyboard are kept by every step *)

LEMMA StartLocal ==
  ASSUME VtAssumption, Local, NEW s \in Server, Start(s)
  PROVE Local'
<1> USE DEF Local, Start, Keys, At
<1>1. TypeOK'
  <2>1. Numbers'
    BY SMTT(40) DEF VtAssumption, TypeOK, Server, Steps, Numbers
  <2>2. Processes'
    BY DEF TypeOK, Server, Processes
  <2>3. OffDown'
    BY DEF TypeOK, OffDown
  <2> QED BY <2>1, <2>2, <2>3 DEF TypeOK, Numbers, Processes, OffDown
<1>2. Phases'
  BY DEF TypeOK, Phases, Starters
<1>3. Keyboard'
  BY DEF TypeOK, Phases, Starters, Keyboard, KeyboardOwn
<1> QED BY <1>1, <1>2, <1>3

LEMMA LookLocal ==
  ASSUME VtAssumption, Local, NEW s \in Server, Look(s)
  PROVE Local'
<1> USE DEF Local, Look, Keys, At, Shared, Flags, Bounds
<1>1. TypeOK'
  BY DEF VtAssumption, TypeOK, Server, Steps
<1>2. Phases'
  BY DEF TypeOK, Phases, Starters
<1>3. Keyboard'
  BY DEF TypeOK, Phases, Starters, Keyboard, KeyboardOwn
<1> QED BY <1>1, <1>2, <1>3

LEMMA ClaimLocal ==
  ASSUME VtAssumption, Local, NEW s \in Server, Claim(s)
  PROVE Local'
<1> USE DEF Local, Claim, Keys, At, Flags, Bounds
<1>1. TypeOK'
  <2>1. Numbers'
    BY DEF VtAssumption, TypeOK, Server, Steps, Numbers
  <2>2. Processes'
    BY DEF TypeOK, Processes
  <2>3. OffDown'
    BY DEF TypeOK, OffDown
  <2> QED BY <2>1, <2>2, <2>3 DEF TypeOK, Numbers, Processes, OffDown
<1>2. Phases'
  BY DEF TypeOK, Phases, Starters
<1>3. Keyboard'
  BY DEF TypeOK, Phases, Starters, Keyboard, KeyboardOwn
<1> QED BY <1>1, <1>2, <1>3

LEMMA BeginLocal ==
  ASSUME VtAssumption, Local, NEW s \in Server, Begin(s)
  PROVE Local'
<1> USE DEF Local, Begin, Keys, At, Others, Alive, Signalled, Shared, Bounds
<1>1. TypeOK'
  <2>1. file' \in 0 .. Last /\ pc' \in [Server -> Steps]
    BY DEF TypeOK, Steps
  <2>2. to' \in [Server -> 0 .. Last]
    BY DEF TypeOK, Server
  <2>3. want' \in [Server -> 0 .. Last]
    BY DEF VtAssumption, TypeOK
  <2>4. prev' \in [Server -> 0 .. Last]
    BY DEF TypeOK
  <2>5. ticks' \in [Server -> 0 .. LendWait]
    BY DEF VtAssumption, TypeOK
  <2>6. Processes'
    BY DEF TypeOK, Server, Processes
  <2>7. OffDown'
    BY DEF TypeOK, OffDown
  <2> QED BY <2>1, <2>2, <2>3, <2>4, <2>5, <2>6, <2>7 DEF TypeOK, Processes, OffDown
<1>2. Phases'
  BY DEF TypeOK, Phases, Starters
<1>3. Keyboard'
  BY DEF TypeOK, Phases, Starters, Keyboard, KeyboardOwn
<1> QED BY <1>1, <1>2, <1>3

LEMMA ConsoleLocal ==
  ASSUME VtAssumption, Local, NEW s \in Server, Console(s)
  PROVE Local'
<1> USE DEF Local, Console, Keys, Shared
<1>1. TypeOK'
  BY DEF VtAssumption, TypeOK, Server, Steps
<1>2. Phases'
  BY DEF TypeOK, Phases, Starters
<1>3. Keyboard'
  BY DEF TypeOK, Phases, Starters, Keyboard, KeyboardOwn
<1> QED BY <1>1, <1>2, <1>3

LEMMA GiveLocal ==
  ASSUME VtAssumption, Local, NEW s \in Server, Give(s)
  PROVE Local'
<1> USE DEF Local, Give, Keys, At, Bounds
<1>1. TypeOK'
  BY DEF VtAssumption, TypeOK, Server, Steps
<1>2. Phases'
  BY DEF TypeOK, Phases, Starters
<1>3. Keyboard'
  BY DEF TypeOK, Phases, Starters, Keyboard, KeyboardOwn
<1> QED BY <1>1, <1>2, <1>3

LEMMA DeactivateLocal ==
  ASSUME VtAssumption, Local, NEW s \in Server, Deactivate(s)
  PROVE Local'
<1> USE DEF Local, Deactivate, Keys, At, LetGo, Shared, Flags, Bounds
<1>1. TypeOK'
  BY DEF VtAssumption, TypeOK, Server, Steps
<1>2. Phases'
  BY DEF TypeOK, Phases, Starters
<1>3. Keyboard'
  BY DEF TypeOK, Phases, Starters, Keyboard, KeyboardOwn
<1> QED BY <1>1, <1>2, <1>3

LEMMA TellLocal ==
  ASSUME VtAssumption, Local, NEW s \in Server, Tell(s)
  PROVE Local'
<1> USE DEF Local, Tell, Tells, Keys, At, Signalled, Shared, Bounds
<1>1. TypeOK'
  BY DEF VtAssumption, TypeOK, Server, Steps
<1>2. Phases'
  BY DEF TypeOK, Phases, Starters
<1>3. Keyboard'
  BY DEF TypeOK, Phases, Starters, Keyboard, KeyboardOwn
<1> QED BY <1>1, <1>2, <1>3

LEMMA PollWantLocal ==
  ASSUME VtAssumption, Local, NEW s \in Server, PollWant(s)
  PROVE Local'
<1> USE DEF Local, PollWant, Keys, Gives, Alive, At, Shared, Bounds
<1>1. TypeOK'
  <2>1. file' \in 0 .. Last /\ pc' \in [Server -> Steps]
    BY DEF TypeOK, Steps
  <2>2. to' \in [Server -> 0 .. Last]
    BY DEF TypeOK, Server
  <2>3. want' \in [Server -> 0 .. Last]
    BY DEF VtAssumption, TypeOK
  <2>4. prev' \in [Server -> 0 .. Last]
    BY DEF TypeOK
  <2>5. ticks' \in [Server -> 0 .. LendWait]
    BY DEF VtAssumption, TypeOK
  <2>6. Processes'
    BY DEF TypeOK, Server, Processes
  <2>7. OffDown'
    BY DEF TypeOK, OffDown
  <2> QED BY <2>1, <2>2, <2>3, <2>4, <2>5, <2>6, <2>7 DEF TypeOK, Processes, OffDown
<1>2. Phases'
  BY DEF TypeOK, Phases, Starters
<1>3. Keyboard'
  BY DEF TypeOK, Phases, Starters, Keyboard, KeyboardOwn
<1> QED BY <1>1, <1>2, <1>3

LEMMA PollLendLocal ==
  ASSUME VtAssumption, Local, NEW s \in Server, PollLend(s)
  PROVE Local'
<1> USE DEF Local, PollLend, Keys, Shared, Bounds
<1>1. TypeOK'
  <2>1. file' \in 0 .. Last /\ pc' \in [Server -> Steps]
    BY DEF TypeOK, Steps
  <2>2. to' \in [Server -> 0 .. Last]
    BY DEF TypeOK, Server
  <2>3. want' \in [Server -> 0 .. Last]
    BY DEF VtAssumption, TypeOK
  <2>4. prev' \in [Server -> 0 .. Last]
    BY DEF TypeOK
  <2>5. ticks' \in [Server -> 0 .. LendWait]
    BY DEF VtAssumption, TypeOK
  <2>6. Processes'
    <3>1. s \in active => s \in up
      BY DEF TypeOK
    <3>2. lent' \subseteq up /\ lend' \subseteq up /\ login' \subseteq up
      BY <3>1 DEF TypeOK
    <3> QED BY <3>2 DEF TypeOK, Processes
  <2>7. OffDown'
    BY DEF TypeOK, OffDown
  <2> QED BY <2>1, <2>2, <2>3, <2>4, <2>5, <2>6, <2>7 DEF TypeOK, Processes, OffDown
<1>2. Phases'
  BY DEF TypeOK, Phases, Starters
<1>3. Keyboard'
  BY DEF TypeOK, Phases, Starters, Keyboard, KeyboardOwn
<1> QED BY <1>1, <1>2, <1>3

LEMMA PollMarkerLocal ==
  ASSUME VtAssumption, Local, NEW s \in Server, PollMarker(s)
  PROVE Local'
<1> USE DEF Local, PollMarker, Keys, TakeInput, InputOn, Shared, Bounds
<1>1. TypeOK'
  BY DEF VtAssumption, TypeOK, Server, Steps
<1>2. Phases'
  BY DEF TypeOK, Phases, Starters
<1>3. Keyboard'
  BY DEF TypeOK, Phases, Starters, Keyboard, KeyboardOwn
<1> QED BY <1>1, <1>2, <1>3

LEMMA PollLentLocal ==
  ASSUME VtAssumption, Local, NEW s \in Server, PollLent(s)
  PROVE Local'
<1> USE DEF Local, PollLent, Keys, TakeInput, InputOn, TooLong, Shared, Bounds
<1>1. TypeOK'
  <2>1. file' \in 0 .. Last /\ pc' \in [Server -> Steps]
    BY DEF TypeOK, Steps
  <2>2. to' \in [Server -> 0 .. Last]
    BY DEF TypeOK, Server
  <2>3. want' \in [Server -> 0 .. Last]
    BY DEF VtAssumption, TypeOK
  <2>4. prev' \in [Server -> 0 .. Last]
    BY DEF TypeOK
  <2>5. ticks' \in [Server -> 0 .. LendWait]
    BY DEF VtAssumption, TypeOK
  <2>6. Processes'
    BY DEF TypeOK, Server, Processes
  <2>7. OffDown'
    BY DEF TypeOK, OffDown
  <2> QED BY <2>1, <2>2, <2>3, <2>4, <2>5, <2>6, <2>7 DEF TypeOK, Processes, OffDown
<1>2. Phases'
  BY DEF TypeOK, Phases, Starters
<1>3. Keyboard'
  BY DEF TypeOK, Phases, Starters, Keyboard, KeyboardOwn
<1> QED BY <1>1, <1>2, <1>3

LEMMA PollSignalLocal ==
  ASSUME VtAssumption, Local, NEW s \in Server, PollSignal(s)
  PROVE Local'
<1> USE DEF Local, PollSignal, Keys, At, Shared, Bounds
<1>1. TypeOK'
  BY DEF VtAssumption, TypeOK, Server, Steps
<1>2. Phases'
  BY DEF TypeOK, Phases, Starters
<1>3. Keyboard'
  BY DEF TypeOK, Phases, Starters, Keyboard, KeyboardOwn
<1> QED BY <1>1, <1>2, <1>3

LEMMA PollReadLocal ==
  ASSUME VtAssumption, Local, NEW s \in Server, PollRead(s)
  PROVE Local'
<1> USE DEF Local, PollRead, Keys, At, Mine, Alive, TakeInput, InputOn, Shared, Bounds
<1>1. TypeOK'
  <2>1. Numbers'
    <3>1. file' \in 0 .. Last /\ UNCHANGED <<want, prev, ticks>>
      BY DEF TypeOK
    <3>2. to' \in [Server -> 0 .. Last]
      BY <3>1 DEF TypeOK
    <3>3. pc' \in [Server -> Steps]
      BY DEF TypeOK, Steps
    <3> QED BY <3>1, <3>2, <3>3 DEF TypeOK, Numbers
  <2>2. Processes'
    BY DEF TypeOK, Processes
  <2>3. OffDown'
    BY DEF TypeOK, OffDown
  <2> QED BY <2>1, <2>2, <2>3 DEF TypeOK, Numbers, Processes, OffDown
<1>2. Phases'
  BY DEF TypeOK, Phases, Starters
<1>3. Keyboard'
  BY DEF TypeOK, Phases, Starters, Keyboard, KeyboardOwn
<1> QED BY <1>1, <1>2, <1>3

LEMMA KeepLocal ==
  ASSUME VtAssumption, Local, NEW s \in Server, Keep(s)
  PROVE Local'
<1> USE DEF Local, Keep, Keys, At, Flags, Bounds
<1>1. TypeOK'
  <2>1. Numbers'
    BY DEF VtAssumption, TypeOK, Server, Steps, Numbers
  <2>2. Processes'
    BY DEF TypeOK, Processes
  <2>3. OffDown'
    BY DEF TypeOK, OffDown
  <2> QED BY <2>1, <2>2, <2>3 DEF TypeOK, Numbers, Processes, OffDown
<1>2. Phases'
  BY DEF TypeOK, Phases, Starters
<1>3. Keyboard'
  BY DEF TypeOK, Phases, Starters, Keyboard, KeyboardOwn
<1> QED BY <1>1, <1>2, <1>3

LEMMA EndsNumbers ==
  ASSUME VtAssumption, TypeOK, NEW s \in Server, Ends(s)
  PROVE Numbers'
<1> USE DEF Ends
<1>1. file' \in 0 .. Last /\ prev' \in [Server -> 0 .. Last]
  BY DEF TypeOK
<1>2. pc' \in [Server -> Steps]
  BY DEF TypeOK, At, Steps
<1>3. 0 \in 0 .. Last /\ 0 \in 0 .. LendWait
  BY DEF VtAssumption
<1>4. to' \in [Server -> 0 .. Last] /\ want' \in [Server -> 0 .. Last]
  BY <1>3 DEF TypeOK
<1>5. ticks' \in [Server -> 0 .. LendWait]
  BY <1>3 DEF TypeOK
<1> QED BY <1>1, <1>2, <1>4, <1>5 DEF Numbers

LEMMA GoneLocal ==
  ASSUME VtAssumption, Local, NEW s \in Server, Gone(s)
  PROVE Local'
<1> USE DEF Local, Gone, Keys, Ends, At
<1>1. TypeOK'
  <2>1. Numbers'
    BY EndsNumbers
  <2>2. Processes'
    BY DEF TypeOK, Server, Processes
  <2>3. OffDown'
    BY DEF TypeOK, OffDown
  <2> QED BY <2>1, <2>2, <2>3 DEF TypeOK, Numbers, Processes, OffDown
<1>2. Phases'
  BY DEF TypeOK, Phases, Starters
<1>3. Keyboard'
  BY DEF TypeOK, Phases, Starters, Keyboard, KeyboardOwn
<1> QED BY <1>1, <1>2, <1>3

LEMMA KilledLocal ==
  ASSUME VtAssumption, Local, NEW s \in Server, Killed(s)
  PROVE Local'
<1> USE DEF Local, Killed, Keys, Ends, At
<1>1. TypeOK'
  <2>1. Numbers'
    BY EndsNumbers
  <2>2. Processes'
    BY DEF TypeOK, Server, Processes
  <2>3. OffDown'
    BY DEF TypeOK, OffDown
  <2> QED BY <2>1, <2>2, <2>3 DEF TypeOK, Numbers, Processes, OffDown
<1>2. Phases'
  BY DEF TypeOK, Phases, Starters
<1>3. Keyboard'
  BY DEF TypeOK, Phases, Starters, Keyboard, KeyboardOwn
<1> QED BY <1>1, <1>2, <1>3

LEMMA SwitchLocal ==
  ASSUME VtAssumption, Local, NEW s \in Server, NEW n \in Server, Switch(s, n)
  PROVE Local'
<1> USE DEF Local, Switch, Keys, Shared
<1>1. TypeOK'
  <2>1. want' \in [Server -> 0 .. Last]
    BY DEF TypeOK, Server
  <2> QED BY <2>1 DEF TypeOK
<1>2. Phases'
  BY DEF TypeOK, Phases, Starters
<1>3. Keyboard'
  BY DEF TypeOK, Keyboard, KeyboardOwn
<1> QED BY <1>1, <1>2, <1>3

LEMMA ExitLocal ==
  ASSUME VtAssumption, Local, NEW s \in Server, Exit(s)
  PROVE Local'
<1> DEFINE O == Heirs(s)
           least == CHOOSE n \in O: \A m \in O: n <= m
<1>1. \/ to' = to
      \/ Alive(prev[s]) /\ to' = [to EXCEPT ![s] = prev[s]]
      \/ O # {} /\ to' = [to EXCEPT ![s] = least]
  BY Zenon DEF Exit
<1>2. O # {} => least \in Server
  <2>1. O \subseteq Nat /\ O \subseteq Server
    BY DEF Server, Heirs
  <2> QED BY <2>1, Chosen
<1> HIDE DEF least
<1> USE DEF Local, Exit, Keys, At, Alive, Flags, Bounds
<1>3. TypeOK'
  <2>1. file' \in 0 .. Last /\ pc' \in [Server -> Steps]
    BY DEF TypeOK, Steps, VtAssumption
  <2>2. to' \in [Server -> 0 .. Last]
    <3> HIDE DEF Exit
    <3>1. Alive(prev[s]) => prev[s] \in Server
      BY DEF TypeOK
    <3> HIDE DEF O, Alive
    <3>2. to' = to \/ \E n \in Server: to' = [to EXCEPT ![s] = n]
      BY <1>1, <1>2, <3>1
    <3> QED BY <3>2 DEF TypeOK, Server
  <2>3. Processes'
    BY DEF TypeOK, Server, Processes
  <2>4. OffDown'
    BY DEF TypeOK, OffDown
  <2> QED BY <2>1, <2>2, <2>3, <2>4 DEF TypeOK, Processes, OffDown
<1>4. Phases'
  BY DEF TypeOK, Phases, Starters
<1>5. Keyboard'
  BY DEF TypeOK, Phases, Keyboard, KeyboardOwn
<1> QED BY <1>3, <1>4, <1>5

LEMMA UnlinkLocal ==
  ASSUME VtAssumption, Local, NEW s \in Server, Unlink(s)
  PROVE Local'
<1> USE DEF Local, Unlink, Keys, At, Flags, Bounds
<1>1. TypeOK'
  <2>1. Numbers'
    BY DEF VtAssumption, TypeOK, Server, Steps, Numbers
  <2>2. Processes'
    BY DEF TypeOK, Processes
  <2>3. OffDown'
    BY DEF TypeOK, OffDown
  <2> QED BY <2>1, <2>2, <2>3 DEF TypeOK, Numbers, Processes, OffDown
<1>2. Phases'
  BY DEF TypeOK, Phases, Starters
<1>3. Keyboard'
  BY DEF TypeOK, Phases, Starters, Keyboard, KeyboardOwn
<1> QED BY <1>1, <1>2, <1>3

LEMMA UserLocal ==
  ASSUME Local, ConsoleUser
  PROVE Local'
BY DEF Local, TypeOK, Phases, Keyboard, KeyboardOwn, ConsoleUser, Shared, Flags, Keys

LEMMA LocalStays ==
  ASSUME Local, UNCHANGED vars
  PROVE Local'
BY DEF Local, TypeOK, Phases, Keyboard, KeyboardOwn, vars

-----------------------------------------------------------------------------
(* One server at most holds the card: every step keeps it, with no hurry *)

LEMMA StartHand ==
  ASSUME VtAssumption, ~Hurried, Inv, NEW s \in Server, Start(s)
  PROVE Hand'
<1> USE DEF Inv, Local, Hand, TypeOK, Start, Keys, At, Changing
<1>1. Calm'
  BY DEF Calm, Starters
<1>2. Looked'
  BY DEF Calm, Starters, Looked
<1>3. OneHolds'
  BY DEF OneHolds, Holds, Phases, Shown, Calm, Starters, Looked, Unseen, Untold
<1>4. Unseen'
  BY DEF OneHolds, Holds, Phases, Calm, Starters, Looked, Unseen, Untold, Server
<1>5. Shown'
  BY DEF OneHolds, Holds, Phases, Calm, Starters, Looked, Unseen, Shown
<1> QED BY <1>1, <1>2, <1>3, <1>4, <1>5

LEMMA LookHand ==
  ASSUME VtAssumption, ~Hurried, Inv, NEW s \in Server, Look(s)
  PROVE Hand'
<1> USE DEF Inv, Local, Hand, TypeOK, Look, Keys, At, Shared, Flags, Bounds
<1>1. Calm'
  BY DEF Calm, Starters
<1>2. Looked'
  BY DEF Calm, Starters, Looked
<1>3. OneHolds'
  BY DEF OneHolds, Holds, Phases, Shown, Calm, Starters, Looked, Unseen, Untold
<1>4. Unseen'
  BY DEF OneHolds, Holds, Phases, Calm, Starters, Looked, Unseen, Untold, Server
<1>5. Shown'
  BY DEF OneHolds, Holds, Phases, Calm, Starters, Looked, Unseen, Shown
<1> QED BY <1>1, <1>2, <1>3, <1>4, <1>5

LEMMA ClaimHand ==
  ASSUME VtAssumption, ~Hurried, Inv, NEW s \in Server, Claim(s)
  PROVE Hand'
<1> USE DEF Inv, Local, Hand, TypeOK, Claim, Keys, At, Flags, Bounds
<1>1. Calm'
  BY DEF Calm, Starters
<1>2. Looked'
  BY DEF Calm, Starters, Looked
<1>3. OneHolds'
  BY DEF OneHolds, Holds, Phases, Shown, Calm, Starters, Looked, Unseen, Untold
<1>4. Unseen'
  BY DEF OneHolds, Holds, Phases, Calm, Starters, Looked, Unseen, Untold, Server
<1>5. Shown'
  BY DEF OneHolds, Holds, Phases, Calm, Starters, Looked, Unseen, Shown
<1> QED BY <1>1, <1>2, <1>3, <1>4, <1>5

LEMMA BeginHand ==
  ASSUME VtAssumption, ~Hurried, Inv, NEW s \in Server, Begin(s)
  PROVE Hand'
<1> USE DEF Inv, Local, Hand, TypeOK, Begin, Keys, At, Others, Alive, Signalled, Shared, Bounds
<1>1. Calm'
  BY DEF Calm, Starters
<1>2. Looked'
  BY DEF Calm, Starters, Looked
<1>3. OneHolds'
  BY DEF OneHolds, Holds, Phases, Shown, Calm, Starters, Looked, Unseen, Untold
<1>4. Unseen'
  BY DEF OneHolds, Holds, Phases, Calm, Starters, Looked, Unseen, Untold, Server
<1>5. Shown'
  BY DEF OneHolds, Holds, Phases, Calm, Starters, Looked, Unseen, Shown
<1> QED BY <1>1, <1>2, <1>3, <1>4, <1>5

LEMMA ConsoleHand ==
  ASSUME VtAssumption, ~Hurried, Inv, NEW s \in Server, Console(s)
  PROVE Hand'
<1> USE DEF Inv, Local, Hand, TypeOK, Console, Keys, Shared
<1>1. Calm'
  BY DEF Calm, Starters
<1>2. Looked'
  BY DEF Calm, Starters, Looked
<1>3. OneHolds'
  BY DEF OneHolds, Holds, Phases, Shown, Calm, Starters, Looked, Unseen, Untold
<1>4. Unseen'
  BY DEF OneHolds, Holds, Phases, Calm, Starters, Looked, Unseen, Untold, Server
<1>5. Shown'
  BY DEF OneHolds, Holds, Phases, Calm, Starters, Looked, Unseen, Shown
<1> QED BY <1>1, <1>2, <1>3, <1>4, <1>5

LEMMA GiveHand ==
  ASSUME VtAssumption, ~Hurried, Inv, NEW s \in Server, Give(s)
  PROVE Hand'
<1> USE DEF Inv, Local, Hand, TypeOK, Give, Keys, At, Bounds
<1>1. Calm'
  BY DEF Calm, Starters
<1>2. Looked'
  BY DEF Calm, Starters, Looked
<1>3. OneHolds'
  BY DEF OneHolds, Holds, Phases, Shown, Calm, Starters, Looked, Unseen, Untold
<1>4. Unseen'
  BY DEF OneHolds, Holds, Phases, Calm, Starters, Looked, Unseen, Untold, Server
<1>5. Shown'
  BY DEF OneHolds, Holds, Phases, Calm, Starters, Looked, Unseen, Shown
<1> QED BY <1>1, <1>2, <1>3, <1>4, <1>5

LEMMA DeactivateHand ==
  ASSUME VtAssumption, ~Hurried, Inv, NEW s \in Server, Deactivate(s)
  PROVE Hand'
<1> USE DEF Inv, Local, Hand, TypeOK, Deactivate, Keys, At, LetGo, Shared, Flags, Bounds
<1>1. Calm'
  BY DEF Calm, Starters
<1>2. Looked'
  BY DEF Calm, Starters, Looked
<1>3. OneHolds'
  BY DEF OneHolds, Holds, Phases, Shown, Calm, Starters, Looked, Unseen, Untold
<1>4. Unseen'
  BY DEF OneHolds, Holds, Phases, Calm, Starters, Looked, Unseen, Untold, Server
<1>5. Shown'
  BY DEF OneHolds, Holds, Phases, Calm, Starters, Looked, Unseen, Shown
<1> QED BY <1>1, <1>2, <1>3, <1>4, <1>5

LEMMA TellHand ==
  ASSUME VtAssumption, ~Hurried, Inv, NEW s \in Server, Tell(s)
  PROVE Hand'
<1> USE DEF Inv, Local, Hand, TypeOK, Tell, Tells, Keys, At, Signalled, Shared, Bounds
<1>1. Calm'
  BY DEF Calm, Starters
<1>2. Looked'
  BY DEF Calm, Starters, Looked
<1>3. OneHolds'
  BY DEF OneHolds, Holds, Phases, Shown, Calm, Starters, Looked, Unseen, Untold
<1>4. Unseen'
  BY DEF OneHolds, Holds, Phases, Calm, Starters, Looked, Unseen, Untold, Server
<1>5. Shown'
  BY DEF OneHolds, Holds, Phases, Calm, Starters, Looked, Unseen, Shown
<1> QED BY <1>1, <1>2, <1>3, <1>4, <1>5

LEMMA PollWantHand ==
  ASSUME VtAssumption, ~Hurried, Inv, NEW s \in Server, PollWant(s)
  PROVE Hand'
<1> USE DEF Inv, Local, Hand, TypeOK, PollWant, Keys, Gives, Alive, At, Shared, Bounds
<1>1. Calm'
  BY DEF Calm, Starters
<1>2. Looked'
  BY DEF Calm, Starters, Looked
<1>3. OneHolds'
  BY DEF OneHolds, Holds, Phases, Shown, Calm, Starters, Looked, Unseen, Untold
<1>4. Unseen'
  <2> SUFFICES ASSUME NEW a \in Server, NEW f \in Server, Holds(a)', f = file', f # a
               PROVE Untold(f)'
    BY DEF Unseen
  <2>1. (Holds(a) /\ file = f) \/ file' # file \/ a = s
    BY DEF Holds
  <2>2. Untold(f)
    BY <2>1 DEF Unseen, Holds, Phases, OneHolds, Server
  <2> QED BY <2>2 DEF Untold, Phases
<1>5. Shown'
  BY DEF OneHolds, Holds, Phases, Calm, Starters, Looked, Unseen, Shown
<1> QED BY <1>1, <1>2, <1>3, <1>4, <1>5

LEMMA PollLendHand ==
  ASSUME VtAssumption, ~Hurried, Inv, NEW s \in Server, PollLend(s)
  PROVE Hand'
<1> USE DEF Inv, Local, Hand, TypeOK, PollLend, Keys, Shared, Bounds
<1>1. Calm'
  BY DEF Calm, Starters
<1>2. Looked'
  BY DEF Calm, Starters, Looked
<1>3. OneHolds'
  BY DEF OneHolds, Holds, Phases, Shown, Calm, Starters, Looked, Unseen, Untold
<1>4. Unseen'
  BY DEF OneHolds, Holds, Phases, Calm, Starters, Looked, Unseen, Untold, Server
<1>5. Shown'
  BY DEF OneHolds, Holds, Phases, Calm, Starters, Looked, Unseen, Shown
<1> QED BY <1>1, <1>2, <1>3, <1>4, <1>5

LEMMA PollMarkerHand ==
  ASSUME VtAssumption, ~Hurried, Inv, NEW s \in Server, PollMarker(s)
  PROVE Hand'
<1> USE DEF Inv, Local, Hand, TypeOK, PollMarker, Keys, TakeInput, InputOn, Shared, Bounds
<1>1. Calm'
  BY DEF Calm, Starters
<1>2. Looked'
  BY DEF Calm, Starters, Looked
<1>3. OneHolds'
  BY DEF OneHolds, Holds, Phases, Shown, Calm, Starters, Looked, Unseen, Untold
<1>4. Unseen'
  BY DEF OneHolds, Holds, Phases, Calm, Starters, Looked, Unseen, Untold, Server
<1>5. Shown'
  BY DEF OneHolds, Holds, Phases, Calm, Starters, Looked, Unseen, Shown
<1> QED BY <1>1, <1>2, <1>3, <1>4, <1>5

LEMMA PollLentHand ==
  ASSUME VtAssumption, ~Hurried, Inv, NEW s \in Server, PollLent(s)
  PROVE Hand'
<1> USE DEF Inv, Local, Hand, TypeOK, PollLent, Keys, TakeInput, InputOn, TooLong, Shared, Bounds
<1>1. Calm'
  BY DEF Calm, Starters
<1>2. Looked'
  BY DEF Calm, Starters, Looked
<1>3. OneHolds'
  BY DEF OneHolds, Holds, Phases, Shown, Calm, Starters, Looked, Unseen, Untold
<1>4. Unseen'
  BY DEF OneHolds, Holds, Phases, Calm, Starters, Looked, Unseen, Untold, Server
<1>5. Shown'
  BY DEF OneHolds, Holds, Phases, Calm, Starters, Looked, Unseen, Shown
<1> QED BY <1>1, <1>2, <1>3, <1>4, <1>5

LEMMA PollSignalHand ==
  ASSUME VtAssumption, ~Hurried, Inv, NEW s \in Server, PollSignal(s)
  PROVE Hand'
<1> USE DEF Inv, Local, Hand, TypeOK, PollSignal, Keys, At, Shared, Bounds
<1>1. Calm'
  BY DEF Calm, Starters
<1>2. Looked'
  BY DEF Calm, Starters, Looked
<1>3. OneHolds'
  BY DEF OneHolds, Holds, Phases, Shown, Calm, Starters, Looked, Unseen, Untold
<1>4. Unseen'
  BY DEF OneHolds, Holds, Phases, Calm, Starters, Looked, Unseen, Untold, Server
<1>5. Shown'
  BY DEF OneHolds, Holds, Phases, Calm, Starters, Looked, Unseen, Shown
<1> QED BY <1>1, <1>2, <1>3, <1>4, <1>5

LEMMA PollReadHand ==
  ASSUME VtAssumption, ~Hurried, Inv, NEW s \in Server, PollRead(s)
  PROVE Hand'
<1> USE DEF Inv, Local, Hand, TypeOK, PollRead, Keys, At, Mine, Alive, TakeInput, InputOn, Shared, Bounds
<1>1. Calm'
  BY DEF Calm, Starters
<1>2. Looked'
  BY DEF Calm, Starters, Looked
<1>3. OneHolds'
  BY DEF OneHolds, Holds, Phases, Shown, Calm, Starters, Looked, Unseen, Untold
<1>4. Unseen'
  <2> SUFFICES ASSUME NEW a \in Server, NEW f \in Server, Holds(a)', f = file', f # a
               PROVE Untold(f)'
    BY DEF Unseen
  <2>1. (Holds(a) /\ file = f) \/ file' # file \/ a = s
    BY DEF Holds
  <2>2. Untold(f)
    BY <2>1 DEF Unseen, Holds, Phases, OneHolds, Server
  <2> QED BY <2>2 DEF Untold, Phases
<1>5. Shown'
  BY DEF OneHolds, Holds, Phases, Calm, Starters, Looked, Unseen, Shown
<1> QED BY <1>1, <1>2, <1>3, <1>4, <1>5

LEMMA KeepHand ==
  ASSUME VtAssumption, ~Hurried, Inv, NEW s \in Server, Keep(s)
  PROVE Hand'
<1> USE DEF Inv, Local, Hand, TypeOK, Keep, Keys, At, Flags, Bounds
<1>1. Calm'
  BY DEF Calm, Starters
<1>2. Looked'
  BY DEF Calm, Starters, Looked
<1>3. OneHolds'
  BY DEF OneHolds, Holds, Phases, Shown, Calm, Starters, Looked, Unseen, Untold
<1>4. Unseen'
  BY DEF OneHolds, Holds, Phases, Calm, Starters, Looked, Unseen, Untold, Server
<1>5. Shown'
  BY DEF OneHolds, Holds, Phases, Calm, Starters, Looked, Unseen, Shown
<1> QED BY <1>1, <1>2, <1>3, <1>4, <1>5

LEMMA ExitHand ==
  ASSUME VtAssumption, ~Hurried, Inv, NEW s \in Server, Exit(s)
  PROVE Hand'
<1> USE DEF Inv, Local, Hand, TypeOK, Exit, Keys, At, Changing, Alive, Flags, Bounds
<1>1. Calm'
  BY DEF Calm, Starters
<1>2. Looked'
  BY DEF Calm, Starters, Looked
<1>3. OneHolds'
  BY DEF OneHolds, Holds, Phases, Shown, Calm, Starters, Looked, Unseen, Untold
<1>4. Unseen'
  <2> SUFFICES ASSUME NEW a \in Server, NEW f \in Server, Holds(a)', f = file', f # a
               PROVE Untold(f)'
    BY DEF Unseen
  <2>1. (Holds(a) /\ file = f) \/ file' # file \/ a = s
    BY DEF Holds
  <2>2. Untold(f)
    BY <2>1 DEF Unseen, Holds, Phases, OneHolds, Server
  <2> QED BY <2>2 DEF Untold, Phases
<1>5. Shown'
  BY DEF OneHolds, Holds, Phases, Calm, Starters, Looked, Unseen, Shown
<1> QED BY <1>1, <1>2, <1>3, <1>4, <1>5

LEMMA UnlinkHand ==
  ASSUME VtAssumption, ~Hurried, Inv, NEW s \in Server, Unlink(s)
  PROVE Hand'
<1> USE DEF Inv, Local, Hand, TypeOK, Unlink, Keys, At, Flags, Bounds
<1>1. Calm'
  BY DEF Calm, Starters
<1>2. Looked'
  BY DEF Calm, Starters, Looked
<1>3. OneHolds'
  BY DEF OneHolds, Holds
<1>4. Unseen'
  BY DEF Unseen, Server
<1>5. Shown'
  BY DEF OneHolds, Holds, Phases, Shown
<1> QED BY <1>1, <1>2, <1>3, <1>4, <1>5

LEMMA GoneHand ==
  ASSUME VtAssumption, ~Hurried, Inv, NEW s \in Server, Gone(s)
  PROVE Hand'
<1> USE DEF Inv, Local, Hand, TypeOK, Gone, Keys, Ends, At
<1>1. Calm'
  BY DEF Calm, Starters
<1>2. Looked'
  BY DEF Calm, Starters, Looked
<1>3. OneHolds'
  BY DEF OneHolds, Holds, Phases, Shown, Calm, Starters, Looked, Unseen, Untold
<1>4. Unseen'
  BY DEF OneHolds, Holds, Phases, Calm, Starters, Looked, Unseen, Untold, Server
<1>5. Shown'
  BY DEF OneHolds, Holds, Phases, Calm, Starters, Looked, Unseen, Shown
<1> QED BY <1>1, <1>2, <1>3, <1>4, <1>5

LEMMA KilledHand ==
  ASSUME VtAssumption, ~Hurried, Inv, NEW s \in Server, Killed(s)
  PROVE Hand'
<1> USE DEF Inv, Local, Hand, TypeOK, Killed, Keys, Ends, At, Starting
<1>1. Calm'
  BY DEF Calm, Starters
<1>2. Looked'
  BY DEF Calm, Starters, Looked
<1>3. OneHolds'
  BY DEF OneHolds, Holds, Phases, Shown, Calm, Starters, Looked, Unseen, Untold
<1>4. Unseen'
  BY DEF OneHolds, Holds, Phases, Calm, Starters, Looked, Unseen, Untold, Server
<1>5. Shown'
  BY DEF OneHolds, Holds, Phases, Calm, Starters, Looked, Unseen, Shown
<1> QED BY <1>1, <1>2, <1>3, <1>4, <1>5

LEMMA SwitchHand ==
  ASSUME VtAssumption, ~Hurried, Inv, NEW s \in Server, NEW n \in Server, Switch(s, n)
  PROVE Hand'
<1> USE DEF Inv, Local, Hand, TypeOK, Switch, Keys, Shared
<1>1. Calm'
  BY DEF Calm, Starters, Starting
<1>2. Looked'
  BY DEF Looked
<1>3. OneHolds'
  BY DEF OneHolds, Holds
<1>4. Unseen'
  BY DEF Holds, Unseen, Untold
<1>5. Shown'
  BY DEF Shown
<1> QED BY <1>1, <1>2, <1>3, <1>4, <1>5

LEMMA UserHand ==
  ASSUME Inv, ConsoleUser
  PROVE Hand'
BY DEF Inv, Hand, Calm, Looked, OneHolds, Holds, Unseen, Untold, Shown, ConsoleUser, Shared, Flags, Keys

LEMMA HandStays ==
  ASSUME Inv, UNCHANGED vars
  PROVE Hand'
BY DEF Inv, Hand, Calm, Looked, OneHolds, Holds, Unseen, Untold, Shown, vars

LEMMA LocalKept ==
  ASSUME VtAssumption, Local, [Next]_vars
  PROVE Local'
<1>1. CASE \E s \in Server: Start(s) \/ Look(s) \/ Claim(s) \/ Begin(s) \/ (\E n \in Server: Switch(s, n)) \/ Console(s)
  BY <1>1, StartLocal, LookLocal, ClaimLocal, BeginLocal, SwitchLocal, ConsoleLocal DEF Inv
<1>2. CASE \E s \in Server: Give(s) \/ Deactivate(s) \/ Tell(s) \/ PollWant(s) \/ PollLend(s) \/ PollMarker(s) \/ PollLent(s)
  BY <1>2, GiveLocal, DeactivateLocal, TellLocal, PollWantLocal, PollLendLocal, PollMarkerLocal, PollLentLocal DEF Inv
<1>3. CASE \E s \in Server: PollSignal(s) \/ PollRead(s) \/ Keep(s) \/ Exit(s) \/ Unlink(s) \/ Gone(s) \/ Killed(s)
  BY <1>3, PollSignalLocal, PollReadLocal, KeepLocal, ExitLocal, UnlinkLocal, GoneLocal, KilledLocal DEF Inv
<1>4. CASE ConsoleUser
  BY <1>4, UserLocal DEF Inv
<1>5. CASE UNCHANGED vars
  BY <1>5, LocalStays DEF Inv
<1> QED BY <1>1, <1>2, <1>3, <1>4, <1>5 DEF Next

LEMMA HandKept ==
  ASSUME VtAssumption, ~Hurried, Inv, [Next]_vars
  PROVE Hand'
<1>1. CASE \E s \in Server: Start(s) \/ Look(s) \/ Claim(s) \/ Begin(s) \/ (\E n \in Server: Switch(s, n)) \/ Console(s)
  BY <1>1, StartHand, LookHand, ClaimHand, BeginHand, SwitchHand, ConsoleHand DEF Inv
<1>2. CASE \E s \in Server: Give(s) \/ Deactivate(s) \/ Tell(s) \/ PollWant(s) \/ PollLend(s) \/ PollMarker(s) \/ PollLent(s)
  BY <1>2, GiveHand, DeactivateHand, TellHand, PollWantHand, PollLendHand, PollMarkerHand, PollLentHand DEF Inv
<1>3. CASE \E s \in Server: PollSignal(s) \/ PollRead(s) \/ Keep(s) \/ Exit(s) \/ Unlink(s) \/ Gone(s) \/ Killed(s)
  BY <1>3, PollSignalHand, PollReadHand, KeepHand, ExitHand, UnlinkHand, GoneHand, KilledHand DEF Inv
<1>4. CASE ConsoleUser
  BY <1>4, UserHand DEF Inv
<1>5. CASE UNCHANGED vars
  BY <1>5, HandStays DEF Inv
<1> QED BY <1>1, <1>2, <1>3, <1>4, <1>5 DEF Next

LEMMA Starts ==
  ASSUME VtAssumption, Init
  PROVE Inv
<1> USE DEF Init
<1>1. TypeOK
  <2>1. Numbers
    BY DEF VtAssumption, Numbers, Server, Steps
  <2>2. Processes /\ OffDown
    BY DEF Processes, OffDown
  <2> QED BY <2>1, <2>2 DEF TypeOK, Numbers, Processes, OffDown
<1>2. Phases /\ Keyboard
  BY DEF Phases, Keyboard, KeyboardOwn, Starters
<1>3. Hand
  BY DEF Hand, Calm, Looked, OneHolds, Holds, Unseen, Shown, Starters
<1> QED BY <1>1, <1>2, <1>3 DEF Inv, Local

LEMMA OneIsOne ==
  ASSUME OneHolds, TypeOK
  PROVE OneWorks
<1> DEFINE W == {s \in active: pc[s] \notin {"give", "told"}}
<1>1. \A a, b \in W: a = b
  BY DEF OneHolds, Holds, TypeOK
<1>2. CASE W = {}
  BY <1>2, FS_EmptySet DEF OneWorks
<1>3. CASE W # {}
  <2>1. PICK a \in W: W = {a}
    BY <1>1, <1>3
  <2> QED BY <2>1, FS_Singleton DEF OneWorks
<1> QED BY <1>2, <1>3

(* Every variable of the servers has its type, for any number of servers. *)
THEOREM ServersTyped ==
  ASSUME VtAssumption
  PROVE Spec => []TypeOK
<1>1. Init => Local
  BY Starts DEF Inv
<1>2. Local /\ [Next]_vars => Local'
  BY LocalKept
<1>3. Local => TypeOK
  BY DEF Local
<1> QED BY <1>1, <1>2, <1>3, PTL DEF Spec

(* An active server has the keyboard unless it is lent or did not open, and no other
   has it, however servers come and go. (atwVt.c, atwVtLendInput, atwVtTakeInput,
   atwDeactivate)                                                          *)
THEOREM KeyboardAlways ==
  ASSUME VtAssumption
  PROVE Spec => []KeyboardOwn
<1>1. Init => Local
  BY Starts DEF Inv
<1>2. Local /\ [Next]_vars => Local'
  BY LocalKept
<1>3. Local => KeyboardOwn
  BY DEF Local, Keyboard
<1> QED BY <1>1, <1>2, <1>3, PTL DEF Spec

(* One server at most works the card, besides one that is letting go, and the keyboard
   is with it, if none starts or ends while the card changes hands. (atwVt.c,
   atwVtInit, atwVtGive, atwVtPoll, atwVtExit)                             *)
THEOREM OneShownAlways ==
  ASSUME VtAssumption, ~Hurried
  PROVE Spec => []OneShown
<1>1. Init => Inv
  BY Starts
<1>2. Inv /\ [Next]_vars => Inv'
  BY LocalKept, HandKept DEF Inv
<1>3. Inv => OneShown
  BY OneIsOne DEF Inv, Local, Hand, Keyboard, OneShown
<1> QED BY <1>1, <1>2, <1>3, PTL DEF Spec

====
