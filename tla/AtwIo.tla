------------------------------- MODULE AtwIo -------------------------------
(***************************************************************************)
(* An X server's keys and mouse (xserver-r6/hw/atw/atwIo.c): the bytes of  *)
(* /dev/ikbd in whatever pieces they are read, made into events; Ctrl+Alt  *)
(* with an F-key, which asks for another server; what was held is released *)
(* to the clients when the keyboard goes.                                  *)
(*                                                                         *)
(* A mouse packet is three units. Motion, reports that are skipped and     *)
(* other keys' meaning are left out.                                       *)
(*                                                                         *)
(* External: the hands on the keys, who has the card (module AtwVt).       *)
(***************************************************************************)
EXTENDS Naturals, Sequences, FiniteSets

CONSTANTS
  Plain,    \* plain keys
  FKeys,    \* F1 .. F10
  BufSize,  \* what one read may bring
  MaxWire,  \* bound: units on their way
  MaxMoves, \* bound: keys pressed and let go, mouse packets
  MaxTurns, \* bound: the keyboard goes
  MidPacket    \* whether the keyboard may go in the middle of a packet

IoAssumption ==
  /\ FKeys \cap {"ctrl", "alt"} = {}
  /\ (Plain \cup FKeys \cup {"ctrl", "alt"}) \cap {"left", "right"} = {}

VARIABLES
  held, buttons,  \* what the hands hold
  wire,           \* units on their way to /dev/ikbd
  ours,           \* /dev/ikbd is open
  buf,            \* atwReadInput's buffer: a split packet
  ctrl, alt, down, eaten, told,  \* atwCtrl, atwAlt, atwDown, atwEaten, atwButtons
  clients,        \* the keys and buttons the clients take to be down
  asked,          \* whether a switch was asked for, and meant
  moves, turns
vars == <<held, buttons, wire, ours, buf, ctrl, alt, down, eaten, told, clients, asked, moves, turns>>

Keys == Plain \cup FKeys \cup {"ctrl", "alt"}
Buttons == {"left", "right"}
(* meant: Ctrl and Alt are held *)
Key(k, u, m) == [t |-> "key", key |-> k, up |-> u, meant |-> m]
Mouse(b) == [t |-> "mouse", b |-> b]
Rest == [t |-> "rest"]

TypeOK ==
  /\ held \subseteq Keys /\ buttons \subseteq Buttons /\ Len(wire) <= MaxWire + 3 /\ ours \in BOOLEAN /\ Len(buf) <= 2
  /\ ctrl \in BOOLEAN /\ alt \in BOOLEAN /\ down \subseteq Keys /\ eaten \subseteq FKeys /\ told \subseteq Buttons
  /\ clients \subseteq Keys \cup Buttons

Init ==
  /\ held = {} /\ buttons = {} /\ wire = <<>> /\ ours = TRUE /\ buf = <<>> /\ ctrl = FALSE /\ alt = FALSE
  /\ down = {} /\ eaten = {} /\ told = {} /\ clients = {} /\ asked = "no" /\ moves = 0 /\ turns = 0

-----------------------------------------------------------------------------
(* The hands: the keyboard sends what they do to whoever has it open       *)

Sends(w) == wire' = IF ours THEN wire \o w ELSE wire
Hands ==
  /\ moves < MaxMoves /\ moves' = moves + 1 /\ Len(wire) <= MaxWire
  /\ \/ \E k \in Keys: /\ held' = IF k \in held THEN held \ {k} ELSE held \cup {k}
                       /\ Sends(<<Key(k, k \in held, {"ctrl", "alt"} \subseteq held)>>) /\ UNCHANGED buttons
     \/ \E b \in SUBSET Buttons: buttons' = b /\ Sends(<<Mouse(b), Rest, Rest>>) /\ UNCHANGED held
  /\ UNCHANGED <<ours, buf, ctrl, alt, down, eaten, told, clients, asked, turns>>

-----------------------------------------------------------------------------
(* atwKey, atwMousePacket on the server's state                            *)

S == [ctrl |-> ctrl, alt |-> alt, down |-> down, eaten |-> eaten, told |-> told, clients |-> clients, asked |-> asked]
(* mutant: a modifier is never let go *)
ModifiersHeld(st, k, up) == [st EXCEPT !.ctrl = k = "ctrl" \/ @, !.alt = k = "alt" \/ @]
Modifiers(st, k, up) == [st EXCEPT !.ctrl = IF k = "ctrl" THEN ~up ELSE @, !.alt = IF k = "alt" THEN ~up ELSE @]
AtwKey(st, k, up, meant) ==
  LET s == Modifiers(st, k, up) IN
    CASE k \in FKeys /\ ~up /\ s.ctrl /\ s.alt -> [s EXCEPT !.eaten = @ \cup {k}, !.asked = IF @ = "unmeant" \/ ~meant THEN "unmeant" ELSE "meant"]
      [] k \in FKeys /\ up /\ k \in s.eaten -> [s EXCEPT !.eaten = @ \ {k}]
      [] OTHER -> [s EXCEPT !.down = IF up THEN @ \ {k} ELSE @ \cup {k},
                            !.clients = IF up THEN @ \ {k} ELSE @ \cup {k}]
(* mutant: the buttons seen last are not kept *)
AtwMousePacketForgets(st, b) == [st EXCEPT !.clients = (@ \ (st.told \ b)) \cup (b \ st.told)]
AtwMousePacket(st, b) == [st EXCEPT !.clients = (@ \ (st.told \ b)) \cup (b \ st.told), !.told = b]

AtwInput(st, u) == CASE u.t = "key" -> AtwKey(st, u.key, u.up, u.meant) [] u.t = "mouse" -> AtwMousePacket(st, u.b) [] OTHER -> st

(* atwReadInput: what is whole; the rest of a packet is waited for. The two units
   behind a mouse packet's first are its own *)
Split(w, i) == w[i].t = "mouse" /\ i + 2 > Len(w)
ReadUnit(w, i, p) ==
  IF p.end # 0 THEN p
  ELSE IF p.skip > 0 THEN [p EXCEPT !.skip = @ - 1]
  ELSE IF Split(w, i) THEN [p EXCEPT !.end = i]
  ELSE [s |-> AtwInput(p.s, w[i]), skip |-> IF w[i].t = "mouse" THEN 2 ELSE 0, end |-> 0]
Parse(w, st) ==
  LET f[i \in 0 .. Len(w)] ==
        IF i = 0 THEN [s |-> st, skip |-> 0, end |-> 0] ELSE ReadUnit(w, i, f[i - 1])
  IN f[Len(w)]
Becomes(s) == /\ ctrl' = s.ctrl /\ alt' = s.alt /\ down' = s.down /\ eaten' = s.eaten /\ told' = s.told
              /\ clients' = s.clients /\ asked' = s.asked
AtwReadInput ==
  /\ ours /\ wire # <<>>
  /\ \E n \in 1 .. Len(wire):
       LET w == buf \o SubSeq(wire, 1, n) p == Parse(w, S) IN
         /\ Len(w) <= BufSize
         /\ Becomes(p.s) /\ buf' = IF p.end = 0 THEN <<>> ELSE SubSeq(w, p.end, Len(w))
         /\ wire' = SubSeq(wire, n + 1, Len(wire))
  /\ UNCHANGED <<held, buttons, ours, moves, turns>>

-----------------------------------------------------------------------------
(* The keyboard goes, to another server or the console, and comes back     *)

(* atwKeysReleaseAll: a release of every key through atwKey, of the buttons *)
(* mutant: the keys only *)
ReleasedKeys(st) == [st EXCEPT !.clients = @ \ (st.down \ st.eaten), !.down = @ \cap st.eaten, !.eaten = @ \ st.down,
                               !.ctrl = @ /\ "ctrl" \notin st.down, !.alt = @ /\ "alt" \notin st.down]
Released(st) == [st EXCEPT !.clients = (@ \ (st.down \ st.eaten)) \ st.told, !.down = @ \cap st.eaten, !.eaten = @ \ st.down,
                           !.told = {}, !.ctrl = @ /\ "ctrl" \notin st.down, !.alt = @ /\ "alt" \notin st.down]
(* atwInputOff *)
Leave ==
  /\ ours /\ turns < MaxTurns /\ turns' = turns + 1 /\ (MidPacket \/ buf = <<>>)
  /\ ours' = FALSE /\ wire' = <<>> /\ Becomes(Released(S))
  /\ UNCHANGED <<held, buttons, buf, moves>>
(* atwInputOn *)
ComeBack(st) == [st EXCEPT !.ctrl = FALSE, !.alt = FALSE]
Return ==
  /\ ~ours /\ ours' = TRUE /\ Becomes(ComeBack(S))
  /\ UNCHANGED <<held, buttons, wire, buf, moves, turns>>

Next == Hands \/ AtwReadInput \/ Leave \/ Return
Spec == Init /\ [][Next]_vars

-----------------------------------------------------------------------------
(* Once everything was read, the clients take nothing to be down that the hands do
   not hold: however the packets were split, and although releases go to another
   server. F-keys apart. (atwKeysReleaseAll, atwReadInput)                 *)
Read == ours /\ wire = <<>> /\ buf = <<>>
NoneStuck == Read => clients \ FKeys \subseteq held \cup buttons
(* Without the keyboard, nothing is down. (atwKeysReleaseAll) *)
AwayNone == ~ours => clients \ FKeys = {}

(* Ctrl+Alt with an F-key asks for another server only where the hands pressed all
   three, and such a key never reaches the clients. (atwKey, atwInputOn)   *)
OnlyMeant == asked # "no" => asked = "meant"

(* An F-key too is down for the clients only while it is held: only a switch key's
   own release is eaten. (atwKey; the comment on atwEaten)                 *)
FKeysToo == Read => clients \cap FKeys \subseteq held
=============================================================================
