------------------------------- MODULE UbHid -------------------------------
(***************************************************************************)
(* USB keyboards and mice as a second IKBD (driver-ub/ubhid.c): reports    *)
(* turned into the bytes Atari's keyboard controller would send, put in    *)
(* one piece into the ring of /dev/ikbd (ub_ikbd_put), and the reader who  *)
(* makes keys, buttons and motion of them again.                           *)
(*                                                                         *)
(* A code stands for a scancode. The ring is open all the time; what the   *)
(* keyboard's lamps show is left out.                                      *)
(*                                                                         *)
(* External: the devices, which report when something changed and what is  *)
(* so by then; the reader (the X server).                                  *)
(***************************************************************************)
EXTENDS Integers, Sequences, FiniteSets, SequencesExt

CONSTANTS
  Kbds,     \* keyboards
  Mods,     \* modifier keys of each
  Keys,     \* its other keys
  Slots,    \* keys a report has room for (6)
  OutSize,  \* bytes one report may become (hid_out)
  RingSize, \* ik_rdsize
  Wheel,    \* bound: notches of one report
  MaxMoves  \* bound: moves of the mouse

VARIABLES
  plugged, \* the devices that are there
  held,    \* what is held down on each keyboard
  due,     \* the devices with something to report
  old,     \* ub_hid[].old
  mouse,   \* the mouse: its buttons, what it moved, of that unreported, notches unreported
  mold,    \* the mouse's ub_hid[].old: its buttons
  ring,    \* ik_rdbuf
  seen,    \* the reader: codes down, buttons, motion; coordinates still to come
  spoilt   \* bytes were lost, or a keyboard went with keys down

vars == <<plugged, held, due, old, mouse, mold, ring, seen, spoilt>>

M == "mouse"
Devs == Kbds \cup {M}
None == [mods |-> {}, keys |-> {}]
Buttons == SUBSET {"left"}

(* the key table (hid_scan) is one to one but for these *)
ModCode(m) == CASE m \in {"lctrl", "rctrl"} -> "ctrl" [] m \in {"lalt", "ralt"} -> "alt" [] OTHER -> m
KeyCodes(k) == CASE k = "pgup" -> <<"lshift", "up">> [] k = "end" -> <<"lshift", "home">> [] OTHER -> <<k>>

TypeOK ==
  /\ plugged \subseteq Devs /\ due \subseteq Devs
  /\ \A k \in Kbds: held[k].mods \subseteq Mods /\ held[k].keys \subseteq Keys /\ old[k].mods \subseteq Mods /\ old[k].keys \subseteq Keys
  /\ mouse.b \in Buttons /\ mold \in Buttons /\ mouse.x \in 0 .. MaxMoves
  /\ Len(ring) <= RingSize /\ seen.need \in 0 .. 2 /\ spoilt \in BOOLEAN

Init ==
  /\ plugged = Devs /\ held = [k \in Kbds |-> None] /\ due = {} /\ old = held
  /\ mouse = [b |-> {}, x |-> 0, dx |-> 0, w |-> 0] /\ mold = {} /\ ring = <<>>
  /\ seen = [down |-> {}, b |-> {}, x |-> 0, need |-> 0] /\ spoilt = FALSE

-----------------------------------------------------------------------------
(* A report as bytes                                                       *)

Make(c) == <<"make", c>>
Break(c) == <<"break", c>>
All(op(_), codes) == [i \in DOMAIN codes |-> op(codes[i])]

(* modifiers: each code once, whichever of its keys changed *)
ModCodes(mods) == SetToSeq({ModCode(m): m \in mods})
KeysCodes(keys) == FlattenSeq(SetToSeq({KeyCodes(k): k \in keys}))

(* mutant: only what is pressed is looked at *)
ModBreaksNone(was, is) == <<>>
ModBreaks(was, is) == All(Break, ModCodes(was.mods \ is.mods))

(* kbd_report: what was let go, what was pressed; the modifiers first *)
KbdBytes(was, is) ==
  ModBreaks(was, is) \o All(Make, ModCodes(is.mods \ was.mods))
    \o All(Break, KeysCodes(was.keys \ is.keys)) \o All(Make, KeysCodes(is.keys \ was.keys))

(* too many keys for a report: no information *)
Rollover(k) == Cardinality(held[k].keys) > Slots

(* mouse_report: the wheel as arrow keys, then a record if it moved or clicked *)
MouseBytes ==
  FlattenSeq([i \in 1 .. mouse.w |-> <<Make("up"), Break("up")>>])
    \o (IF mouse.dx # 0 \/ mouse.b # mold THEN <<<<"record", mouse.b>>, <<"dx", mouse.dx>>, <<"dy", 0>>>> ELSE <<>>)

(* put: no more than hid_out holds *)
Out(bytes) == SubSeq(bytes, 1, IF Len(bytes) > OutSize THEN OutSize ELSE Len(bytes))

(* ub_ikbd_put: of what is put at once the ring takes what there is room for *)
Fits(bytes) == SubSeq(bytes, 1, IF Len(bytes) > RingSize - Len(ring) THEN RingSize - Len(ring) ELSE Len(bytes))

-----------------------------------------------------------------------------
(* ub_hid_poll: the devices that answer, in turn, their bytes put at once   *)

Answers(ds) == SetToSeq(ds)
Bytes(d) == IF d = M THEN Out(MouseBytes) ELSE IF Rollover(d) THEN <<>> ELSE Out(KbdBytes(old[d], held[d]))
Full(d) == IF d = M THEN MouseBytes ELSE IF Rollover(d) THEN <<>> ELSE KbdBytes(old[d], held[d])

(* mutant: the buttons are only kept with a record *)
OldButtonsMoved == IF mouse.dx # 0 THEN mouse.b ELSE mold
OldButtons == mouse.b

Poll ==
  \E ds \in SUBSET (due \cap plugged):
    LET put == FlattenSeq([i \in 1 .. Cardinality(ds) |-> Bytes(Answers(ds)[i])])
    IN /\ ds # {} /\ due' = due \ ds
       /\ old' = [k \in Kbds |-> IF k \in ds /\ ~Rollover(k) THEN held[k] ELSE old[k]]
       /\ mold' = (IF M \in ds THEN OldButtons ELSE mold)
       /\ mouse' = (IF M \in ds THEN [mouse EXCEPT !.dx = 0, !.w = 0] ELSE mouse)
       /\ ring' = ring \o Fits(put)
       /\ spoilt' = (spoilt \/ Fits(put) # put \/ \E d \in ds: Bytes(d) # Full(d))
       /\ UNCHANGED <<plugged, held, seen>>

(* hid_probe; hid_disconnect, which lets no key go *)
Plug(d) ==
  /\ d \notin plugged /\ plugged' = plugged \cup {d}
  /\ IF d = M THEN mold' = {} /\ UNCHANGED old ELSE old' = [old EXCEPT ![d] = None] /\ UNCHANGED mold
  /\ due' = (IF d \in Kbds /\ held[d] # None THEN due \cup {d} ELSE due \ {d})
  /\ UNCHANGED <<held, mouse, ring, seen, spoilt>>
Down(d) == IF d = M THEN mold # {} ELSE old[d] # None
Pull(d) ==
  /\ d \in plugged /\ plugged' = plugged \ {d}
  /\ spoilt' = (spoilt \/ Down(d))
  /\ IF d = M THEN mouse' = [mouse EXCEPT !.x = @ - mouse.dx, !.dx = 0, !.w = 0, !.b = {}] /\ UNCHANGED held
     ELSE held' = [held EXCEPT ![d] = None] /\ UNCHANGED mouse
  /\ due' = due \ {d}
  /\ UNCHANGED <<old, mold, ring, seen>>

-----------------------------------------------------------------------------
(* External: hands, which rest once something was lost, and the reader.    *)

Press(k) ==
  /\ ~spoilt /\ k \in plugged /\ due' = due \cup {k}
  /\ \/ \E m \in Mods: held' = [held EXCEPT ![k].mods = IF m \in @ THEN @ \ {m} ELSE @ \cup {m}]
     \/ \E c \in Keys: held' = [held EXCEPT ![k].keys = IF c \in @ THEN @ \ {c} ELSE @ \cup {c}]
  /\ UNCHANGED <<plugged, old, mouse, mold, ring, seen, spoilt>>

Move ==
  /\ ~spoilt /\ M \in plugged /\ due' = due \cup {M}
  /\ \/ mouse.x < MaxMoves /\ mouse' = [mouse EXCEPT !.x = @ + 1, !.dx = @ + 1]
     \/ \E b \in Buttons \ {mouse.b}: mouse' = [mouse EXCEPT !.b = b]
     \/ mouse.w < Wheel /\ mouse' = [mouse EXCEPT !.w = @ + 1]
  /\ UNCHANGED <<plugged, held, old, mold, ring, seen, spoilt>>

(* a byte: after the first of a mouse's record two coordinates, whatever comes *)
Taken(s, byte) ==
  CASE s.need > 0 -> [s EXCEPT !.need = @ - 1, !.x = IF byte[1] = "dx" THEN @ + byte[2] ELSE @]
    [] byte[1] = "record" -> [s EXCEPT !.need = 2, !.b = byte[2]]
    [] byte[1] = "make" -> [s EXCEPT !.down = @ \cup {byte[2]}]
    [] byte[1] = "break" -> [s EXCEPT !.down = @ \ {byte[2]}]
    [] OTHER -> s
Read ==
  /\ ring # <<>> /\ ring' = <<>> /\ seen' = FoldLeft(Taken, seen, ring)
  /\ UNCHANGED <<plugged, held, due, old, mouse, mold, spoilt>>

Next == Poll \/ Move \/ Read \/ (\E k \in Kbds: Press(k)) \/ (\E d \in Devs: Plug(d) \/ Pull(d))

Spec == Init /\ [][Next]_vars

-----------------------------------------------------------------------------
HeldCodes == UNION {{ModCode(m): m \in held[k].mods} \cup UNION {ToSet(KeyCodes(c)): c \in held[k].keys}: k \in Kbds}
Quiet == ring = <<>> /\ due = {} /\ \A k \in Kbds: ~Rollover(k)
KeysAre == Quiet => seen.down = HeldCodes

(* When every report was taken and read, the keys that are down for the
   reader are those held on the keyboards, through rollovers, changes between
   two polls and keyboards put in; unless bytes were lost, or a keyboard went
   with keys down. For keys with codes of their own. (kbd_report)           *)
KeysMatch == ~spoilt => KeysAre

(* Likewise the buttons and the way the mouse went. (mouse_report)         *)
MouseMatches == ~spoilt /\ Quiet => seen.b = mouse.b /\ seen.x = mouse.x /\ seen.need = 0

(* Not so: whatever happens to the keyboard. What was down when it went stays
   down (hid_disconnect).                                                  *)
KeysAlways == KeysAre

(* Not so: the reader is given whole records. hid_out may end in the middle
   of one, after a wheel's notches, and the ring too.                      *)
RecordsWhole == ring = <<>> => seen.need = 0
=============================================================================
