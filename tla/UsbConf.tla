------------------------------ MODULE UsbConf ------------------------------
(***************************************************************************)
(* What the USB stack learns of a device (driver-ub/usb.c): its            *)
(* configuration, read into a buffer all devices share, parsed into        *)
(* interfaces and endpoints; the packet sizes; its settings; its strings.  *)
(* Enumeration up to the device's address is module Usb's.                 *)
(*                                                                         *)
(* A descriptor counts one unit of a configuration's length, a character   *)
(* one unit of a string's: bytes, their order and a read that ends within  *)
(* one are left out. What devices say is well-formed: within the tables,   *)
(* endpoints after their interface, none but the first a control endpoint, *)
(* a number and direction in one interface only, a string's two bytes at   *)
(* least.                                                                  *)
(*                                                                         *)
(* External: the devices and their answers.                                *)
(***************************************************************************)
EXTENDS Integers, Sequences, FiniteSets, SequencesExt

CONSTANTS
  Devices,    \* [ifs: sequence of [n, alts: sequence of sequences of endpoints], text, blank]
  BufSize,    \* USB_CONFIG_BUFFER_SIZE
  Rooms,      \* the callers' string buffers
  MaxRounds,  \* bound: devices one after the other
  MaxShort,   \* bound: configurations that come short
  MaxLost     \* bound: messages of an enumeration that fail

VARIABLES
  dev,     \* the device, or None
  pc,      \* the message of usb_new_device that is due, "ready" after them
  cfgbuf,  \* usb_cfgbuf
  config, epmaxpacket,   \* struct usb_device
  whole,   \* the configuration came whole
  sent,    \* interfaces SET_INTERFACE was sent for
  langid,  \* have_langid
  str,     \* usb_string's frame: what is asked, how, which try; the answers that failed
  out,     \* what usb_string last returned
  rounds, shorts, lost
record == <<config, epmaxpacket, whole, sent, langid, out>>
vars == <<dev, pc, cfgbuf, record, str, rounds, shorts, lost>>

None == [ifs |-> <<>>, text |-> <<>>, blank |-> FALSE]
NoConfig == [nif |-> 0, ifs |-> <<>>]
NoStr == [of |-> "none", how |-> "all", try |-> 0, room |-> 0, errs |-> 0]
NoOut == [room |-> 0, text |-> <<>>, ok |-> FALSE, junk |-> FALSE, refused |-> FALSE]
Zero == [t |-> "zero"]
Tries == 3

Pipes == {"in", "out"} \X (1 .. 15)
(* what the device sends: each interface's settings with their endpoints *)
Settings(d) == FlattenSeq([i \in DOMAIN d.ifs |-> FlattenSeq([a \in DOMAIN d.ifs[i].alts |->
  <<[t |-> "if", n |-> d.ifs[i].n, neps |-> Len(d.ifs[i].alts[a])]>> \o d.ifs[i].alts[a]])])
Total(d) == 1 + Len(Settings(d))
Flat(d) == <<[t |-> "config", total |-> Total(d), nif |-> Len(d.ifs)]>> \o Settings(d)

TypeOK ==
  /\ dev \in Devices \cup {None} /\ pc \in {"none", "head", "conf", "set", "ready"}
  /\ DOMAIN epmaxpacket = Pipes /\ langid \in BOOLEAN /\ whole \in BOOLEAN
  /\ str.of \in {"none", "lang", "text"} /\ str.how \in {"all", "two", "exact"} /\ str.try \in 0 .. Tries
  /\ Len(cfgbuf) <= BufSize
  /\ Len(config.ifs) <= 8 /\ (\A i \in DOMAIN config.ifs: Len(config.ifs[i].eps) <= 16)
  /\ rounds <= MaxRounds /\ shorts <= MaxShort /\ lost <= MaxLost

Init ==
  /\ dev = None /\ pc = "none" /\ cfgbuf = <<>> /\ config = NoConfig /\ epmaxpacket = [p \in Pipes |-> 0]
  /\ whole = FALSE /\ sent = {} /\ langid = FALSE /\ str = NoStr /\ out = NoOut
  /\ rounds = 0 /\ shorts = 0 /\ lost = 0

-----------------------------------------------------------------------------
(* usb_parse_config: one interface for each number, its settings' endpoints in a row *)

(* mutant: each setting an interface *)
IsNewEach(st, d) == TRUE
IsNew(st, d) == d.n # st.cur
Parsed(buf) ==
  LET p[k \in 1 .. buf[1].total] ==
        IF k = 1 THEN [ifs |-> <<>>, cur |-> -1, end |-> FALSE]
        ELSE LET st == p[k - 1] d == IF k <= Len(buf) THEN buf[k] ELSE Zero n == Len(st.ifs) IN
          CASE st.end \/ d.t = "zero" -> [st EXCEPT !.end = TRUE]
            [] d.t = "if" /\ IsNew(st, d) ->
                 [st EXCEPT !.ifs = Append(@, [n |-> d.n, neps |-> d.neps, alts |-> 1, eps |-> <<>>]), !.cur = d.n]
            [] d.t = "if" /\ ~IsNew(st, d) -> [st EXCEPT !.ifs[n].alts = @ + 1]
            [] d.t = "ep" -> [st EXCEPT !.ifs[n].eps = Append(@, d)]
            [] OTHER -> st
  IN [nif |-> buf[1].nif, ifs |-> p[buf[1].total].ifs]

(* usb_set_maxpacket: the endpoints of each interface's first setting *)
(* mutant: those of every setting *)
FirstsAll(f) == {f.eps[k]: k \in DOMAIN f.eps}
Firsts(f) == {f.eps[k]: k \in 1 .. f.neps \cap DOMAIN f.eps}
Biggest(S) == IF S = {} THEN 0 ELSE CHOOSE x \in S: \A y \in S: y <= x
Used(c) == {i \in DOMAIN c.ifs: i <= c.nif}
Sizes(c) == [p \in Pipes |->
  Biggest({e.max: e \in {e \in UNION {Firsts(c.ifs[i]): i \in Used(c)}: <<e.dir, e.num>> = p}})]

(* the memset of usb_free_device *)
Cleared ==
  /\ config' = NoConfig /\ epmaxpacket' = [p \in Pipes |-> 0] /\ whole' = FALSE
  /\ sent' = {} /\ langid' = FALSE /\ out' = NoOut
(* a new device, in a record nobody had or the last one's left cleared *)
New(d) ==
  /\ pc \in {"none", "ready"} /\ str = NoStr /\ rounds < MaxRounds /\ rounds' = rounds + 1
  /\ dev' = d /\ pc' = "head" /\ Cleared
  /\ UNCHANGED <<cfgbuf, str, shorts, lost>>
(* usb_new_device fails, usb_free_device *)
Fails == dev' = None /\ pc' = "none" /\ Cleared
Lost == lost < MaxLost /\ lost' = lost + 1

(* usb_get_configuration_no: its first descriptor, for the length of it all *)
GetHead ==
  /\ pc = "head"
  /\ \/ Total(dev) <= BufSize /\ pc' = "conf" /\ UNCHANGED <<dev, record, lost>>
     \/ Total(dev) > BufSize /\ Fails /\ UNCHANGED lost
     \/ Lost /\ Fails
  /\ UNCHANGED <<cfgbuf, str, rounds, shorts>>
(* all of it. A read that fails, or comes short, leaves what the buffer held; it is
   parsed either way                                                       *)
Over(d, k) == SubSeq(Flat(d), 1, k) \o SubSeq(cfgbuf, k + 1, Len(cfgbuf))
GetConf ==
  /\ pc = "conf"
  /\ \E k \in 0 .. Total(dev), err \in BOOLEAN:
       /\ cfgbuf' = Over(dev, k)
       /\ IF err THEN Lost ELSE UNCHANGED lost
       /\ IF ~err /\ k < Total(dev) THEN shorts < MaxShort /\ shorts' = shorts + 1 ELSE UNCHANGED shorts
       /\ IF err \/ cfgbuf' = <<>> THEN Fails
          ELSE /\ config' = Parsed(cfgbuf') /\ epmaxpacket' = Sizes(config') /\ whole' = (k = Total(dev))
               /\ pc' = "set" /\ UNCHANGED <<dev, sent, langid, out>>
  /\ UNCHANGED <<str, rounds>>
(* usb_set_configuration *)
SetConf ==
  /\ pc = "set"
  /\ \/ pc' = "ready" /\ UNCHANGED <<dev, record, lost>>
     \/ Lost /\ Fails
  /\ UNCHANGED <<cfgbuf, str, rounds, shorts>>

(* usb_set_interface, for a class driver; no message where there is nothing to choose *)
(* mutant: asks every interface *)
AsksAll(f) == TRUE
Asks(f) == f.alts # 1
SetInterface(n) ==
  /\ pc = "ready" /\ str = NoStr
  /\ LET M == {i \in Used(config): config.ifs[i].n = n} IN
       /\ M # {} /\ Asks(config.ifs[CHOOSE i \in M: \A j \in M: i <= j])
       /\ sent' = sent \cup {n}
  /\ UNCHANGED <<dev, pc, cfgbuf, config, epmaxpacket, whole, langid, str, out, rounds, shorts, lost>>

-----------------------------------------------------------------------------
(* usb_string, usb_string_sub, usb_get_string: all of it, three times; else its
   length, then just that much                                             *)

String(room) ==
  /\ pc = "ready" /\ str = NoStr
  /\ str' = [of |-> IF langid THEN "text" ELSE "lang", how |-> "all", try |-> 1, room |-> room, errs |-> 0]
  /\ UNCHANGED <<dev, pc, cfgbuf, record, rounds, shorts, lost>>

(* what the device has to say: how long it claims to be (0 where it left that out) and the units *)
Said == IF str.of = "lang" THEN <<"lang">> ELSE dev.text
Claim == IF dev.blank /\ str.of = "text" THEN 0 ELSE 1 + Len(Said)

(* usb_try_string_workarounds: as long as it reads as plain characters *)
Plain(u) == LET N == {n \in 0 .. Len(u): \A k \in 1 .. n: u[k] \notin {"w", "nul"}}
            IN CHOOSE n \in N: \A k \in N: k <= n
(* usb_string_sub: how many units stand, the first for the length; -1: none *)
(* mutant: what comes behind it too *)
KeptJunk(claim, u) == IF claim = 0 THEN IF Plain(u) > 0 THEN Plain(u) + 1 ELSE -1 ELSE Len(u) + 1
Kept(claim, u) ==
  LET len == IF claim = 0 /\ Plain(u) > 0 THEN Plain(u) + 1 ELSE claim
      rc == IF claim = 0 /\ Plain(u) > 0 THEN len ELSE Len(u) + 1
      m == IF len < rc THEN len ELSE rc
  IN IF m < 1 THEN -1 ELSE m

Shown(u) == IF u = "w" THEN "?" ELSE u
Cut(u, room) == [k \in 1 .. (IF Len(u) < room - 1 THEN Len(u) ELSE room - 1) |-> Shown(u[k])]
(* the string is there, n units of it; e answers had failed *)
Ends(n, u, j, e) ==
  IF str.of = "lang" /\ n >= 2
  THEN langid' = TRUE /\ str' = [str EXCEPT !.of = "text", !.how = "all", !.try = 1, !.errs = e] /\ UNCHANGED out
  ELSE LET no == [room |-> str.room, text |-> <<>>, ok |-> FALSE, junk |-> j, refused |-> e >= 2 * Tries] IN
         /\ str' = NoStr /\ UNCHANGED langid
         /\ out' = IF n < 1 \/ str.of = "lang" THEN no
                   ELSE [no EXCEPT !.text = Cut(SubSeq(u, 1, n - 1), str.room), !.ok = TRUE]

(* an answer: whole, or with the rest of the device's packet behind it *)
Answer(junk) ==
  /\ str # NoStr /\ (junk => str.how = "all")
  /\ LET u == (IF str.how = "exact" /\ Claim = 0 THEN <<>> ELSE Said) \o (IF junk THEN <<"j">> ELSE <<>>) IN
       CASE str.how = "all" -> Ends(Kept(Claim, u), u, junk, str.errs)
         [] str.how = "two" -> str' = [str EXCEPT !.how = "exact", !.try = 1] /\ UNCHANGED <<langid, out>>
         [] str.how = "exact" -> Ends(Kept(Claim, u), u, junk, str.errs)
  /\ UNCHANGED <<dev, pc, cfgbuf, config, epmaxpacket, whole, sent, rounds, shorts, lost>>

(* mutant: one try *)
AgainOnce(s) == FALSE
Again(s) == s.try < Tries
NoAnswer ==
  /\ str # NoStr
  /\ IF Again(str) THEN str' = [str EXCEPT !.try = @ + 1, !.errs = @ + 1] /\ UNCHANGED <<langid, out>>
     ELSE IF str.how = "all"
     THEN str' = [str EXCEPT !.how = "two", !.try = 1, !.errs = @ + 1] /\ UNCHANGED <<langid, out>>
     ELSE Ends(-1, <<>>, FALSE, str.errs + 1)
  /\ UNCHANGED <<dev, pc, cfgbuf, config, epmaxpacket, whole, sent, rounds, shorts, lost>>

Next ==
  \/ \E d \in Devices: New(d)
  \/ GetHead \/ GetConf \/ SetConf
  \/ \E n \in 0 .. 1: SetInterface(n)
  \/ \E room \in Rooms: String(room)
  \/ \E junk \in BOOLEAN: Answer(junk)
  \/ NoAnswer
Spec == Init /\ [][Next]_vars

-----------------------------------------------------------------------------
(* A configuration that came whole is, as the stack works with it, the one of the
   device it talks to: every interface once with all its settings' endpoints, and
   the packet sizes those of the settings in use, whatever device used the buffer
   before and however its enumeration ended. (usb_parse_config, usb_set_maxpacket_ep) *)
ConfigIs == whole =>
  /\ Len(config.ifs) = Len(dev.ifs)
  /\ \A i \in DOMAIN config.ifs: LET f == config.ifs[i] IN
       /\ f.n = dev.ifs[i].n /\ f.alts = Len(dev.ifs[i].alts) /\ f.eps = FlattenSeq(dev.ifs[i].alts)
       /\ \A k \in DOMAIN dev.ifs[i].alts[1]:
            LET e == dev.ifs[i].alts[1][k] IN epmaxpacket[<<e.dir, e.num>>] = e.max

(* A device is asked for a setting only where it has several: one with a single
   setting may stall. (usb_set_interface)                                  *)
OnlySeveral == whole => \A n \in sent: \E i \in DOMAIN dev.ifs: dev.ifs[i].n = n /\ Len(dev.ifs[i].alts) > 1

(* A string that is returned is the device's, cut to the caller's buffer, whatever
   came behind it and however many tries it took; one that is not was refused six
   times or left its length out. (usb_string, usb_string_sub)              *)
StringIs == out # NoOut =>
  /\ out.ok => out.text = Cut(IF dev.blank
                              THEN SubSeq(dev.text \o (IF out.junk THEN <<"j">> ELSE <<>>), 1,
                                          Plain(dev.text \o (IF out.junk THEN <<"j">> ELSE <<>>)))
                              ELSE dev.text, out.room)
  /\ ~out.ok => out.refused \/ dev.blank

(* Not so: a configuration that came short is noticed. What the buffer held behind it
   is taken for its rest.                                                  *)
NoticesShort == pc = "ready" => whole
=============================================================================
