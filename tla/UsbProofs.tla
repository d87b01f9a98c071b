----------------------------- MODULE UsbProofs -----------------------------
(***************************************************************************)
(* The USB stack's tables agree, and its polls drop only devices whose     *)
(* port says so, for any tree of hubs, any number of ports and records and *)
(* any moves of the plugs.  Families are least sets, so what is said of    *)
(* one follows from a smaller set that would do.                           *)
(***************************************************************************)
EXTENDS Usb, FiniteSetTheorems, NaturalsInduction, TLAPS

-----------------------------------------------------------------------------
(* The invariant                                                           *)

PortRec == [t: Things \cup {NoThing}, en: BOOLEAN, csc: BOOLEAN, pesc: BOOLEAN]
DevRec == [live: BOOLEAN, thing: Things \cup {NoThing, Root}, parent: 0 .. MaxDev,
           at: 0 .. NPorts, kids: [1 .. NPorts -> 0 .. MaxDev], hub: 0 .. MaxHub, drv: Drivers]
HubRec == [dev: 0 .. MaxDev, tries: [1 .. NPorts -> 0 .. PortTries]]
StorRec == [dev: 0 .. MaxDev, ready: BOOLEAN]
PollRec == [pc: {"idle", "look", "change", "debounce", "reset", "new", "desc", "reset2",
                 "address", "config", "disable"},
            h: 0 .. MaxHub + 1, i: 0 .. NPorts + 1, conn: BOOLEAN, d: 0 .. MaxDev]

(* TypeOK in two: what the bus has, what the stack has.                    *)
WorldOK ==
  /\ port \in [Ports -> PortRec] /\ addr \in [Things -> 0 .. MaxDev]
  /\ powered \subseteq Hubs /\ chip \in {"ok", "lost", "dead"}
  /\ moves \in 0 .. MaxMoves /\ faults \in 0 .. MaxFaults
TablesOK ==
  /\ dev \in [Devs -> DevRec] /\ hub \in [1 .. MaxHub -> HubRec]
  /\ stor \in [1 .. MaxStor -> StorRec] /\ hid \in [1 .. MaxHid -> 0 .. MaxDev]
RunOK == devgone \in 0 .. MaxDev /\ up \in BOOLEAN /\ poll \in PollRec

(* A hub entry's device is a hub: its ports are ports of the bus.          *)
HubThings == \A h \in 1 .. MaxHub : hub[h].dev # 0 => dev[hub[h].dev].thing \in Hubs

(* NoRing, where the root hub has no parent and each device is at a port.  *)
Rooted ==
  /\ dev[RootDev].parent = 0
  /\ \A d \in Live : dev[d].at \in 1 .. NPorts
  /\ \A S \in SUBSET Live : S # {} => \E d \in S : dev[d].parent \notin S

(* SlotsSound, with the slot of each device that was claimed.              *)
Slotted ==
  /\ \A i \in 1 .. MaxStor : stor[i].dev # 0 => stor[i].dev \in Live /\ dev[stor[i].dev].drv = "stor"
  /\ \A i \in 1 .. MaxHid : hid[i] # 0 => hid[i] \in Live /\ dev[hid[i]].drv = "hid"
  /\ \A d \in Live : dev[d].drv # "none" => \E s \in Nat : SlotsOf(d) = {s}

Tables == TablesOK /\ TreeSound /\ Slotted /\ HubThings /\ Rooted

(* Where the daemon is in a poll, and what it has in its hands there.      *)
Enumerating == {"desc", "reset2", "address", "config", "disable"}
Handling == {"change", "debounce", "reset", "new"} \cup Enumerating
Fresh(d) ==
  d \in Live /\ dev[d].thing = NoThing /\ dev[d].drv = "none" /\ dev[d].hub = 0 /\ dev[d].kids = NoKids
Placed ==
  /\ poll.pc # "idle" => up /\ poll.h \in 1 .. MaxHub /\ poll.i \in 1 .. NPorts
  /\ poll.pc = "idle" => poll = Rest
  /\ poll.pc \in Handling => Hdev # 0
  /\ poll.pc = "change" => Child = 0 \/ port[P].csc \/ ~port[P].en
  /\ poll.pc \in {"debounce", "reset", "new"} => Child = 0
  /\ poll.pc \in Enumerating => Child = poll.d /\ Fresh(poll.d)

Downs ==
  /\ up => dev[RootDev].live
  /\ ~up => Live = {} /\ \A h \in 1 .. MaxHub : hub[h].dev = 0

Inv == WorldOK /\ RunOK /\ Tables /\ Placed /\ Downs

-----------------------------------------------------------------------------
(* Lemmas about numbers and sets                                           *)

LEMMA LeastIn ==
  ASSUME NEW n \in Nat, NEW S \in SUBSET (1 .. n), S # {}
  PROVE  Least(S) \in S
<1>1. S \in SUBSET Nat
  OBVIOUS
<1>2. PICK i \in S : \A j \in S : <<j, i>> \notin OpToRel(<, Nat)
  BY <1>1, NatLessThanWellFounded, WFMin, Zenon
<1>3. \A j \in S : i <= j
  <2>1. SUFFICES ASSUME NEW j \in S, j < i PROVE FALSE
    OBVIOUS
  <2>2. <<j, i>> \in Nat \X Nat /\ <<j, i>>[1] < <<j, i>>[2]
    BY <2>1
  <2>3. <<j, i>> \in OpToRel(<, Nat)
    BY <2>2, Zenon DEF OpToRel
  <2> QED  BY <1>2, <2>3, Zenon
<1> QED  BY <1>3, Zenon DEF Least

-----------------------------------------------------------------------------
(* Families                                                                *)

(* What a family is: it is live, it holds what it was asked for and        *)
(* whatever hangs from it, and each of its devices was asked for or hangs  *)
(* from another.                                                           *)
IsFamily(K, F) ==
  /\ F \subseteq Live /\ K \ {0} \subseteq F
  /\ \A d \in F : \A i \in 1 .. NPorts : dev[d].kids[i] \in F \cup {0}
  /\ \A d \in F : d \in K \/ dev[d].parent \in F

KidsOf(g) == {dev[g].kids[i] : i \in 1 .. NPorts}

LEMMA DevsIn ==
  RootDev \in Devs /\ 0 \notin Devs /\ Devs \in SUBSET (0 .. MaxDev)
BY UsbAssumption DEF RootDev, Devs

LEMMA DevIs ==
  ASSUME NEW r \in DevRec
  PROVE  /\ r.live \in BOOLEAN /\ r.thing \in Things \cup {NoThing, Root}
         /\ r.parent \in 0 .. MaxDev /\ r.at \in 0 .. NPorts
         /\ r.kids \in [1 .. NPorts -> 0 .. MaxDev] /\ r.hub \in 0 .. MaxHub /\ r.drv \in Drivers
BY DEF DevRec

LEMMA DevFacts ==
  ASSUME TablesOK, NEW d \in Devs
  PROVE  /\ dev[d] \in DevRec /\ dev[d].live \in BOOLEAN
         /\ dev[d].thing \in Things \cup {NoThing, Root}
         /\ dev[d].parent \in 0 .. MaxDev /\ dev[d].at \in 0 .. NPorts
         /\ dev[d].kids \in [1 .. NPorts -> 0 .. MaxDev]
         /\ \A i \in 1 .. NPorts : dev[d].kids[i] \in 0 .. MaxDev
         /\ dev[d].hub \in 0 .. MaxHub /\ dev[d].drv \in Drivers
<1>1. dev[d] \in DevRec
  BY DEF TablesOK
<1>2. \A f \in [1 .. NPorts -> 0 .. MaxDev] : \A i \in 1 .. NPorts : f[i] \in 0 .. MaxDev
  OBVIOUS
<1> QED  BY <1>1, <1>2, DevIs

LEMMA FamilyMin ==
  ASSUME NEW K, NEW D \in SUBSET Devs, K \subseteq D \cup {0}, Whole(D)
  PROVE  Family(K) \subseteq D
BY DEF Family

LEMMA FamilyHas ==
  ASSUME TablesOK, NEW K \in SUBSET (0 .. MaxDev)
  PROVE  /\ K \ {0} \subseteq Family(K)
         /\ \A d \in Family(K) : \A i \in 1 .. NPorts : dev[d].kids[i] \in Family(K) \cup {0}
<1>1. ASSUME NEW k \in K, k # 0 PROVE k \in Family(K)
  <2>1. k \in Devs
    BY <1>1 DEF Devs
  <2> QED  BY <1>1, <2>1, Zenon DEF Family
<1>2. ASSUME NEW d \in Family(K), NEW i \in 1 .. NPorts, dev[d].kids[i] # 0
      PROVE  dev[d].kids[i] \in Family(K)
  <2>1. d \in Devs /\ \A D \in SUBSET Devs : K \subseteq D \cup {0} /\ Whole(D) => d \in D
    BY Zenon DEF Family
  <2>2. dev[d].kids[i] \in 0 .. MaxDev
    BY <2>1, DevFacts
  <2>3. dev[d].kids[i] \in Devs
    BY <1>2, <2>2 DEF Devs
  <2>4. ASSUME NEW D \in SUBSET Devs, K \subseteq D \cup {0}, Whole(D) PROVE dev[d].kids[i] \in D
    <3>1. d \in D
      BY <2>1, <2>4
    <3> QED  BY <1>2, <2>4, <3>1, Zenon DEF Whole
  <2> QED  BY <2>3, <2>4, Zenon DEF Family
<1> QED  BY <1>1, <1>2

LEMMA KidFacts ==
  ASSUME Tables, NEW d \in Devs, NEW i \in 1 .. NPorts, dev[d].kids[i] # 0
  PROVE  /\ dev[d].live /\ dev[d].kids[i] \in Live /\ dev[d].kids[i] \in Devs
         /\ dev[dev[d].kids[i]].parent = d /\ dev[dev[d].kids[i]].at = i
<1>1. dev[d].kids[i] \in 0 .. MaxDev
  BY DevFacts DEF Tables
<1>2. dev[d].kids[i] \in Devs
  BY <1>1 DEF Devs
<1>3. dev[d].live /\ dev[dev[d].kids[i]].live /\ dev[dev[d].kids[i]].parent = d /\ dev[dev[d].kids[i]].at = i
  BY DEF Tables, TreeSound
<1>4. d # 0
  BY DevsIn
<1>5. dev[d].kids[i] # RootDev
  BY <1>3, <1>4 DEF Tables, Rooted
<1> QED  BY <1>2, <1>3, <1>5 DEF Live

LEMMA ParentFacts ==
  ASSUME Tables, NEW d \in Live
  PROVE  /\ dev[d].parent \in Devs /\ dev[dev[d].parent].live
         /\ dev[d].at \in 1 .. NPorts /\ dev[dev[d].parent].kids[dev[d].at] = d
<1>1. d \in Devs /\ dev[d].parent \in 0 .. MaxDev /\ dev[d].at \in 1 .. NPorts
  BY DevFacts DEF Live, Tables, Rooted
<1>2. dev[d].parent # 0 /\ dev[dev[d].parent].live /\ dev[dev[d].parent].kids[dev[d].at] = d
  BY Zenon DEF Tables, TreeSound
<1> QED  BY <1>1, <1>2 DEF Devs

LEMMA FamilyIs ==
  ASSUME Tables, NEW g \in Devs, NEW K \in SUBSET KidsOf(g)
  PROVE  IsFamily(K, Family(K))
<1> DEFINE F == Family(K)
           G == {d \in F : d \in Live /\ (d \in K \/ dev[d].parent \in F)}
<1>1. K \subseteq 0 .. MaxDev
  BY DevFacts DEF Tables, KidsOf
<1>2. K \ {0} \subseteq F /\ \A d \in F : \A i \in 1 .. NPorts : dev[d].kids[i] \in F \cup {0}
  BY <1>1, FamilyHas DEF Tables
<1>3. F \subseteq Devs
  BY DEF Family
<1>4. \A k \in K \ {0} : k \in Live
  BY KidFacts DEF KidsOf
<1>5. K \subseteq G \cup {0}
  BY <1>2, <1>4
<1>6. Whole(G)
  <2>1. SUFFICES ASSUME NEW d \in G, NEW i \in 1 .. NPorts, dev[d].kids[i] # 0
                 PROVE  dev[d].kids[i] \in G
    BY Zenon DEF Whole
  <2>2. d \in Devs /\ dev[d].kids[i] \in F
    BY <1>2, <1>3, <2>1
  <2>3. dev[d].kids[i] \in Live /\ dev[dev[d].kids[i]].parent = d
    BY <2>1, <2>2, KidFacts
  <2> QED  BY <2>2, <2>3
<1>7. F \subseteq G
  <2> HIDE DEF G
  <2>1. G \in SUBSET Devs
    BY <1>3 DEF G
  <2> QED  BY <1>5, <1>6, <2>1, FamilyMin
<1> QED  BY <1>2, <1>7, Zenon DEF IsFamily

(* A device is no member of its own children's family.                     *)
LEMMA FamilyBelow ==
  ASSUME Tables, NEW g \in Devs, NEW K \in SUBSET KidsOf(g), NEW F, IsFamily(K, F)
  PROVE  g \notin F
<1>1. SUFFICES ASSUME g \in F PROVE FALSE
  OBVIOUS
<1>2. ASSUME NEW d \in F PROVE dev[d].parent \in F
  <2>1. CASE d \in K
    <3>1. d # 0 /\ d \in Live
      BY DevsIn DEF IsFamily, Live
    <3>2. dev[d].parent = g
      BY <2>1, <3>1, KidFacts DEF KidsOf
    <3> QED  BY <1>1, <3>2
  <2> QED  BY <2>1 DEF IsFamily
<1>3. F \in SUBSET Live /\ F # {}
  BY <1>1 DEF IsFamily
<1> QED  BY <1>2, <1>3, Zenon DEF Tables, Rooted

(* Everything that is live hangs from the root hub.                        *)
LEMMA FamilyAll ==
  ASSUME Tables
  PROVE  Family(KidsOf(RootDev)) = Live
<1> DEFINE K == KidsOf(RootDev)
           S == Live \ Family(K)
<1>1. IsFamily(K, Family(K))
  BY FamilyIs, DevsIn
<1>2. S = {}
  <2>1. SUFFICES ASSUME S # {} PROVE FALSE
    OBVIOUS
  <2>2. PICK d \in S : dev[d].parent \notin S
    <3> HIDE DEF S
    <3>1. S \in SUBSET Live
      BY DEF S
    <3> QED  BY <2>1, <3>1, Zenon DEF Tables, Rooted
  <2>3. /\ dev[d].parent \in Devs /\ dev[dev[d].parent].live
        /\ dev[d].at \in 1 .. NPorts /\ dev[dev[d].parent].kids[dev[d].at] = d
    BY ParentFacts
  <2>4. d \in Devs /\ d # 0
    BY DevsIn DEF Live
  <2>6. CASE dev[d].parent = RootDev
    BY <1>1, <2>3, <2>4, <2>6 DEF KidsOf, IsFamily
  <2>7. CASE dev[d].parent # RootDev
    <3>1. dev[d].parent \in Live
      BY <2>3, <2>7 DEF Live
    <3>2. dev[d].parent \in Family(K)
      BY <2>2, <3>1
    <3> QED  BY <1>1, <2>3, <2>4, <3>2, Zenon DEF IsFamily
  <2> QED  BY <2>6, <2>7
<1> QED  BY <1>1, <1>2 DEF IsFamily

-----------------------------------------------------------------------------
(* A family cut off                                                        *)

Cut(g, K, F) ==
  /\ dev' = [e \in Devs |-> IF e \in F THEN NoDev
               ELSE IF e = g THEN [dev[e] EXCEPT !.kids = [i \in 1 .. NPorts |-> IF @[i] \in K THEN 0 ELSE @[i]]]
               ELSE dev[e]]
  /\ hub' = [h \in 1 .. MaxHub |-> IF hub[h].dev \in F THEN NoHub ELSE hub[h]]
  /\ stor' = StorWithout(F) /\ hid' = HidWithout(F)

LEMMA NoDevIs ==
  /\ NoDev \in DevRec /\ ~NoDev.live /\ NoDev.thing = NoThing /\ NoDev.parent = 0 /\ NoDev.kids = NoKids
  /\ NoDev.hub = 0 /\ NoDev.drv = "none" /\ \A i \in 1 .. NPorts : NoDev.kids[i] = 0
<1>1. /\ ~NoDev.live /\ NoDev.thing = NoThing /\ NoDev.parent = 0 /\ NoDev.kids = NoKids /\ NoDev.at = 0
      /\ NoDev.hub = 0 /\ NoDev.drv = "none" /\ \A i \in 1 .. NPorts : NoDev.kids[i] = 0
  BY DEF NoDev, NoKids
<1>2. NoKids \in [1 .. NPorts -> 0 .. MaxDev] /\ 0 \in 0 .. MaxDev /\ 0 \in 0 .. MaxHub /\ 0 \in 0 .. NPorts
  BY UsbAssumption DEF NoKids
<1>3. NoDev \in DevRec
  BY <1>2 DEF NoDev, DevRec, Drivers
<1> QED  BY <1>1, <1>3

LEMMA NoHubIs ==
  NoHub \in HubRec /\ NoHub.dev = 0
BY UsbAssumption DEF NoHub, HubRec, NoKids

(* What the cut leaves of a record.                                        *)
SameBut(r, s) ==
  /\ r.live = s.live /\ r.thing = s.thing /\ r.parent = s.parent /\ r.at = s.at
  /\ r.hub = s.hub /\ r.drv = s.drv

LEMMA CutDev ==
  ASSUME TablesOK, NEW g, NEW K, NEW F, Cut(g, K, F), NEW e \in Devs
  PROVE  /\ dev'[e] \in DevRec
         /\ e \in F => dev'[e] = NoDev
         /\ e \notin F => /\ SameBut(dev'[e], dev[e])
                         /\ \A i \in 1 .. NPorts : dev'[e].kids[i] =
                              IF e = g /\ dev[e].kids[i] \in K THEN 0 ELSE dev[e].kids[i]
<1> DEFINE r == dev[e]
           k == [i \in 1 .. NPorts |-> IF r.kids[i] \in K THEN 0 ELSE r.kids[i]]
<1>1. r \in DevRec /\ \A i \in 1 .. NPorts : r.kids[i] \in 0 .. MaxDev
  BY DevFacts
<1>2. dev'[e] = IF e \in F THEN NoDev ELSE IF e = g THEN [r EXCEPT !.kids = k] ELSE r
  BY DEF Cut
<1>3. k \in [1 .. NPorts -> 0 .. MaxDev] /\ \A i \in 1 .. NPorts : k[i] = IF r.kids[i] \in K THEN 0 ELSE r.kids[i]
  BY <1>1, UsbAssumption
<1> HIDE DEF r, k
<1>4. ASSUME NEW x, x = [r EXCEPT !.kids = k] PROVE x \in DevRec /\ SameBut(x, r) /\ x.kids = k
  BY <1>1, <1>3, <1>4 DEF DevRec, SameBut
<1>5. SameBut(r, r)
  BY DEF SameBut
<1>6. CASE e \in F
  BY <1>2, <1>6, NoDevIs
<1>7. CASE e \notin F /\ e = g
  BY <1>2, <1>3, <1>4, <1>7 DEF r
<1>8. CASE e \notin F /\ e # g
  BY <1>1, <1>2, <1>5, <1>8 DEF r
<1> QED  BY <1>6, <1>7, <1>8

LEMMA CutSlots ==
  ASSUME TablesOK, NEW g, NEW K, NEW F, 0 \notin F, Cut(g, K, F)
  PROVE  /\ TablesOK'
         /\ \A h \in 1 .. MaxHub : hub'[h].dev # 0 => hub'[h] = hub[h] /\ hub[h].dev \notin F
         /\ \A i \in 1 .. MaxStor : stor'[i].dev = IF stor[i].dev \in F THEN 0 ELSE stor[i].dev
         /\ \A i \in 1 .. MaxHid : hid'[i] = IF hid[i] \in F THEN 0 ELSE hid[i]
<1>1. dev' \in [Devs -> DevRec]
  <2>1. dev' = [e \in Devs |-> dev'[e]]
    BY DEF Cut
  <2>2. \A e \in Devs : dev'[e] \in DevRec
    BY CutDev
  <2> QED  BY <2>1, <2>2
<1>2. hub' \in [1 .. MaxHub -> HubRec]
  BY NoHubIs DEF Cut, TablesOK
<1>3. \A h \in 1 .. MaxHub : hub'[h].dev # 0 => hub'[h] = hub[h] /\ hub[h].dev \notin F
  BY NoHubIs DEF Cut
<1>4. [dev |-> 0, ready |-> FALSE] \in StorRec
  BY UsbAssumption DEF StorRec
<1>5. stor' \in [1 .. MaxStor -> StorRec]
  BY <1>4 DEF Cut, StorWithout, TablesOK
<1>6. hid' \in [1 .. MaxHid -> 0 .. MaxDev]
  BY UsbAssumption DEF Cut, HidWithout, TablesOK
<1>7. \A i \in 1 .. MaxStor : stor'[i].dev = IF stor[i].dev \in F THEN 0 ELSE stor[i].dev
  BY DEF Cut, StorWithout
<1>8. \A i \in 1 .. MaxHid : hid'[i] = IF hid[i] \in F THEN 0 ELSE hid[i]
  BY DEF Cut, HidWithout
<1> QED  BY <1>1, <1>2, <1>3, <1>5, <1>6, <1>7, <1>8 DEF TablesOK

LEMMA CutKeeps ==
  ASSUME Tables, NEW g \in Devs, NEW K \in SUBSET KidsOf(g), NEW F, IsFamily(K, F), Cut(g, K, F)
  PROVE  Tables' /\ Live' = Live \ F
<1>0. g \notin F /\ 0 \notin F /\ RootDev \notin F /\ TablesOK
  <2>1. g \notin F
    BY FamilyBelow, Zenon
  <2>2. F \subseteq Live /\ TablesOK
    BY DEF IsFamily, Tables
  <2> QED  BY <2>1, <2>2, DevsIn DEF Live
<1>1. /\ TablesOK'
      /\ \A h \in 1 .. MaxHub : hub'[h].dev # 0 => hub'[h] = hub[h] /\ hub[h].dev \notin F
      /\ \A i \in 1 .. MaxStor : stor'[i].dev = IF stor[i].dev \in F THEN 0 ELSE stor[i].dev
      /\ \A i \in 1 .. MaxHid : hid'[i] = IF hid[i] \in F THEN 0 ELSE hid[i]
  BY <1>0, CutSlots
<1>2. \A e \in F : dev'[e] = NoDev
  BY <1>0, CutDev DEF IsFamily, Live
<1>3. \A e \in Devs \ F :
        /\ SameBut(dev'[e], dev[e])
        /\ \A i \in 1 .. NPorts : dev'[e].kids[i] =
             IF e = g /\ dev[e].kids[i] \in K THEN 0 ELSE dev[e].kids[i]
  BY <1>0, CutDev
<1>4. Live' = Live \ F
  <2>1. \A e \in F : ~dev'[e].live
    BY <1>2, NoDevIs
  <2>2. \A e \in Devs \ F : dev'[e].live = dev[e].live
    BY <1>3, Zenon DEF SameBut
  <2> QED  BY <2>1, <2>2 DEF Live
<1>5. \A d \in Live' : LET q == dev'[d].parent IN q # 0 /\ dev'[q].live /\ dev'[q].kids[dev'[d].at] = d
  <2>1. SUFFICES ASSUME NEW d \in Live, d \notin F
                 PROVE  /\ dev'[d].parent # 0 /\ dev'[dev'[d].parent].live
                        /\ dev'[dev'[d].parent].kids[dev'[d].at] = d
    BY <1>4, Zenon
  <2> DEFINE q == dev[d].parent
  <2>2. q \in Devs /\ dev[q].live /\ dev[d].at \in 1 .. NPorts /\ dev[q].kids[dev[d].at] = d /\ d \in Devs /\ d # 0
    BY <2>1, ParentFacts, DevsIn DEF Live
  <2>3. dev'[d].parent = q /\ dev'[d].at = dev[d].at
    BY <1>3, <2>1, <2>2 DEF SameBut
  <2>4. q \notin F
    BY <2>1, <2>2 DEF IsFamily
  <2>5. dev'[q].live
    BY <1>3, <2>2, <2>4, Zenon DEF SameBut
  <2>6. d \notin K
    BY <2>1, <2>2 DEF IsFamily
  <2>7. dev'[q].kids[dev[d].at] = d
    BY <1>3, <2>2, <2>4, <2>6
  <2> QED  BY <2>2, <2>3, <2>5, <2>7, DevsIn
<1>6. \A d \in Devs : \A i \in 1 .. NPorts : LET k == dev'[d].kids[i] IN
        k # 0 => dev'[d].live /\ dev'[k].live /\ dev'[k].parent = d /\ dev'[k].at = i
  <2>1. SUFFICES ASSUME NEW d \in Devs, NEW i \in 1 .. NPorts, dev'[d].kids[i] # 0
                 PROVE  /\ dev'[d].live /\ dev'[dev'[d].kids[i]].live
                        /\ dev'[dev'[d].kids[i]].parent = d /\ dev'[dev'[d].kids[i]].at = i
    OBVIOUS
  <2>2. d \notin F
    BY <1>2, <2>1, NoDevIs
  <2> DEFINE k == dev[d].kids[i]
  <2>3. dev'[d].kids[i] = k /\ k # 0 /\ ~(d = g /\ k \in K)
    BY <1>3, <2>1, <2>2
  <2>4. dev[d].live /\ k \in Live /\ k \in Devs /\ dev[k].parent = d /\ dev[k].at = i
    BY <2>3, KidFacts
  <2>5. k \notin F
    <3>1. k \in K => d = g
      <4>1. SUFFICES ASSUME k \in K PROVE d = g
        OBVIOUS
      <4>2. PICK j \in 1 .. NPorts : k = dev[g].kids[j]
        BY <4>1 DEF KidsOf
      <4> QED  BY <2>3, <2>4, <4>2, KidFacts
    <3> QED  BY <2>2, <2>3, <2>4, <3>1 DEF IsFamily
  <2>6. SameBut(dev'[d], dev[d]) /\ SameBut(dev'[k], dev[k])
    BY <1>3, <2>2, <2>4, <2>5
  <2> QED  BY <2>3, <2>4, <2>6, Zenon DEF SameBut, Live
<1>7. \A h \in 1 .. MaxHub : hub'[h].dev # 0 =>
        /\ dev'[hub'[h].dev].live /\ dev'[hub'[h].dev].hub = h
        /\ dev'[hub'[h].dev].thing \in Hubs
  <2>1. SUFFICES ASSUME NEW h \in 1 .. MaxHub, hub'[h].dev # 0
                 PROVE  /\ dev'[hub'[h].dev].live /\ dev'[hub'[h].dev].hub = h
                        /\ dev'[hub'[h].dev].thing \in Hubs
    OBVIOUS
  <2>2. hub'[h] = hub[h] /\ hub[h].dev \notin F /\ hub[h].dev # 0
    BY <1>1, <2>1
  <2>3. hub[h].dev \in Devs
    BY <1>0, <2>2 DEF TablesOK, HubRec, Devs
  <2>4. dev[hub[h].dev].live /\ dev[hub[h].dev].hub = h /\ dev[hub[h].dev].thing \in Hubs
    BY <2>2, Zenon DEF Tables, TreeSound, HubThings
  <2>5. SameBut(dev'[hub[h].dev], dev[hub[h].dev])
    BY <1>3, <2>2, <2>3
  <2> QED  BY <2>2, <2>4, <2>5, Zenon DEF SameBut
<1>8. Slotted'
  <2>1. ASSUME NEW i \in 1 .. MaxStor, stor'[i].dev # 0
        PROVE  stor'[i].dev \in Live' /\ dev'[stor'[i].dev].drv = "stor"
    <3>1. stor'[i].dev = stor[i].dev /\ stor[i].dev \notin F /\ stor[i].dev # 0
      BY <1>1, <2>1
    <3>2. stor[i].dev \in Live /\ dev[stor[i].dev].drv = "stor"
      BY <3>1 DEF Tables, Slotted
    <3> QED  BY <1>3, <1>4, <3>1, <3>2 DEF SameBut, Live
  <2>2. ASSUME NEW i \in 1 .. MaxHid, hid'[i] # 0
        PROVE  hid'[i] \in Live' /\ dev'[hid'[i]].drv = "hid"
    <3>1. hid'[i] = hid[i] /\ hid[i] \notin F /\ hid[i] # 0
      BY <1>1, <2>2
    <3>2. hid[i] \in Live /\ dev[hid[i]].drv = "hid"
      BY <3>1 DEF Tables, Slotted
    <3> QED  BY <1>3, <1>4, <3>1, <3>2 DEF SameBut, Live
  <2>3. ASSUME NEW d \in Live', dev'[d].drv # "none" PROVE \E s \in Nat : SlotsOf(d)' = {s}
    <3>1. d \in Live /\ d \notin F /\ d # 0
      BY <1>4, DevsIn DEF Live
    <3>2. dev[d].drv # "none"
      BY <1>3, <2>3, <3>1 DEF SameBut, Live
    <3>3. /\ \A i \in 1 .. MaxStor : stor'[i].dev = d <=> stor[i].dev = d
          /\ \A i \in 1 .. MaxHid : hid'[i] = d <=> hid[i] = d
      BY <1>1, <3>1
    <3>4. SlotsOf(d)' = SlotsOf(d)
      BY <3>3 DEF SlotsOf
    <3> QED  BY <3>1, <3>2, <3>4 DEF Tables, Slotted
  <2> QED  BY <2>1, <2>2, <2>3 DEF Slotted
<1>9. Rooted'
  <2>1. dev'[RootDev].parent = 0
    BY <1>0, <1>3, DevsIn DEF SameBut, Tables, Rooted
  <2>2. \A d \in Live' : dev'[d].parent = dev[d].parent /\ dev'[d].at = dev[d].at
    BY <1>3, <1>4 DEF SameBut, Live
  <2>3. \A d \in Live' : dev'[d].at \in 1 .. NPorts
    BY <1>4, <2>2 DEF Tables, Rooted
  <2>4. \A S \in SUBSET Live' : S # {} => \E d \in S : dev'[d].parent \notin S
    BY <1>4, <2>2 DEF Tables, Rooted
  <2> QED  BY <2>1, <2>3, <2>4 DEF Rooted
<1>10. TreeSound' /\ HubThings'
  BY <1>5, <1>6, <1>7 DEF TreeSound, HubThings
<1> QED  BY <1>1, <1>4, <1>8, <1>9, <1>10 DEF Tables

-----------------------------------------------------------------------------
(* A record taken, a device claimed                                        *)

(* usb_alloc_new_device for port i of hub g.                               *)
Taken(d, g, i) ==
  dev' = [dev EXCEPT ![d] = [NoDev EXCEPT !.live = TRUE, !.parent = g, !.at = i], ![g].kids[i] = d]

LEMMA TakenDev ==
  ASSUME TablesOK, NEW d \in Devs, NEW g \in Devs, d # g, NEW i \in 1 .. NPorts, Taken(d, g, i)
  PROVE  /\ dev' \in [Devs -> DevRec]
         /\ dev'[d].live /\ dev'[d].parent = g /\ dev'[d].at = i /\ dev'[d].kids = NoKids
         /\ dev'[d].thing = NoThing /\ dev'[d].hub = 0 /\ dev'[d].drv = "none"
         /\ \A e \in Devs \ {d} : SameBut(dev'[e], dev[e])
         /\ \A e \in Devs \ {d, g} : dev'[e] = dev[e]
         /\ \A j \in 1 .. NPorts : dev'[g].kids[j] = IF j = i THEN d ELSE dev[g].kids[j]
<1> DEFINE r == [NoDev EXCEPT !.live = TRUE, !.parent = g, !.at = i]
           x == dev[g]
           y == [x EXCEPT !.kids[i] = d]
<1>1. dev' = [dev EXCEPT ![d] = r, ![g] = y]
  BY DEF Taken, TablesOK
<1>2. /\ r \in DevRec /\ r.live /\ r.parent = g /\ r.at = i /\ r.kids = NoKids
      /\ r.thing = NoThing /\ r.hub = 0 /\ r.drv = "none"
  <2>1. NoDev \in DevRec /\ g \in 0 .. MaxDev /\ i \in 0 .. NPorts
    BY NoDevIs DEF Devs
  <2>2. r \in DevRec
    BY <2>1 DEF DevRec
  <2> QED  BY <2>2 DEF NoDev
<1>3. x \in DevRec /\ d \in 0 .. MaxDev /\ x.kids \in [1 .. NPorts -> 0 .. MaxDev]
  BY DevFacts DEF Devs
<1>4. y \in DevRec /\ SameBut(y, x) /\ \A j \in 1 .. NPorts : y.kids[j] = IF j = i THEN d ELSE x.kids[j]
  <2> HIDE DEF x
  <2>1. [x.kids EXCEPT ![i] = d] \in [1 .. NPorts -> 0 .. MaxDev]
    BY <1>3
  <2>2. y \in DevRec /\ y.kids = [x.kids EXCEPT ![i] = d]
    BY <1>3, <2>1 DEF DevRec
  <2>3. SameBut(y, x)
    BY <1>3 DEF DevRec, SameBut
  <2> QED  BY <1>3, <2>2, <2>3
<1> HIDE DEF r, x, y
<1>5. dev \in [Devs -> DevRec]
  BY DEF TablesOK
<1>6. dev'[d] = r /\ dev'[g] = y /\ dev' \in [Devs -> DevRec] /\ \A e \in Devs \ {d, g} : dev'[e] = dev[e]
  BY <1>1, <1>2, <1>4, <1>5
<1>7. \A e \in Devs \ {d} : SameBut(dev'[e], dev[e])
  BY <1>4, <1>6 DEF x, SameBut
<1> QED  BY <1>2, <1>4, <1>6, <1>7 DEF x

LEMMA TakenKeeps ==
  ASSUME Tables, NEW d \in Devs, ~dev[d].live, d # RootDev,
         NEW g \in Devs, dev[g].live, NEW i \in 1 .. NPorts, dev[g].kids[i] = 0,
         Taken(d, g, i), UNCHANGED <<hub, slots>>
  PROVE  Tables' /\ Live' = Live \cup {d} /\ Fresh(d)' /\ dev'[g].kids[i] = d
<1>0. d # g /\ d # 0 /\ TablesOK /\ d \notin Live
  BY DevsIn DEF Tables, Live
<1>1. /\ dev' \in [Devs -> DevRec]
      /\ dev'[d].live /\ dev'[d].parent = g /\ dev'[d].at = i /\ dev'[d].kids = NoKids
      /\ dev'[d].thing = NoThing /\ dev'[d].hub = 0 /\ dev'[d].drv = "none"
      /\ \A e \in Devs \ {d} : SameBut(dev'[e], dev[e])
      /\ \A e \in Devs \ {d, g} : dev'[e] = dev[e]
      /\ \A j \in 1 .. NPorts : dev'[g].kids[j] = IF j = i THEN d ELSE dev[g].kids[j]
  BY <1>0, TakenDev
<1>2. hub' = hub /\ stor' = stor /\ hid' = hid
  BY DEF slots
<1>3. Live' = Live \cup {d}
  <2>1. \A e \in Devs \ {d} : dev'[e].live = dev[e].live
    BY <1>1, Zenon DEF SameBut
  <2> QED  BY <1>1, <2>1 DEF Live
<1>4. TablesOK'
  BY <1>0, <1>1, <1>2 DEF TablesOK
<1>5. \A e \in Live' : LET q == dev'[e].parent IN q # 0 /\ dev'[q].live /\ dev'[q].kids[dev'[e].at] = e
  <2>1. ASSUME NEW e \in Live
        PROVE  dev'[e].parent # 0 /\ dev'[dev'[e].parent].live /\ dev'[dev'[e].parent].kids[dev'[e].at] = e
    <3> DEFINE q == dev[e].parent
    <3>1. q \in Devs /\ dev[q].live /\ dev[e].at \in 1 .. NPorts /\ dev[q].kids[dev[e].at] = e /\ e \in Devs /\ e # 0
      BY <2>1, ParentFacts, DevsIn DEF Live
    <3>2. dev'[e].parent = q /\ dev'[e].at = dev[e].at
      BY <1>0, <1>1, <3>1 DEF SameBut
    <3>3. q # d /\ SameBut(dev'[q], dev[q])
      <4>1. q # d
        BY <3>1
      <4> QED  BY <1>1, <3>1, <4>1
    <3>4. dev'[q].live
      BY <3>1, <3>3, Zenon DEF SameBut
    <3>5. dev'[q].kids[dev[e].at] = e
      BY <1>1, <3>1, <3>3
    <3> QED  BY <3>1, <3>2, <3>4, <3>5, DevsIn
  <2>2. dev'[d].parent # 0 /\ dev'[dev'[d].parent].live /\ dev'[dev'[d].parent].kids[dev'[d].at] = d
    <3>1. SameBut(dev'[g], dev[g])
      BY <1>0, <1>1
    <3>2. dev'[g].live
      BY <3>1, Zenon DEF SameBut
    <3> QED  BY <1>1, <3>2, DevsIn
  <2> QED  BY <1>3, <2>1, <2>2
<1>6. \A e \in Devs : \A j \in 1 .. NPorts : LET k == dev'[e].kids[j] IN
        k # 0 => dev'[e].live /\ dev'[k].live /\ dev'[k].parent = e /\ dev'[k].at = j
  <2>1. SUFFICES ASSUME NEW e \in Devs, NEW j \in 1 .. NPorts, dev'[e].kids[j] # 0
                 PROVE  /\ dev'[e].live /\ dev'[dev'[e].kids[j]].live
                        /\ dev'[dev'[e].kids[j]].parent = e /\ dev'[dev'[e].kids[j]].at = j
    OBVIOUS
  <2>2. e # d
    <3>1. NoKids[j] = 0
      BY DEF NoKids
    <3>2. ASSUME e = d PROVE FALSE
      BY <1>1, <2>1, <3>1, <3>2, Zenon
    <3> QED  BY <3>2
  <2>3. CASE e = g /\ j = i
    <3>1. SameBut(dev'[g], dev[g])
      BY <1>0, <1>1
    <3>2. dev'[g].live
      BY <3>1, Zenon DEF SameBut
    <3>3. dev'[e].kids[j] = d
      BY <1>1, <2>3
    <3> QED  BY <1>1, <2>3, <3>2, <3>3
  <2>4. CASE ~(e = g /\ j = i)
    <3> DEFINE k == dev[e].kids[j]
    <3>1. dev'[e].kids[j] = k /\ k # 0
      BY <1>1, <2>1, <2>2, <2>4
    <3>2. dev[e].live /\ k \in Live /\ k \in Devs /\ dev[k].parent = e /\ dev[k].at = j
      BY <3>1, KidFacts
    <3>3. SameBut(dev'[e], dev[e]) /\ SameBut(dev'[k], dev[k])
      BY <1>0, <1>1, <2>2, <3>2
    <3> QED  BY <3>1, <3>2, <3>3, Zenon DEF SameBut, Live
  <2> QED  BY <2>3, <2>4
<1>7. \A h \in 1 .. MaxHub : hub[h].dev # 0 =>
        dev'[hub[h].dev].live /\ dev'[hub[h].dev].hub = h /\ dev'[hub[h].dev].thing \in Hubs
  <2>1. SUFFICES ASSUME NEW h \in 1 .. MaxHub, hub[h].dev # 0
                 PROVE  dev'[hub[h].dev].live /\ dev'[hub[h].dev].hub = h /\ dev'[hub[h].dev].thing \in Hubs
    OBVIOUS
  <2>2. dev[hub[h].dev].live /\ dev[hub[h].dev].hub = h /\ dev[hub[h].dev].thing \in Hubs
    BY <2>1, Zenon DEF Tables, TreeSound, HubThings
  <2>3. hub[h].dev \in Devs \ {d}
    BY <1>0, <2>1, <2>2 DEF TablesOK, HubRec, Devs
  <2>4. SameBut(dev'[hub[h].dev], dev[hub[h].dev])
    BY <1>1, <2>3
  <2> QED  BY <2>2, <2>4, Zenon DEF SameBut
<1>8. Slotted'
  <2>1. \A e \in Live : e \in Live' /\ dev'[e].drv = dev[e].drv
    BY <1>0, <1>1, <1>3 DEF SameBut, Live
  <2>2. /\ \A i1 \in 1 .. MaxStor : stor'[i1].dev # 0 => stor'[i1].dev \in Live' /\ dev'[stor'[i1].dev].drv = "stor"
        /\ \A i1 \in 1 .. MaxHid : hid'[i1] # 0 => hid'[i1] \in Live' /\ dev'[hid'[i1]].drv = "hid"
    BY <1>2, <2>1 DEF Tables, Slotted
  <2>3. \A e : SlotsOf(e)' = SlotsOf(e)
    BY <1>2 DEF SlotsOf
  <2>4. ASSUME NEW e \in Live', dev'[e].drv # "none" PROVE \E s \in Nat : SlotsOf(e)' = {s}
    <3>1. e \in Live /\ dev[e].drv # "none"
      BY <1>1, <1>3, <2>1, <2>4
    <3> QED  BY <2>3, <3>1 DEF Tables, Slotted
  <2> QED  BY <2>2, <2>4 DEF Slotted
<1>9. Rooted'
  <2>1. \A e \in Live : dev'[e].parent = dev[e].parent /\ dev'[e].at = dev[e].at
    BY <1>0, <1>1 DEF SameBut, Live
  <2>2. dev'[RootDev].parent = 0
    BY <1>1, DevsIn DEF SameBut, Tables, Rooted
  <2>3. \A e \in Live' : dev'[e].at \in 1 .. NPorts
    BY <1>1, <1>3, <2>1 DEF Tables, Rooted
  <2>4. ASSUME NEW S \in SUBSET Live', S # {} PROVE \E e \in S : dev'[e].parent \notin S
    <3>1. CASE S \subseteq {d}
      <4>1. d \in S /\ g \notin S
        BY <1>0, <2>4, <3>1
      <4> QED  BY <1>1, <4>1
    <3>2. CASE ~(S \subseteq {d})
      <4>1. S \ {d} \in SUBSET Live /\ S \ {d} # {}
        BY <1>3, <3>2
      <4>2. PICK e \in S \ {d} : dev[e].parent \notin S \ {d}
        BY <4>1, Zenon DEF Tables, Rooted
      <4>3. e \in Live
        BY <4>1
      <4>4. dev[e].parent # d
        BY <1>0, <4>3, ParentFacts
      <4> QED  BY <2>1, <4>2, <4>3, <4>4
    <3> QED  BY <3>1, <3>2
  <2> QED  BY <2>2, <2>3, <2>4 DEF Rooted
<1>10. TreeSound' /\ HubThings'
  BY <1>2, <1>5, <1>6, <1>7 DEF TreeSound, HubThings
<1>11. Fresh(d)'
  BY <1>1, <1>3 DEF Fresh
<1> QED  BY <1>1, <1>3, <1>4, <1>8, <1>9, <1>10, <1>11 DEF Tables

(* usb_find_interface_driver's outcome for the record d.                   *)
Claimed(d, h, drv, t) ==
  /\ dev' = [dev EXCEPT ![d].thing = t, ![d].hub = h, ![d].drv = drv]
  /\ hub' = [x \in 1 .. MaxHub |-> IF x = h THEN [NoHub EXCEPT !.dev = d] ELSE hub[x]]
SlotGiven(d, drv) ==
  \/ drv = "none" /\ stor' = stor /\ hid' = hid
  \/ /\ drv = "stor" /\ hid' = hid
     /\ \E i \in FreeStor, ready \in BOOLEAN : stor' = [stor EXCEPT ![i] = [dev |-> d, ready |-> ready]]
  \/ drv = "hid" /\ stor' = stor /\ \E i \in FreeHid : hid' = [hid EXCEPT ![i] = d]

LEMMA ClaimedDev ==
  ASSUME TablesOK, NEW d \in Devs, NEW h \in 0 .. MaxHub, NEW drv \in Drivers, NEW t \in Things,
         Claimed(d, h, drv, t)
  PROVE  /\ dev' \in [Devs -> DevRec]
         /\ dev'[d].thing = t /\ dev'[d].hub = h /\ dev'[d].drv = drv
         /\ dev'[d].live = dev[d].live /\ dev'[d].parent = dev[d].parent
         /\ dev'[d].at = dev[d].at /\ dev'[d].kids = dev[d].kids
         /\ \A e \in Devs \ {d} : dev'[e] = dev[e]
<1> DEFINE x == dev[d]
           y == [x EXCEPT !.thing = t, !.hub = h, !.drv = drv]
<1>1. dev \in [Devs -> DevRec] /\ x \in DevRec
  BY DEF TablesOK
<1>2. dev' = [dev EXCEPT ![d] = y]
  BY <1>1 DEF Claimed
<1> HIDE DEF x
<1>3. /\ y \in DevRec /\ y.thing = t /\ y.hub = h /\ y.drv = drv
      /\ y.live = x.live /\ y.parent = x.parent /\ y.at = x.at /\ y.kids = x.kids
  BY <1>1 DEF DevRec
<1> HIDE DEF y
<1>4. dev' \in [Devs -> DevRec] /\ dev'[d] = y /\ \A e \in Devs \ {d} : dev'[e] = dev[e]
  BY <1>1, <1>2, <1>3
<1> QED  BY <1>3, <1>4 DEF x

LEMMA SlotGivenIs ==
  ASSUME Tables, NEW d \in Live, dev[d].drv = "none", NEW drv \in Drivers, SlotGiven(d, drv)
  PROVE  /\ stor' \in [1 .. MaxStor -> StorRec] /\ hid' \in [1 .. MaxHid -> 0 .. MaxDev]
         /\ \A i \in 1 .. MaxStor : stor'[i].dev = d => drv = "stor"
         /\ \A i \in 1 .. MaxHid : hid'[i] = d => drv = "hid"
         /\ \A e \in Live \ {d} : SlotsOf(e)' = SlotsOf(e)
         /\ \A i \in 1 .. MaxStor : stor'[i].dev # d => stor'[i] = stor[i]
         /\ \A i \in 1 .. MaxHid : hid'[i] # d => hid'[i] = hid[i]
         /\ drv # "none" => \E s \in Nat : SlotsOf(d)' = {s}
<1>1. /\ stor \in [1 .. MaxStor -> StorRec] /\ hid \in [1 .. MaxHid -> 0 .. MaxDev]
      /\ d # 0 /\ d \in 0 .. MaxDev
  BY DevsIn DEF Tables, TablesOK, Live
<1>2. /\ \A i \in 1 .. MaxStor : stor[i].dev # d
      /\ \A i \in 1 .. MaxHid : hid[i] # d
  BY <1>1 DEF Tables, Slotted
<1>3. CASE drv = "none"
  <2>1. stor' = stor /\ hid' = hid
    BY <1>3 DEF SlotGiven
  <2> QED  BY <1>1, <1>2, <1>3, <2>1 DEF SlotsOf
<1>4. CASE drv = "stor"
  <2>1. hid' = hid
    BY <1>4 DEF SlotGiven
  <2>2. PICK i \in FreeStor, ready \in BOOLEAN : stor' = [stor EXCEPT ![i] = [dev |-> d, ready |-> ready]]
    BY <1>4 DEF SlotGiven
  <2> DEFINE n == [dev |-> d, ready |-> ready]
  <2>3. n \in StorRec /\ n.dev = d
    BY <1>1 DEF StorRec
  <2> HIDE DEF n
  <2>4. i \in 1 .. MaxStor /\ stor[i].dev = 0 /\ stor' = [stor EXCEPT ![i] = n]
    BY <2>2 DEF FreeStor, n
  <2>5. /\ stor' \in [1 .. MaxStor -> StorRec]
        /\ stor'[i].dev = d /\ \A j \in 1 .. MaxStor : j # i => stor'[j] = stor[j]
    BY <1>1, <2>3, <2>4
  <2>6. \A e \in Live \ {d} : SlotsOf(e)' = SlotsOf(e)
    <3>1. ASSUME NEW e \in Live \ {d}, NEW j \in 1 .. MaxStor PROVE stor'[j].dev = e <=> stor[j].dev = e
      <4>1. e # 0 /\ e # d
        BY DevsIn DEF Live
      <4> QED  BY <2>4, <2>5, <4>1
    <3> QED  BY <2>1, <3>1 DEF SlotsOf
  <2>7. SlotsOf(d)' = {i}
    BY <1>2, <2>1, <2>4, <2>5 DEF SlotsOf
  <2> QED  BY <1>1, <1>2, <1>4, <2>1, <2>4, <2>5, <2>6, <2>7
<1>5. CASE drv = "hid"
  <2>1. stor' = stor
    BY <1>5 DEF SlotGiven
  <2>2. PICK i \in FreeHid : hid' = [hid EXCEPT ![i] = d]
    BY <1>5 DEF SlotGiven
  <2>3. i \in 1 .. MaxHid /\ hid[i] = 0
    BY <2>2 DEF FreeHid
  <2>4. /\ hid' \in [1 .. MaxHid -> 0 .. MaxDev]
        /\ hid'[i] = d /\ \A j \in 1 .. MaxHid : j # i => hid'[j] = hid[j]
    BY <1>1, <2>2, <2>3
  <2>5. \A e \in Live \ {d} : SlotsOf(e)' = SlotsOf(e)
    <3>1. ASSUME NEW e \in Live \ {d}, NEW j \in 1 .. MaxHid PROVE hid'[j] = e <=> hid[j] = e
      <4>1. e # 0 /\ e # d
        BY DevsIn DEF Live
      <4> QED  BY <2>3, <2>4, <4>1
    <3> QED  BY <2>1, <3>1 DEF SlotsOf
  <2>6. SlotsOf(d)' = {i + MaxStor}
    BY <1>2, <2>1, <2>3, <2>4 DEF SlotsOf
  <2>7. i + MaxStor \in Nat
    BY <2>3, UsbAssumption
  <2> QED  BY <1>1, <1>2, <1>5, <2>1, <2>3, <2>4, <2>5, <2>6, <2>7
<1> QED  BY <1>3, <1>4, <1>5 DEF Drivers

LEMMA ClaimedKeeps ==
  ASSUME Tables, NEW d, Fresh(d), NEW h \in 0 .. MaxHub, NEW drv \in Drivers, NEW t \in Things,
         h # 0 => hub[h].dev = 0 /\ t \in Hubs,
         Claimed(d, h, drv, t), SlotGiven(d, drv)
  PROVE  Tables' /\ Live' = Live /\ \A e \in Devs : dev'[e].kids = dev[e].kids
<1>0. d \in Devs /\ d \in Live /\ d # 0 /\ TablesOK /\ dev[d].drv = "none" /\ dev[d].hub = 0
  BY DevsIn DEF Tables, Live, Fresh
<1>1. /\ dev' \in [Devs -> DevRec]
      /\ dev'[d].thing = t /\ dev'[d].hub = h /\ dev'[d].drv = drv
      /\ dev'[d].live = dev[d].live /\ dev'[d].parent = dev[d].parent
      /\ dev'[d].at = dev[d].at /\ dev'[d].kids = dev[d].kids
      /\ \A e \in Devs \ {d} : dev'[e] = dev[e]
  BY <1>0, ClaimedDev
<1>2. \A e \in Devs : /\ dev'[e].live = dev[e].live /\ dev'[e].parent = dev[e].parent
                      /\ dev'[e].at = dev[e].at /\ dev'[e].kids = dev[e].kids
  BY <1>1
<1>3. Live' = Live
  BY <1>2 DEF Live
<1>4. /\ stor' \in [1 .. MaxStor -> StorRec] /\ hid' \in [1 .. MaxHid -> 0 .. MaxDev]
      /\ \A i \in 1 .. MaxStor : stor'[i].dev = d => drv = "stor"
      /\ \A i \in 1 .. MaxHid : hid'[i] = d => drv = "hid"
      /\ \A e \in Live \ {d} : SlotsOf(e)' = SlotsOf(e)
      /\ \A i \in 1 .. MaxStor : stor'[i].dev # d => stor'[i] = stor[i]
      /\ \A i \in 1 .. MaxHid : hid'[i] # d => hid'[i] = hid[i]
      /\ drv # "none" => \E s \in Nat : SlotsOf(d)' = {s}
  BY <1>0, SlotGivenIs
<1>5. /\ hub' \in [1 .. MaxHub -> HubRec]
      /\ h # 0 => hub'[h].dev = d
      /\ \A x \in 1 .. MaxHub : x # h => hub'[x] = hub[x]
  <2> DEFINE n == [NoHub EXCEPT !.dev = d]
  <2>1. n \in HubRec /\ n.dev = d
    BY <1>0, NoHubIs DEF HubRec, Devs
  <2> HIDE DEF n
  <2>2. hub' = [x \in 1 .. MaxHub |-> IF x = h THEN n ELSE hub[x]]
    BY DEF Claimed, n
  <2>3. h # 0 => h \in 1 .. MaxHub
    OBVIOUS
  <2> QED  BY <1>0, <2>1, <2>2, <2>3 DEF TablesOK
<1>6. TablesOK'
  BY <1>1, <1>4, <1>5 DEF TablesOK
<1>7. \A e \in Live' : LET q == dev'[e].parent IN q # 0 /\ dev'[q].live /\ dev'[q].kids[dev'[e].at] = e
  <2>1. SUFFICES ASSUME NEW e \in Live
                 PROVE  dev'[e].parent # 0 /\ dev'[dev'[e].parent].live /\ dev'[dev'[e].parent].kids[dev'[e].at] = e
    BY <1>3
  <2>2. dev[e].parent \in Devs /\ dev[dev[e].parent].live /\ dev[dev[e].parent].kids[dev[e].at] = e /\ e \in Devs
    BY ParentFacts DEF Live
  <2> QED  BY <1>2, <2>2, DevsIn
<1>8. \A e \in Devs : \A j \in 1 .. NPorts : LET k == dev'[e].kids[j] IN
        k # 0 => dev'[e].live /\ dev'[k].live /\ dev'[k].parent = e /\ dev'[k].at = j
  <2>1. SUFFICES ASSUME NEW e \in Devs, NEW j \in 1 .. NPorts, dev[e].kids[j] # 0
                 PROVE  /\ dev'[e].live /\ dev'[dev[e].kids[j]].live
                        /\ dev'[dev[e].kids[j]].parent = e /\ dev'[dev[e].kids[j]].at = j
    BY <1>2
  <2>2. dev[e].live /\ dev[e].kids[j] \in Live /\ dev[e].kids[j] \in Devs
        /\ dev[dev[e].kids[j]].parent = e /\ dev[dev[e].kids[j]].at = j
    BY <2>1, KidFacts
  <2> QED  BY <1>2, <2>2 DEF Live
<1>9. \A x \in 1 .. MaxHub : hub'[x].dev # 0 =>
        dev'[hub'[x].dev].live /\ dev'[hub'[x].dev].hub = x /\ dev'[hub'[x].dev].thing \in Hubs
  <2>1. SUFFICES ASSUME NEW x \in 1 .. MaxHub, hub'[x].dev # 0
                 PROVE  dev'[hub'[x].dev].live /\ dev'[hub'[x].dev].hub = x /\ dev'[hub'[x].dev].thing \in Hubs
    OBVIOUS
  <2>2. CASE x = h
    <3>1. h # 0 /\ dev[d].live
      BY <1>0, <2>2 DEF Live
    <3> QED  BY <1>1, <1>5, <2>2, <3>1
  <2>3. CASE x # h
    <3>1. hub'[x] = hub[x]
      BY <1>5, <2>3
    <3>2. hub[x].dev # 0 /\ hub[x].dev \in 0 .. MaxDev
      BY <1>0, <2>1, <3>1 DEF TablesOK, HubRec
    <3>3. dev[hub[x].dev].live /\ dev[hub[x].dev].hub = x /\ dev[hub[x].dev].thing \in Hubs
      BY <3>2, Zenon DEF Tables, TreeSound, HubThings
    <3>4. hub[x].dev \in Devs \ {d}
      BY <1>0, <3>2, <3>3 DEF Devs
    <3> QED  BY <1>1, <3>1, <3>3, <3>4
  <2> QED  BY <2>2, <2>3
<1>10. Slotted'
  <2>1. ASSUME NEW i \in 1 .. MaxStor, stor'[i].dev # 0
        PROVE  stor'[i].dev \in Live' /\ dev'[stor'[i].dev].drv = "stor"
    <3>1. CASE stor'[i].dev = d
      BY <1>0, <1>1, <1>3, <1>4, <3>1
    <3>2. CASE stor'[i].dev # d
      <4>1. stor[i].dev \in Live /\ dev[stor[i].dev].drv = "stor" /\ stor'[i].dev = stor[i].dev
        BY <1>4, <2>1, <3>2 DEF Tables, Slotted
      <4> QED  BY <1>1, <1>3, <3>2, <4>1 DEF Live
    <3> QED  BY <3>1, <3>2
  <2>2. ASSUME NEW i \in 1 .. MaxHid, hid'[i] # 0
        PROVE  hid'[i] \in Live' /\ dev'[hid'[i]].drv = "hid"
    <3>1. CASE hid'[i] = d
      BY <1>0, <1>1, <1>3, <1>4, <3>1
    <3>2. CASE hid'[i] # d
      <4>1. hid[i] \in Live /\ dev[hid[i]].drv = "hid" /\ hid'[i] = hid[i]
        BY <1>4, <2>2, <3>2 DEF Tables, Slotted
      <4> QED  BY <1>1, <1>3, <3>2, <4>1 DEF Live
    <3> QED  BY <3>1, <3>2
  <2>3. ASSUME NEW e \in Live', dev'[e].drv # "none" PROVE \E s \in Nat : SlotsOf(e)' = {s}
    <3>1. CASE e = d
      BY <1>1, <1>4, <2>3, <3>1
    <3>2. CASE e # d
      <4>1. e \in Live /\ dev[e].drv # "none" /\ SlotsOf(e)' = SlotsOf(e)
        BY <1>1, <1>3, <1>4, <2>3, <3>2 DEF Live
      <4> QED  BY <4>1 DEF Tables, Slotted
    <3> QED  BY <3>1, <3>2
  <2> QED  BY <2>1, <2>2, <2>3 DEF Slotted
<1>11. Rooted'
  <2>1. \A e \in Live : dev'[e].parent = dev[e].parent /\ dev'[e].at = dev[e].at
    BY <1>2 DEF Live
  <2>2. dev'[RootDev].parent = 0
    BY <1>2, DevsIn DEF Tables, Rooted
  <2> QED  BY <1>3, <2>1, <2>2 DEF Tables, Rooted
<1>12. TreeSound' /\ HubThings'
  BY <1>7, <1>8, <1>9 DEF TreeSound, HubThings
<1> QED  BY <1>2, <1>3, <1>6, <1>10, <1>11, <1>12 DEF Tables

(* Nothing of a record, an entry or a slot changes but an entry's tries.   *)
LEMMA TriesKeep ==
  ASSUME Tables, UNCHANGED <<dev, slots>>, hub' \in [1 .. MaxHub -> HubRec],
         \A h \in 1 .. MaxHub : hub'[h].dev = hub[h].dev
  PROVE  Tables' /\ Live' = Live
<1>1. dev' = dev /\ stor' = stor /\ hid' = hid /\ Live' = Live
  BY DEF slots, Live
<1>2. TablesOK' /\ TreeSound' /\ HubThings'
  BY <1>1 DEF Tables, TablesOK, TreeSound, HubThings
<1>3. \A e : SlotsOf(e)' = SlotsOf(e)
  BY <1>1 DEF SlotsOf
<1>4. Slotted' /\ Rooted'
  BY <1>1, <1>3 DEF Tables, Slotted, Rooted
<1> QED  BY <1>1, <1>2, <1>4 DEF Tables

LEMMA SameKeeps ==
  ASSUME Tables, UNCHANGED <<dev, hub, slots>>
  PROVE  Tables' /\ Live' = Live
BY TriesKeep DEF Tables, TablesOK

(* usb_init's tables: the root hub and nothing else.                       *)
LEMMA StartTables ==
  ASSUME Tables, Downs, ~up, TablesUp, UNCHANGED slots
  PROVE  Tables' /\ dev'[RootDev].live
<1>1. Live = {} /\ stor' = stor /\ hid' = hid /\ TablesOK
  BY DEF Downs, slots, Tables
<1>2. (\A i \in 1 .. MaxStor : stor[i].dev = 0) /\ (\A i \in 1 .. MaxHid : hid[i] = 0)
  BY <1>1 DEF Tables, Slotted
<1> DEFINE r == RootUp
<1>3. /\ r \in DevRec /\ r.live /\ r.thing = Root /\ r.parent = 0 /\ r.hub = 1
      /\ \A i \in 1 .. NPorts : r.kids[i] = 0
  <2>1. NoDev \in DevRec /\ 1 \in 0 .. MaxHub
    BY NoDevIs, UsbAssumption
  <2>2. r \in DevRec
    BY <2>1 DEF RootUp, DevRec
  <2> QED  BY <2>2, NoDevIs DEF RootUp, NoDev
<1> HIDE DEF r
<1>4. /\ dev' \in [Devs -> DevRec] /\ dev'[RootDev] = r
      /\ \A d \in Devs : d # RootDev => dev'[d] = NoDev
  BY <1>3, NoDevIs, DevsIn DEF TablesUp, r
<1>5. Live' = {}
  BY <1>4, NoDevIs DEF Live
<1>6. hub' \in [1 .. MaxHub -> HubRec] /\ \A h \in 1 .. MaxHub : hub'[h].dev = IF h = 1 THEN RootDev ELSE 0
  <2> DEFINE n == [NoHub EXCEPT !.dev = RootDev]
  <2>1. n \in HubRec /\ n.dev = RootDev
    BY NoHubIs, DevsIn DEF HubRec
  <2> HIDE DEF n
  <2> QED  BY <2>1, NoHubIs DEF TablesUp, n
<1>7. TablesOK'
  BY <1>1, <1>4, <1>6 DEF TablesOK
<1>8. \A d \in Devs : \A i \in 1 .. NPorts : dev'[d].kids[i] = 0
  BY <1>3, <1>4, NoDevIs
<1>9. \A h \in 1 .. MaxHub : hub'[h].dev # 0 =>
        dev'[hub'[h].dev].live /\ dev'[hub'[h].dev].hub = h /\ dev'[hub'[h].dev].thing \in Hubs
  BY <1>3, <1>4, <1>6 DEF Hubs
<1>10. TreeSound' /\ HubThings'
  BY <1>5, <1>8, <1>9 DEF TreeSound, HubThings
<1>11. Slotted'
  BY <1>1, <1>2, <1>5 DEF Slotted
<1>12. Rooted'
  BY <1>3, <1>4, <1>5 DEF Rooted
<1> QED  BY <1>3, <1>4, <1>7, <1>10, <1>11, <1>12 DEF Tables

(* ub_stop's tables: nothing but the root hub's record is left in them.    *)
LEMMA StopTables ==
  ASSUME Tables, Stopped
  PROVE  Tables' /\ Live' = {} /\ \A h \in 1 .. MaxHub : hub'[h].dev = 0
<1> DEFINE F == Family(KidsOf(RootDev))
<1>1. F = Live
  BY FamilyAll
<1>2. /\ dev' = [d \in Devs |-> IF d \in F THEN NoDev ELSE IF d = RootDev THEN [dev[d] EXCEPT !.kids = NoKids]
                              ELSE dev[d]]
      /\ hub' = [h \in 1 .. MaxHub |-> IF hub[h].dev \in F \cup {RootDev} THEN NoHub ELSE hub[h]]
      /\ stor' = StorWithout(F) /\ hid' = HidWithout(F)
  BY DEF Stopped, HubWithout, KidsOf
<1>3. TablesOK /\ 0 \notin F /\ RootDev \notin F
  BY <1>1, DevsIn DEF Tables, Live
<1> HIDE DEF F
<1>4. ASSUME NEW d \in Devs
      PROVE  /\ dev'[d] \in DevRec /\ \A i \in 1 .. NPorts : dev'[d].kids[i] = 0
             /\ d # RootDev => ~dev'[d].live
             /\ d = RootDev => dev'[d].parent = 0
  <2>1. CASE d \in F
    BY <1>2, <1>3, <2>1, NoDevIs
  <2>2. CASE d = RootDev
    <3> DEFINE r == dev[d]
               x == [r EXCEPT !.kids = NoKids]
    <3>1. dev'[d] = x
      BY <1>2, <1>3, <2>2
    <3>2. r \in DevRec /\ NoKids \in [1 .. NPorts -> 0 .. MaxDev] /\ \A i \in 1 .. NPorts : NoKids[i] = 0
      BY DevFacts, UsbAssumption DEF Tables, NoKids
    <3>3. r.parent = 0
      BY <2>2 DEF Tables, Rooted
    <3> HIDE DEF r
    <3>4. x \in DevRec /\ x.kids = NoKids /\ x.parent = 0
      BY <3>2, <3>3 DEF DevRec
    <3> QED  BY <2>2, <3>1, <3>2, <3>4
  <2>3. CASE d \notin F /\ d # RootDev
    <3>1. dev'[d] = dev[d] /\ dev[d] \in DevRec
      BY <1>2, <2>3 DEF Tables, TablesOK
    <3>2. ~dev[d].live
      BY <1>1, <2>3 DEF Live
    <3>3. \A i \in 1 .. NPorts : dev[d].kids[i] = 0
      BY <3>2, KidFacts
    <3> QED  BY <2>3, <3>1, <3>2, <3>3
  <2> QED  BY <2>1, <2>2, <2>3
<1>5. dev' \in [Devs -> DevRec] /\ Live' = {}
  BY <1>2, <1>4 DEF Live
<1>6. ASSUME NEW h \in 1 .. MaxHub PROVE hub'[h] \in HubRec /\ hub'[h].dev = 0
  <2>1. hub[h] \in HubRec /\ hub[h].dev \in 0 .. MaxDev
    BY <1>3 DEF TablesOK, HubRec
  <2>2. hub[h].dev # 0 => dev[hub[h].dev].live
    BY DEF Tables, TreeSound
  <2>3. hub[h].dev # 0 => hub[h].dev \in F \cup {RootDev}
    BY <1>1, <2>1, <2>2 DEF Live, Devs
  <2> QED  BY <1>2, <2>1, <2>3, NoHubIs
<1>7. hub' \in [1 .. MaxHub -> HubRec]
  BY <1>2, <1>6
<1>8. /\ stor' \in [1 .. MaxStor -> StorRec] /\ hid' \in [1 .. MaxHid -> 0 .. MaxDev]
      /\ \A i \in 1 .. MaxStor : stor'[i].dev = 0
      /\ \A i \in 1 .. MaxHid : hid'[i] = 0
  <2>1. /\ \A i \in 1 .. MaxStor : stor[i].dev # 0 => stor[i].dev \in F
        /\ \A i \in 1 .. MaxHid : hid[i] # 0 => hid[i] \in F
    BY <1>1 DEF Tables, Slotted
  <2>2. [dev |-> 0, ready |-> FALSE] \in StorRec /\ 0 \in 0 .. MaxDev
    BY UsbAssumption DEF StorRec
  <2>3. stor' \in [1 .. MaxStor -> StorRec] /\ \A i \in 1 .. MaxStor : stor'[i].dev = 0
    BY <1>2, <1>3, <2>1, <2>2 DEF StorWithout, TablesOK
  <2>4. hid' \in [1 .. MaxHid -> 0 .. MaxDev] /\ \A i \in 1 .. MaxHid : hid'[i] = 0
    BY <1>2, <1>3, <2>1, <2>2 DEF HidWithout, TablesOK
  <2> QED  BY <2>3, <2>4
<1>9. TablesOK' /\ Slotted' /\ Rooted' /\ HubThings'
  BY <1>4, <1>5, <1>6, <1>7, <1>8, DevsIn DEF TablesOK, Slotted, Rooted, HubThings
<1>10. TreeSound'
  BY <1>4, <1>5, <1>6 DEF TreeSound
<1> QED  BY <1>5, <1>6, <1>9, <1>10 DEF Tables

-----------------------------------------------------------------------------
(* The bus and the daemon's place                                          *)

LEMMA PortIs ==
  ASSUME NEW x \in Things \cup {NoThing}, NEW e \in BOOLEAN, NEW c \in BOOLEAN, NEW s \in BOOLEAN
  PROVE  [t |-> x, en |-> e, csc |-> c, pesc |-> s] \in PortRec
BY DEF PortRec

LEMMA PortFacts ==
  ASSUME NEW r \in PortRec
  PROVE  /\ r.t \in Things \cup {NoThing} /\ r.en \in BOOLEAN /\ r.csc \in BOOLEAN /\ r.pesc \in BOOLEAN
         /\ \A x \in Things \cup {NoThing} : [r EXCEPT !.t = x] \in PortRec /\ [r EXCEPT !.t = x].en = r.en
         /\ \A x \in Things \cup {NoThing}, b \in BOOLEAN : [r EXCEPT !.t = x, !.csc = b] \in PortRec
         /\ \A b \in BOOLEAN : /\ [r EXCEPT !.en = b] \in PortRec /\ [r EXCEPT !.csc = b] \in PortRec
                              /\ [r EXCEPT !.pesc = b] \in PortRec
BY DEF PortRec

LEMMA Unpowered ==
  ASSUME NEW Q \in [Ports -> PortRec], NEW H
  PROVE  /\ Unpower(Q, H) \in [Ports -> PortRec]
         /\ \A p \in Ports : Unpower(Q, H)[p] = Q[p] \/ ~Unpower(Q, H)[p].en
<1>1. ASSUME NEW p \in Ports
      PROVE  [NoPort EXCEPT !.t = Q[p].t] \in PortRec /\ ~[NoPort EXCEPT !.t = Q[p].t].en
  <2>1. Q[p].t \in Things \cup {NoThing}
    BY PortFacts
  <2>2. NoPort \in PortRec /\ ~NoPort.en
    BY DEF NoPort, PortRec
  <2> QED  BY <2>1, <2>2, PortFacts
<1> QED  BY <1>1 DEF Unpower

LEMMA Powered ==
  ASSUME NEW Q \in [Ports -> PortRec], NEW h
  PROVE  Power(Q, h) \in [Ports -> PortRec]
<1>1. ASSUME NEW p \in Ports
      PROVE  [NoPort EXCEPT !.t = Q[p].t, !.csc = Q[p].t # NoThing] \in PortRec
  <2>1. Q[p].t \in Things \cup {NoThing} /\ (Q[p].t # NoThing) \in BOOLEAN
    BY PortFacts
  <2>2. NoPort \in PortRec
    BY DEF NoPort, PortRec
  <2> QED  BY <2>1, <2>2, PortFacts
<1> QED  BY <1>1 DEF Power

LEMMA PollIs ==
  ASSUME NEW q \in PollRec
  PROVE  /\ q.h \in 0 .. MaxHub + 1 /\ q.i \in 0 .. NPorts + 1 /\ q.d \in 0 .. MaxDev /\ q.conn \in BOOLEAN
         /\ \A pc \in Handling \cup {"look"} :
               LET n == [q EXCEPT !.pc = pc] IN
               n \in PollRec /\ n.pc = pc /\ n.h = q.h /\ n.i = q.i /\ n.d = q.d /\ n.conn = q.conn
BY DEF PollRec, Handling, Enumerating

(* A place from which the polls go on.                                     *)
Onward(q) ==
  /\ q \in PollRec
  /\ q = Rest \/ (q.pc = "look" /\ q.h \in 1 .. MaxHub /\ q.i \in 1 .. NPorts)

LEMMA NextOnward ==
  /\ Onward(Rest) /\ Onward(StartPoll)
  /\ poll \in PollRec /\ poll.h \in 1 .. MaxHub /\ poll.i \in 1 .. NPorts => Onward(NextHub) /\ Onward(NextPort)
<1>1. MaxHub \in Nat /\ NPorts \in Nat /\ MaxHub # 0 /\ NPorts # 0 /\ MaxDev \in Nat
  BY UsbAssumption
<1>2. Onward(Rest)
  BY <1>1 DEF Onward, Rest, PollRec
<1> DEFINE A(q, h, i) == [q EXCEPT !.pc = "look", !.h = h, !.i = i]
           B(q, h) == [q EXCEPT !.h = h]
           C(q, h, i) == [q EXCEPT !.h = h, !.i = i]
<1>3. \A h \in 1 .. MaxHub, i \in 1 .. NPorts : h \in 0 .. MaxHub + 1 /\ i \in 0 .. NPorts + 1
  BY <1>1
<1>10. ASSUME NEW q \in PollRec, NEW h \in 1 .. MaxHub, NEW i \in 1 .. NPorts
       PROVE  A(q, h, i) \in PollRec /\ A(q, h, i).pc = "look" /\ A(q, h, i).h = h /\ A(q, h, i).i = i
  BY <1>3 DEF PollRec
<1>11. ASSUME NEW q \in PollRec, NEW h \in 1 .. MaxHub, NEW i \in 1 .. NPorts
       PROVE  B(q, h) \in PollRec /\ B(q, h).pc = q.pc /\ B(q, h).h = h /\ B(q, h).i = q.i
  BY <1>3 DEF PollRec
<1>12. ASSUME NEW q \in PollRec, NEW h \in 1 .. MaxHub, NEW i \in 1 .. NPorts
       PROVE  C(q, h, i) \in PollRec /\ C(q, h, i).pc = q.pc /\ C(q, h, i).h = h /\ C(q, h, i).i = i
  BY <1>3 DEF PollRec
<1>8. StartPoll = A(Rest, 1, 1)
  BY DEF StartPoll
<1> HIDE DEF A, B, C
<1>9. StartPoll \in PollRec /\ StartPoll.pc = "look" /\ StartPoll.h = 1 /\ StartPoll.i = 1
  <2>1. Rest \in PollRec /\ 1 \in 1 .. MaxHub /\ 1 \in 1 .. NPorts
    BY <1>1, <1>2 DEF Onward
  <2>2. A(Rest, 1, 1) \in PollRec /\ A(Rest, 1, 1).pc = "look" /\ A(Rest, 1, 1).h = 1 /\ A(Rest, 1, 1).i = 1
    <3>1. PICK q \in PollRec : q = Rest
      BY <2>1
    <3>2. PICK h \in 1 .. MaxHub, i \in 1 .. NPorts : h = 1 /\ i = 1
      BY <2>1
    <3>3. A(q, h, i) \in PollRec /\ A(q, h, i).pc = "look" /\ A(q, h, i).h = h /\ A(q, h, i).i = i
      BY <1>10
    <3> QED  BY <3>1, <3>2, <3>3
  <2> QED  BY <1>8, <2>2, Zenon
<1>4. \A h \in 1 .. MaxHub, i \in 1 .. NPorts :
        Onward([StartPoll EXCEPT !.h = h]) /\ Onward([StartPoll EXCEPT !.h = h, !.i = i])
  <2>1. SUFFICES ASSUME NEW h \in 1 .. MaxHub, NEW i \in 1 .. NPorts
                 PROVE  Onward([StartPoll EXCEPT !.h = h]) /\ Onward([StartPoll EXCEPT !.h = h, !.i = i])
    OBVIOUS
  <2>2. StartPoll.i \in 1 .. NPorts
    BY <1>1, <1>9
  <2>3. Onward(B(StartPoll, h)) /\ Onward(C(StartPoll, h, i))
    <3>1. PICK q \in PollRec : q = StartPoll /\ q.pc = "look" /\ q.i \in 1 .. NPorts
      BY <1>9, <2>2
    <3>2. Onward(B(q, h))
      BY <1>11, <3>1 DEF Onward
    <3>3. Onward(C(q, h, i))
      BY <1>12, <3>1 DEF Onward
    <3> QED  BY <3>1, <3>2, <3>3
  <2> QED  BY <2>3 DEF B, C
<1>5. Onward(StartPoll)
  BY <1>1, <1>9 DEF Onward
<1>6. ASSUME poll.h \in 1 .. MaxHub PROVE Onward(NextHub)
  <2>1. CASE poll.h = MaxHub
    BY <1>2, <2>1 DEF NextHub
  <2>2. CASE poll.h # MaxHub
    <3>1. poll.h + 1 \in 1 .. MaxHub /\ 1 \in 1 .. NPorts
      BY <1>1, <1>6, <2>2
    <3> QED  BY <1>4, <2>2, <3>1 DEF NextHub
  <2> QED  BY <2>1, <2>2
<1>7. ASSUME poll.h \in 1 .. MaxHub, poll.i \in 1 .. NPorts PROVE Onward(NextPort)
  <2>1. CASE poll.i = NPorts
    BY <1>6, <1>7, <2>1 DEF NextPort
  <2>2. CASE poll.i # NPorts
    <3>1. poll.i + 1 \in 1 .. NPorts
      BY <1>1, <1>7, <2>2
    <3> QED  BY <1>4, <1>7, <2>2, <3>1 DEF NextPort
  <2> QED  BY <2>1, <2>2
<1> QED  BY <1>2, <1>5, <1>6, <1>7

LEMMA OnwardPlaced ==
  ASSUME up', Onward(poll')
  PROVE  Placed' /\ poll' \in PollRec
<1>1. CASE poll' = Rest
  <2>1. poll'.pc = "idle"
    BY <1>1 DEF Rest
  <2> QED  BY <1>1, <2>1 DEF Placed, Onward, Handling, Enumerating
<1>2. CASE poll'.pc = "look" /\ poll'.h \in 1 .. MaxHub /\ poll'.i \in 1 .. NPorts
  BY <1>2 DEF Placed, Onward, Handling, Enumerating
<1> QED  BY <1>1, <1>2 DEF Onward

(* The port in the daemon's hands is one of the bus.                       *)
LEMMA PollPort ==
  ASSUME Inv, poll.pc # "idle", Hdev # 0
  PROVE  /\ P \in Ports /\ port[P] \in PortRec /\ Hdev \in Devs /\ dev[Hdev].live
         /\ poll.h \in 1 .. MaxHub /\ poll.i \in 1 .. NPorts /\ up
         /\ Child \in KidsOf(Hdev) /\ Child \in 0 .. MaxDev
<1>1. poll.h \in 1 .. MaxHub /\ poll.i \in 1 .. NPorts /\ up
  BY DEF Inv, Placed
<1>2. Hdev \in 0 .. MaxDev /\ dev[Hdev].live /\ Hthing \in Hubs
  BY <1>1 DEF Inv, Tables, TablesOK, HubRec, TreeSound, HubThings, Hdev, Hthing
<1>3. Hdev \in Devs
  BY <1>2 DEF Devs
<1>4. P \in Ports
  BY <1>1, <1>2 DEF P, Ports
<1>5. port[P] \in PortRec
  BY <1>4 DEF Inv, WorldOK
<1>6. Child \in KidsOf(Hdev) /\ Child \in 0 .. MaxDev
  BY <1>1, <1>3, DevFacts DEF Child, KidsOf, Inv, Tables
<1> QED  BY <1>1, <1>2, <1>3, <1>4, <1>5, <1>6

LEMMA MarksIn ==
  ASSUME devgone \in 0 .. MaxDev, NEW d \in 0 .. MaxDev
  PROVE  Marks(d) \subseteq 0 .. MaxDev
BY DEF Marks

LEMMA AskedFaults ==
  ASSUME WorldOK, NEW t, NEW a, NEW ok, Asked(t, a, ok)
  PROVE  faults' \in 0 .. MaxFaults
BY UsbAssumption DEF WorldOK, Asked, Faulty

LEMMA AnsweredFaults ==
  ASSUME WorldOK, NEW a, NEW ok, Answered(a, ok)
  PROVE  faults' \in 0 .. MaxFaults /\ (ok => Thing # NoThing)
BY AskedFaults DEF Answered, WorldOK

(* The daemon's place where only the bus has moved.                        *)
LEMMA BusPlaced ==
  ASSUME Placed, UNCHANGED <<dev, hub, up, poll>>,
         poll.pc = "change" /\ Hdev # 0 /\ (port[P].csc \/ ~port[P].en) => (port'[P].csc \/ ~port'[P].en)
  PROVE  Placed'
<1>1. dev' = dev /\ hub' = hub /\ up' = up /\ poll' = poll /\ Hdev' = Hdev /\ Child' = Child /\ P' = P /\ Live' = Live
  BY DEF Hdev, Child, P, Hthing, Live
<1>2. \A d : Fresh(d)' <=> Fresh(d)
  BY <1>1 DEF Fresh
<1> QED  BY <1>1, <1>2 DEF Placed, Handling

(* The daemon's place where it goes on with what it has in its hands.      *)
LEMMA ToPlaced ==
  ASSUME Placed, poll \in PollRec, UNCHANGED <<dev, hub, up>>, NEW pc, poll' = To(pc),
         \/ poll.pc \in {"debounce", "reset", "new"} /\ pc \in {"debounce", "reset", "new"}
         \/ poll.pc \in Enumerating /\ pc \in Enumerating
  PROVE  Placed' /\ poll' \in PollRec
<1>1. poll' \in PollRec /\ poll'.pc = pc /\ poll'.h = poll.h /\ poll'.i = poll.i /\ poll'.d = poll.d
  BY PollIs DEF To, Handling
<1>2. dev' = dev /\ hub' = hub /\ up' = up /\ Hdev' = Hdev /\ Child' = Child /\ Live' = Live
  BY <1>1 DEF Hdev, Child, Live
<1>3. \A d : Fresh(d)' <=> Fresh(d)
  BY <1>2 DEF Fresh
<1>4. CASE poll.pc \in {"debounce", "reset", "new"} /\ pc \in {"debounce", "reset", "new"}
  BY <1>1, <1>2, <1>4 DEF Placed, Handling, Enumerating
<1>5. CASE poll.pc \in Enumerating /\ pc \in Enumerating
  BY <1>1, <1>2, <1>3, <1>5 DEF Placed, Handling, Enumerating
<1> QED  BY <1>1, <1>4, <1>5

LEMMA SameDowns ==
  ASSUME Downs, UNCHANGED <<dev, hub, up>>
  PROVE  Downs'
BY DEF Downs, Live

-----------------------------------------------------------------------------
(* Each step keeps the invariant: the bus                                  *)

(* A port that showed a change, or was disabled, still does.               *)
StillLost == \A p \in Ports : port[p].csc \/ ~port[p].en => port'[p].csc \/ ~port'[p].en

LEMMA WorldKeeps ==
  ASSUME Inv, UNCHANGED <<stack, poll>>, WorldOK', StillLost
  PROVE  Inv'
<1>1. UNCHANGED <<dev, hub, slots, devgone, up, poll>>
  BY DEF stack
<1>2. RunOK'
  BY <1>1 DEF Inv, RunOK
<1>3. Tables'
  BY <1>1, SameKeeps DEF Inv
<1>4. Downs'
  BY <1>1, SameDowns DEF Inv
<1>5. Placed'
  <2>1. poll.pc = "change" /\ Hdev # 0 => P \in Ports
    BY PollPort
  <2>2. poll.pc = "change" /\ Hdev # 0 /\ (port[P].csc \/ ~port[P].en) => (port'[P].csc \/ ~port'[P].en)
    BY <2>1, Zenon DEF StillLost
  <2> QED  BY <1>1, <2>2, BusPlaced DEF Inv
<1> QED  BY <1>2, <1>3, <1>4, <1>5 DEF Inv

(* Ports put out, then some of them set otherwise.                         *)
LEMMA UnpowerLost ==
  ASSUME NEW Q \in [Ports -> PortRec], NEW H, port' = Unpower(Q, H),
         \A p \in Ports : port[p].csc \/ ~port[p].en => Q[p].csc \/ ~Q[p].en
  PROVE  StillLost
<1>1. \A p \in Ports : port'[p] = Q[p] \/ ~port'[p].en
  BY Unpowered
<1> QED  BY <1>1, Zenon DEF StillLost

LEMMA PlugInKeeps ==
  ASSUME Inv, NEW p \in Ports, NEW t \in Things, PlugIn(p, t)
  PROVE  Inv'
<1> DEFINE r == port[p]
           c == r.csc \/ p[1] \in powered
           y == [r EXCEPT !.t = t, !.csc = c]
<1>1. port \in [Ports -> PortRec] /\ r \in PortRec /\ c \in BOOLEAN
  BY DEF Inv, WorldOK
<1>2. port' = [port EXCEPT ![p] = y]
  BY <1>1 DEF PlugIn
<1>3. r.csc => c
  OBVIOUS
<1> HIDE DEF r, c
<1>4. y \in PortRec /\ y.csc = c /\ y.en = r.en
  BY <1>1 DEF PortRec
<1> HIDE DEF y
<1>5. port' \in [Ports -> PortRec] /\ port'[p] = y /\ \A q \in Ports : q # p => port'[q] = port[q]
  BY <1>1, <1>2, <1>4
<1>6. WorldOK'
  BY <1>5, UsbAssumption DEF PlugIn, Inv, WorldOK
<1>7. StillLost
  BY <1>3, <1>4, <1>5, Zenon DEF StillLost, r
<1> QED  BY <1>6, <1>7, WorldKeeps DEF PlugIn

LEMMA PullOutKeeps ==
  ASSUME Inv, NEW p \in Ports, PullOut(p)
  PROVE  Inv'
<1> DEFINE r == port[p]
           y == [t |-> NoThing, en |-> FALSE, csc |-> r.csc \/ p[1] \in powered, pesc |-> r.pesc \/ r.en]
           Q == [port EXCEPT ![p] = y]
<1>1. port \in [Ports -> PortRec] /\ r \in PortRec
  BY DEF Inv, WorldOK
<1>2. port' = Unpower(Q, {r.t})
  BY DEF PullOut
<1>3. y \in PortRec /\ ~y.en
  BY PortIs
<1> HIDE DEF r, y
<1>4. Q \in [Ports -> PortRec] /\ Q[p] = y /\ \A q \in Ports : q # p => Q[q] = port[q]
  BY <1>1, <1>3
<1> HIDE DEF Q
<1>5. \A q \in Ports : port[q].csc \/ ~port[q].en => Q[q].csc \/ ~Q[q].en
  BY <1>3, <1>4, Zenon
<1>6. port' \in [Ports -> PortRec]
  BY <1>2, <1>4, Unpowered
<1>7. WorldOK'
  <2>1. addr' = addr /\ chip' = chip /\ faults' = faults /\ powered' \subseteq powered /\ moves' = moves + 1 /\ moves < MaxMoves
    BY DEF PullOut
  <2> QED  BY <1>6, <2>1, UsbAssumption DEF Inv, WorldOK
<1>8. StillLost
  BY <1>2, <1>4, <1>5, UnpowerLost, Zenon
<1> QED  BY <1>7, <1>8, WorldKeeps DEF PullOut

LEMMA DropsKeeps ==
  ASSUME Inv, NEW p \in Ports, Drops(p)
  PROVE  Inv'
<1> DEFINE r == port[p]
           y == [r EXCEPT !.en = FALSE, !.pesc = TRUE]
<1>1. port \in [Ports -> PortRec] /\ r \in PortRec
  BY DEF Inv, WorldOK
<1>2. port' = [port EXCEPT ![p] = y]
  BY <1>1 DEF Drops
<1> HIDE DEF r
<1>3. y \in PortRec /\ ~y.en
  BY <1>1 DEF PortRec
<1> HIDE DEF y
<1>4. port' \in [Ports -> PortRec] /\ port'[p] = y /\ \A q \in Ports : q # p => port'[q] = port[q]
  BY <1>1, <1>2, <1>3
<1>5. WorldOK'
  BY <1>4, UsbAssumption DEF Drops, Faulty, Inv, WorldOK
<1>6. StillLost
  BY <1>3, <1>4, Zenon DEF StillLost
<1> QED  BY <1>5, <1>6, WorldKeeps DEF Drops

LEMMA DipsKeeps ==
  ASSUME Inv, Dips \/ Revives
  PROVE  Inv'
<1>1. CASE Dips
  <2>1. port \in [Ports -> PortRec] /\ port' = Unpower(port, Hubs) /\ powered' = {} /\ chip' \in {"lost", "dead"}
        /\ addr' = addr /\ moves' = moves
    BY <1>1 DEF Dips, Inv, WorldOK
  <2>2. port' \in [Ports -> PortRec]
    BY <2>1, Unpowered
  <2>3. WorldOK'
    BY <1>1, <2>1, <2>2, UsbAssumption DEF Dips, Faulty, Inv, WorldOK
  <2>4. StillLost
    BY <2>1, UnpowerLost, Zenon
  <2> QED  BY <1>1, <2>3, <2>4, WorldKeeps DEF Dips
<1>2. CASE Revives
  <2>1. WorldOK' /\ StillLost
    BY <1>2 DEF Revives, Inv, WorldOK, StillLost
  <2> QED  BY <1>2, <2>1, WorldKeeps DEF Revives
<1> QED  BY <1>1, <1>2

-----------------------------------------------------------------------------
(* The stack up and down, the transfers between polls                      *)

LEMMA StartKeeps ==
  ASSUME Inv, Start
  PROVE  Inv'
<1>1. Tables' /\ dev'[RootDev].live
  BY StartTables DEF Start, Inv
<1>2. /\ port' = Power(Unpower(port, Hubs), Root) /\ chip' = "ok" /\ powered' = {Root} /\ up'
      /\ poll' = StartPoll /\ devgone' = 0 /\ up' = TRUE
      /\ addr' = addr /\ moves' = moves /\ faults' = faults
  BY DEF Start, ChipUp, TablesUp
<1>3. port' \in [Ports -> PortRec]
  BY <1>2, Unpowered, Powered DEF Inv, WorldOK
<1>4. WorldOK'
  BY <1>2, <1>3 DEF Inv, WorldOK, Hubs
<1>5. Placed' /\ poll' \in PollRec
  BY <1>2, NextOnward, OnwardPlaced
<1>6. RunOK' /\ Downs'
  BY <1>1, <1>2, <1>5, UsbAssumption DEF RunOK, Downs
<1> QED  BY <1>1, <1>4, <1>5, <1>6 DEF Inv

LEMMA StopKeeps ==
  ASSUME Inv, StopLost \/ StopAsked
  PROVE  Inv'
<1>1. Stopped /\ faults' = faults /\ moves' \in 0 .. MaxMoves
  BY UsbAssumption DEF StopLost, StopAsked, Inv, WorldOK
<1>2. Tables' /\ Live' = {} /\ \A h \in 1 .. MaxHub : hub'[h].dev = 0
  BY <1>1, StopTables DEF Inv
<1>3. /\ up' = FALSE /\ poll' = Rest /\ poll = Rest /\ addr' = addr /\ port' = Unpower(port, Hubs)
      /\ powered' = {} /\ chip' \in {"ok", "lost", "dead"}
  BY <1>1 DEF Stopped, ChipDown, Inv, WorldOK
<1>4. devgone' \in 0 .. MaxDev
  BY <1>1, UsbAssumption DEF Stopped, LetGo, Inv, RunOK
<1>5. port' \in [Ports -> PortRec]
  BY <1>3, Unpowered DEF Inv, WorldOK
<1>6. WorldOK'
  BY <1>1, <1>3, <1>5 DEF Inv, WorldOK
<1>7. RunOK' /\ Downs'
  BY <1>2, <1>3, <1>4 DEF Inv, RunOK, Downs
<1>8. Placed'
  BY <1>3 DEF Placed, Rest, Handling, Enumerating
<1> QED  BY <1>2, <1>6, <1>7, <1>8 DEF Inv

(* A step that leaves the tables and the bus, and goes on.                 *)
LEMMA OnKeeps ==
  ASSUME Inv, UNCHANGED <<world, dev, hub, slots, up>>, moves' = moves,
         faults' \in 0 .. MaxFaults, devgone' \in 0 .. MaxDev, Placed', poll' \in PollRec
  PROVE  Inv'
<1>1. Tables' /\ Downs'
  BY SameKeeps, SameDowns DEF Inv
<1>2. WorldOK' /\ RunOK'
  BY DEF Inv, WorldOK, RunOK, world
<1> QED  BY <1>1, <1>2 DEF Inv

LEMMA JobKeeps ==
  ASSUME Inv, NEW d \in Devs, Job(d)
  PROVE  Inv'
<1>1. devgone' \in 0 .. MaxDev
  BY MarksIn, DevsIn DEF Job, Inv, RunOK
<1>2. UNCHANGED <<world, dev, hub, slots, up, poll>> /\ moves' = moves /\ faults' = faults
  BY DEF Job
<1>3. poll' \in PollRec /\ faults' \in 0 .. MaxFaults
  BY <1>2 DEF Inv, RunOK, WorldOK
<1>4. Placed'
  BY <1>2, BusPlaced DEF Inv, world
<1> QED  BY <1>1, <1>2, <1>3, <1>4, OnKeeps

LEMMA PollStartsKeeps ==
  ASSUME Inv, PollStarts
  PROVE  Inv'
<1>1. UNCHANGED <<world, dev, hub, slots, devgone, up>> /\ moves' = moves /\ faults' = faults /\ up'
  BY DEF PollStarts, stack
<1>2. Placed' /\ poll' \in PollRec
  BY <1>1, NextOnward, OnwardPlaced DEF PollStarts
<1> QED  BY <1>1, <1>2, OnKeeps DEF Inv, WorldOK, RunOK

-----------------------------------------------------------------------------
(* The hub polls                                                           *)

(* A step that leaves the tables and goes on.                              *)
LEMMA PortKeeps ==
  ASSUME Inv, UNCHANGED <<dev, hub, slots, up>>, WorldOK', devgone' \in 0 .. MaxDev, Placed', poll' \in PollRec
  PROVE  Inv'
<1>1. Tables' /\ Downs'
  BY SameKeeps, SameDowns DEF Inv
<1>2. RunOK'
  BY DEF Inv, RunOK
<1> QED  BY <1>1, <1>2 DEF Inv

LEMMA PortSets ==
  ASSUME NEW Q \in [Ports -> PortRec], NEW p \in Ports, NEW b \in BOOLEAN
  PROVE  /\ [Q EXCEPT ![p].en = b] \in [Ports -> PortRec] /\ [Q EXCEPT ![p].csc = b] \in [Ports -> PortRec]
         /\ [Q EXCEPT ![p].pesc = b] \in [Ports -> PortRec]
<1> DEFINE r == Q[p]
           x == [r EXCEPT !.en = b]
           y == [r EXCEPT !.csc = b]
           z == [r EXCEPT !.pesc = b]
<1>1. x \in PortRec /\ y \in PortRec /\ z \in PortRec
  BY PortFacts
<1>2. [Q EXCEPT ![p].en = b] = [Q EXCEPT ![p] = x] /\ [Q EXCEPT ![p].csc = b] = [Q EXCEPT ![p] = y]
      /\ [Q EXCEPT ![p].pesc = b] = [Q EXCEPT ![p] = z]
  OBVIOUS
<1> HIDE DEF x, y, z
<1> QED  BY <1>1, <1>2

LEMMA LookNoneKeeps ==
  ASSUME Inv, LookNone
  PROVE  Inv'
<1>1. UNCHANGED <<world, dev, hub, slots, devgone, up>> /\ moves' = moves /\ faults' = faults /\ poll' = NextHub
      /\ poll.pc = "look"
  BY DEF LookNone, stack
<1>2. up /\ poll.h \in 1 .. MaxHub /\ poll.i \in 1 .. NPorts /\ poll \in PollRec
  BY <1>1 DEF Inv, Placed, RunOK
<1>3. Placed' /\ poll' \in PollRec
  BY <1>1, <1>2, NextOnward, OnwardPlaced
<1> QED  BY <1>1, <1>3, OnKeeps DEF Inv, WorldOK, RunOK

LEMMA LookFailsKeeps ==
  ASSUME Inv, LookFails
  PROVE  Inv'
<1>1. UNCHANGED <<world, dev, hub, slots, up>> /\ moves' = moves /\ poll' = NextPort
      /\ poll.pc = "look" /\ Hdev # 0 /\ Asked(Hthing, Hdev, FALSE) /\ devgone' \in Marks(Hdev)
  BY DEF LookFails
<1>2. up /\ poll.h \in 1 .. MaxHub /\ poll.i \in 1 .. NPorts /\ poll \in PollRec /\ Hdev \in 0 .. MaxDev
  BY <1>1, PollPort DEF Inv, RunOK, Devs
<1>3. Placed' /\ poll' \in PollRec
  BY <1>1, <1>2, NextOnward, OnwardPlaced
<1>4. devgone' \in 0 .. MaxDev /\ faults' \in 0 .. MaxFaults
  BY <1>1, <1>2, MarksIn, AskedFaults DEF Inv, RunOK
<1> QED  BY <1>1, <1>3, <1>4, OnKeeps

(* The try of a port counted in its hub's entry.                           *)
LEMMA TriesIn ==
  ASSUME TablesOK, NEW h \in 1 .. MaxHub, NEW i \in 1 .. NPorts, NEW n \in 0 .. PortTries,
         hub' = [hub EXCEPT ![h].tries[i] = n]
  PROVE  hub' \in [1 .. MaxHub -> HubRec] /\ \A x \in 1 .. MaxHub : hub'[x].dev = hub[x].dev
<1> DEFINE r == hub[h]
           y == [r EXCEPT !.tries[i] = n]
<1>1. hub \in [1 .. MaxHub -> HubRec] /\ r \in HubRec
  BY DEF TablesOK
<1>2. hub' = [hub EXCEPT ![h] = y]
  BY <1>1
<1> HIDE DEF r
<1>3. y \in HubRec /\ y.dev = r.dev
  <2>1. r.tries \in [1 .. NPorts -> 0 .. PortTries]
    BY <1>1 DEF HubRec
  <2>2. [r.tries EXCEPT ![i] = n] \in [1 .. NPorts -> 0 .. PortTries]
    BY <2>1
  <2> QED  BY <1>1, <2>2 DEF HubRec
<1> HIDE DEF y
<1> QED  BY <1>1, <1>2, <1>3 DEF r

LEMMA ChangeIs ==
  ASSUME poll \in PollRec
  PROVE  Change \in PollRec /\ Change.pc = "change" /\ Change.h = poll.h /\ Change.i = poll.i
<1> DEFINE b == Shown(P)
<1>1. b \in BOOLEAN /\ Change = [poll EXCEPT !.pc = "change", !.conn = b]
  BY DEF Shown, Change
<1> HIDE DEF b
<1>2. ASSUME NEW c \in BOOLEAN, NEW n, n = [poll EXCEPT !.pc = "change", !.conn = c]
      PROVE  n \in PollRec /\ n.pc = "change" /\ n.h = poll.h /\ n.i = poll.i
  BY <1>2 DEF PollRec
<1> QED  BY <1>1, <1>2

LEMMA LookKeeps ==
  ASSUME Inv, Look
  PROVE  Inv'
<1>1. /\ UNCHANGED <<addr, powered, chip, dev, slots, devgone, up>> /\ moves' = moves
      /\ poll.pc = "look" /\ Hdev # 0 /\ Asked(Hthing, Hdev, TRUE)
  BY DEF Look
<1>2. /\ up /\ poll.h \in 1 .. MaxHub /\ poll.i \in 1 .. NPorts /\ P \in Ports
      /\ poll \in PollRec /\ TablesOK /\ port \in [Ports -> PortRec]
  BY <1>1, PollPort DEF Inv, RunOK, Tables, WorldOK
<1>3. faults' \in 0 .. MaxFaults
  BY <1>1, AskedFaults DEF Inv
<1>4. CASE /\ port' = port /\ poll' = Change /\ (port[P].csc \/ Child = 0)
           /\ \E n \in 0 .. PortTries : hub' = [hub EXCEPT ![poll.h].tries[poll.i] = n]
  <2>1. hub' \in [1 .. MaxHub -> HubRec] /\ \A x \in 1 .. MaxHub : hub'[x].dev = hub[x].dev
    BY <1>2, <1>4, TriesIn
  <2>2. Tables' /\ Live' = Live
    BY <1>1, <2>1, TriesKeep DEF Inv
  <2>3. poll' \in PollRec /\ poll'.pc = "change" /\ poll'.h = poll.h /\ poll'.i = poll.i
    BY <1>2, <1>4, ChangeIs
  <2>4. Hdev' = Hdev /\ Child' = Child /\ P' = P
    BY <1>1, <1>2, <2>1, <2>3 DEF Hdev, Child, P, Hthing
  <2>5. Placed'
    BY <1>1, <1>2, <1>4, <2>3, <2>4 DEF Placed, Enumerating
  <2>6. Downs'
    BY <1>1, <1>2, <2>1, <2>2 DEF Inv, Downs
  <2>7. WorldOK' /\ RunOK'
    BY <1>1, <1>3, <1>4, <2>3 DEF Inv, WorldOK, RunOK
  <2> QED  BY <2>2, <2>5, <2>6, <2>7 DEF Inv
<1>5. CASE /\ port' = [port EXCEPT ![P].pesc = FALSE] /\ hub' = hub
           /\ poll' = IF port[P].pesc /\ ~port[P].en /\ Shown(P) /\ Child # 0 THEN Change ELSE NextPort
  <2>1. port' \in [Ports -> PortRec]
    BY <1>2, <1>5, PortSets
  <2>2. WorldOK'
    BY <1>1, <1>3, <2>1 DEF Inv, WorldOK
  <2>3. CASE poll' = NextPort
    BY <1>1, <1>2, <1>5, <2>2, <2>3, NextOnward, OnwardPlaced, PortKeeps DEF Inv, RunOK
  <2>4. CASE poll' = Change /\ ~port[P].en
    <3>1. poll' \in PollRec /\ poll'.pc = "change" /\ poll'.h = poll.h /\ poll'.i = poll.i
      BY <1>2, <2>4, ChangeIs
    <3>2. Hdev' = Hdev /\ Child' = Child /\ P' = P
      BY <1>1, <1>5, <3>1 DEF Hdev, Child, P, Hthing
    <3>3. ~port'[P].en
      <4> DEFINE x == [port[P] EXCEPT !.pesc = FALSE]
      <4>1. port[P] \in PortRec
        BY <1>2
      <4>2. x.en = port[P].en
        BY <4>1 DEF PortRec
      <4>3. port'[P] = x
        BY <1>2, <1>5
      <4> QED  BY <2>4, <4>2, <4>3, Zenon
    <3>4. Placed'
      BY <1>1, <1>2, <3>1, <3>2, <3>3 DEF Placed, Enumerating
    <3> QED  BY <1>1, <1>5, <2>2, <3>1, <3>4, PortKeeps DEF Inv, RunOK
  <2> QED  BY <1>5, <2>3, <2>4
<1>6. TriesLeft => hub[poll.h].tries[poll.i] + 1 \in 0 .. PortTries
  <2>1. hub[poll.h] \in HubRec
    BY <1>2 DEF TablesOK
  <2>2. hub[poll.h].tries \in [1 .. NPorts -> 0 .. PortTries]
    BY <2>1 DEF HubRec
  <2>3. hub[poll.h].tries[poll.i] \in 0 .. PortTries
    BY <1>2, <2>2
  <2> QED  BY <2>3, UsbAssumption DEF TriesLeft
<1>7. 1 \in 0 .. PortTries
  BY UsbAssumption
<1>8. CASE port[P].csc /\ hub' = [hub EXCEPT ![poll.h].tries[poll.i] = 1] /\ poll' = Change /\ port' = port
  BY <1>4, <1>7, <1>8
<1>9. CASE /\ Child = 0 /\ TriesLeft /\ hub' = [hub EXCEPT ![poll.h].tries[poll.i] = @ + 1]
           /\ poll' = Change /\ port' = port
  <2>1. hub' = [hub EXCEPT ![poll.h].tries[poll.i] = hub[poll.h].tries[poll.i] + 1]
    BY <1>9
  <2> QED  BY <1>4, <1>6, <1>9, <2>1
<1> QED  BY <1>5, <1>8, <1>9 DEF Look

(* What a cut below a polled hub leaves in the daemon's hands.             *)
LEMMA CutLeaves ==
  ASSUME Tables, NEW g \in Devs, NEW K \in SUBSET KidsOf(g), NEW F, IsFamily(K, F), Cut(g, K, F)
  PROVE  /\ dev'[RootDev].live = dev[RootDev].live
         /\ \A h \in 1 .. MaxHub : hub[h].dev \notin F => hub'[h] = hub[h]
         /\ \A i \in 1 .. NPorts : dev[g].kids[i] \in K => dev'[g].kids[i] = 0
<1>1. g \notin F /\ RootDev \notin F /\ TablesOK
  <2>1. g \notin F
    BY FamilyBelow, Zenon
  <2>2. F \subseteq Live /\ TablesOK
    BY DEF IsFamily, Tables
  <2> QED  BY <2>1, <2>2 DEF Live
<1>2. dev'[RootDev].live = dev[RootDev].live
  <2>1. SameBut(dev'[RootDev], dev[RootDev])
    BY <1>1, CutDev, DevsIn
  <2> QED  BY <2>1 DEF SameBut
<1>3. \A i \in 1 .. NPorts : dev[g].kids[i] \in K => dev'[g].kids[i] = 0
  BY <1>1, CutDev
<1>4. \A h \in 1 .. MaxHub : hub[h].dev \notin F => hub'[h] = hub[h]
  BY DEF Cut
<1> QED  BY <1>2, <1>3, <1>4

LEMMA ConnectCuts ==
  ASSUME Inv, Connect
  PROVE  /\ Cut(Hdev, {Child}, Family({Child})) /\ IsFamily({Child}, Family({Child}))
         /\ Hdev \in Devs /\ {Child} \subseteq KidsOf(Hdev) /\ Hdev \notin Family({Child})
<1>1. poll.pc = "change" /\ Disconnect(Hdev, {Child})
  BY DEF Connect, Old
<1>2. Hdev \in Devs /\ {Child} \subseteq KidsOf(Hdev)
  <2>1. Hdev # 0
    BY <1>1 DEF Inv, Placed, Handling
  <2> QED  BY <1>1, <2>1, PollPort
<1>3. IsFamily({Child}, Family({Child}))
  BY <1>2, FamilyIs DEF Inv
<1>4. Hdev \notin Family({Child})
  BY <1>2, <1>3, FamilyBelow DEF Inv
<1>5. Cut(Hdev, {Child}, Family({Child}))
  BY <1>1 DEF Disconnect, HubWithout, Cut
<1> QED  BY <1>2, <1>3, <1>4, <1>5

LEMMA ConnectKeeps ==
  ASSUME Inv, Connect
  PROVE  Inv'
<1> DEFINE F == Family({Child})
<1>1. Cut(Hdev, {Child}, F) /\ IsFamily({Child}, F) /\ Hdev \in Devs /\ {Child} \subseteq KidsOf(Hdev) /\ Hdev \notin F
  BY ConnectCuts
<1>2. /\ poll.pc = "change" /\ devgone' = LetGo(F) /\ UNCHANGED <<addr, powered, chip, up, moves>>
      /\ poll' = IF poll.conn THEN To("debounce") ELSE NextHub
  BY DEF Connect, Disconnect, Old
<1>3. PICK ok \in BOOLEAN : Asked(Hthing, Hdev, ok) /\ port' = IF ok THEN [port EXCEPT ![P].csc = FALSE] ELSE port
  BY DEF Connect
<1> HIDE DEF F
<1>4. /\ up /\ poll.h \in 1 .. MaxHub /\ poll.i \in 1 .. NPorts /\ P \in Ports
      /\ poll \in PollRec /\ port \in [Ports -> PortRec] /\ Hdev # 0
  BY <1>1, <1>2, PollPort, DevsIn DEF Inv, RunOK, WorldOK
<1>5. Tables' /\ Live' = Live \ F
  BY <1>1, CutKeeps DEF Inv
<1>6. /\ dev'[RootDev].live /\ hub'[poll.h] = hub[poll.h] /\ dev'[Hdev].kids[poll.i] = 0
  <2>1. /\ dev'[RootDev].live = dev[RootDev].live
        /\ \A h \in 1 .. MaxHub : hub[h].dev \notin F => hub'[h] = hub[h]
        /\ \A i \in 1 .. NPorts : dev[Hdev].kids[i] \in {Child} => dev'[Hdev].kids[i] = 0
    BY <1>1, CutLeaves DEF Inv
  <2>2. dev[RootDev].live
    BY <1>4 DEF Inv, Downs
  <2>3. hub'[poll.h] = hub[poll.h]
    BY <1>1, <1>4, <2>1 DEF Hdev
  <2>4. dev'[Hdev].kids[poll.i] = 0
    BY <1>4, <2>1 DEF Child
  <2> QED  BY <2>1, <2>2, <2>3, <2>4
<1>7. port' \in [Ports -> PortRec] /\ faults' \in 0 .. MaxFaults
  BY <1>3, <1>4, PortSets, AskedFaults DEF Inv
<1>8. devgone' \in 0 .. MaxDev
  BY <1>2, UsbAssumption DEF LetGo, Inv, RunOK
<1>9. Placed' /\ poll' \in PollRec
  <2>1. CASE poll' = NextHub
    BY <1>2, <1>4, <2>1, NextOnward, OnwardPlaced
  <2>2. CASE poll' = To("debounce")
    <3>1. poll' \in PollRec /\ poll'.pc = "debounce" /\ poll'.h = poll.h /\ poll'.i = poll.i
      BY <1>4, <2>2, PollIs DEF To, Handling
    <3>2. Hdev' = Hdev
      BY <1>6, <3>1 DEF Hdev
    <3>3. Child' = 0
      BY <1>6, <3>1, <3>2 DEF Child
    <3> QED  BY <1>2, <1>4, <3>1, <3>2, <3>3 DEF Placed, Handling, Enumerating
  <2> QED  BY <1>2, <2>1, <2>2
<1>10. WorldOK' /\ RunOK' /\ Downs'
  BY <1>2, <1>4, <1>6, <1>7, <1>8, <1>9 DEF Inv, WorldOK, RunOK, Downs
<1> QED  BY <1>5, <1>9, <1>10 DEF Inv

LEMMA DebounceKeeps ==
  ASSUME Inv, Debounce
  PROVE  Inv'
<1>1. poll.pc = "debounce" /\ UNCHANGED <<addr, powered, chip, dev, hub, slots, up, moves>>
  BY DEF Debounce
<1>2. PICK ok \in BOOLEAN :
        /\ Asked(Hthing, Hdev, ok) /\ port' = IF ok THEN [port EXCEPT ![P].csc = FALSE] ELSE port
        /\ poll' \in {To("reset"), NextPort}
        /\ devgone' \in IF ok THEN {devgone} ELSE Marks(Hdev)
  BY DEF Debounce
<1>3. Hdev # 0
  BY <1>1 DEF Inv, Placed, Handling
<1>4. /\ up /\ poll.h \in 1 .. MaxHub /\ poll.i \in 1 .. NPorts /\ P \in Ports /\ Hdev \in 0 .. MaxDev
      /\ poll \in PollRec /\ port \in [Ports -> PortRec]
  BY <1>1, <1>3, PollPort DEF Inv, RunOK, WorldOK, Devs
<1>5. port' \in [Ports -> PortRec] /\ faults' \in 0 .. MaxFaults
  BY <1>2, <1>4, PortSets, AskedFaults DEF Inv
<1>6. devgone' \in 0 .. MaxDev
  BY <1>2, <1>4, MarksIn DEF Inv, RunOK
<1>7. Placed' /\ poll' \in PollRec
  <2>1. CASE poll' = NextPort
    BY <1>1, <1>4, <2>1, NextOnward, OnwardPlaced
  <2>2. CASE poll' = To("reset")
    BY <1>1, <1>4, <2>2, ToPlaced DEF Inv
  <2> QED  BY <1>2, <2>1, <2>2
<1>8. WorldOK'
  BY <1>1, <1>5 DEF Inv, WorldOK
<1> QED  BY <1>1, <1>6, <1>7, <1>8, PortKeeps

LEMMA ResetsTyped ==
  ASSUME Inv, poll.pc # "idle", Hdev # 0, NEW ok, NEW done, NEW left, Resets(ok, done, left), UNCHANGED <<chip, moves>>
  PROVE  WorldOK' /\ devgone' \in 0 .. MaxDev /\ poll' \in {done, left}
<1>1. P \in Ports /\ port \in [Ports -> PortRec] /\ Hdev \in 0 .. MaxDev
  BY PollPort DEF Inv, WorldOK, Devs
<1>2. faults' \in 0 .. MaxFaults
  BY AskedFaults DEF Resets, PortReset, Inv
<1>3. devgone' \in 0 .. MaxDev
  BY <1>1, MarksIn DEF Resets, PortReset, Inv, RunOK
<1>4. port' \in [Ports -> PortRec] /\ addr' \in [Things -> 0 .. MaxDev] /\ powered' \subseteq Hubs
  <2>1. CASE UNCHANGED <<port, powered, addr>>
    BY <1>1, <2>1 DEF Inv, WorldOK
  <2>2. CASE /\ port' = Unpower([port EXCEPT ![P].en = TRUE], {port[P].t})
             /\ powered' = powered \ {port[P].t} /\ addr' = [addr EXCEPT ![port[P].t] = 0]
    <3>1. [port EXCEPT ![P].en = TRUE] \in [Ports -> PortRec]
      BY <1>1, PortSets
    <3>2. port' \in [Ports -> PortRec]
      BY <2>2, <3>1, Unpowered
    <3>3. 0 \in 0 .. MaxDev
      BY UsbAssumption
    <3> QED  BY <2>2, <3>2, <3>3 DEF Inv, WorldOK
  <2> QED  BY <2>1, <2>2 DEF Resets, PortReset
<1>5. poll' \in {done, left}
  BY DEF Resets, PortReset
<1> QED  BY <1>2, <1>3, <1>4, <1>5 DEF Inv, WorldOK

LEMMA Reset1Keeps ==
  ASSUME Inv, Reset1
  PROVE  Inv'
<1>1. poll.pc = "reset" /\ UNCHANGED <<chip, dev, hub, slots, up, moves>>
  BY DEF Reset1
<1>2. PICK ok \in BOOLEAN : Resets(ok, To("new"), NextPort)
  BY DEF Reset1
<1>3. Hdev # 0
  BY <1>1 DEF Inv, Placed, Handling
<1>4. WorldOK' /\ devgone' \in 0 .. MaxDev /\ poll' \in {To("new"), NextPort}
  BY <1>1, <1>2, <1>3, ResetsTyped
<1>5. up /\ poll.h \in 1 .. MaxHub /\ poll.i \in 1 .. NPorts /\ poll \in PollRec
  BY <1>1 DEF Inv, Placed, RunOK
<1>6. Placed' /\ poll' \in PollRec
  <2>1. CASE poll' = NextPort
    BY <1>1, <1>5, <2>1, NextOnward, OnwardPlaced
  <2>2. CASE poll' = To("new")
    BY <1>1, <1>5, <2>2, ToPlaced DEF Inv
  <2> QED  BY <1>4, <2>1, <2>2
<1> QED  BY <1>1, <1>4, <1>6, PortKeeps

LEMMA Reset2Keeps ==
  ASSUME Inv, Reset2
  PROVE  Inv'
<1>1. poll.pc = "reset2" /\ UNCHANGED <<chip, dev, hub, slots, up, moves>>
  BY DEF Reset2
<1>2. PICK ok \in BOOLEAN : Resets(ok, To("address"), To("disable"))
  BY DEF Reset2
<1>3. Hdev # 0
  BY <1>1 DEF Inv, Placed, Handling, Enumerating
<1>4. WorldOK' /\ devgone' \in 0 .. MaxDev /\ poll' \in {To("address"), To("disable")}
  BY <1>1, <1>2, <1>3, ResetsTyped
<1>5. Placed' /\ poll' \in PollRec
  BY <1>1, <1>4, ToPlaced DEF Inv, RunOK, Enumerating
<1> QED  BY <1>1, <1>4, <1>5, PortKeeps

LEMMA NewDeviceKeeps ==
  ASSUME Inv, NewDevice
  PROVE  Inv'
<1>1. poll.pc = "new" /\ UNCHANGED <<world, hub, slots, devgone, up, moves, faults>>
  BY DEF NewDevice
<1>2. Hdev # 0 /\ Child = 0
  BY <1>1 DEF Inv, Placed, Handling
<1>3. /\ up /\ poll.h \in 1 .. MaxHub /\ poll.i \in 1 .. NPorts /\ poll \in PollRec
      /\ Hdev \in Devs /\ dev[Hdev].live
  BY <1>1, <1>2, PollPort DEF Inv, RunOK
<1>4. CASE poll' = NextPort /\ dev' = dev
  <2>1. Placed' /\ poll' \in PollRec
    BY <1>1, <1>3, <1>4, NextOnward, OnwardPlaced
  <2>2. faults' \in 0 .. MaxFaults /\ devgone' \in 0 .. MaxDev
    BY <1>1 DEF Inv, WorldOK, RunOK
  <2> QED  BY <1>1, <1>4, <2>1, <2>2, OnKeeps
<1>5. CASE /\ Free # {} /\ Taken(Least(Free), Hdev, poll.i)
           /\ poll' = [poll EXCEPT !.pc = "desc", !.d = Least(Free)]
  <2>1. PICK d \in Free : d = Least(Free)
    <3>1. MaxDev \in Nat /\ Free \in SUBSET (1 .. MaxDev)
      BY UsbAssumption DEF Free, Devs
    <3> QED  BY <1>5, <3>1, LeastIn
  <2>2. d \in Devs /\ ~dev[d].live /\ d # RootDev /\ d \in 0 .. MaxDev
    BY <1>3, <2>1 DEF Free, Inv, Downs, Devs
  <2>3. dev[Hdev].kids[poll.i] = 0 /\ Taken(d, Hdev, poll.i)
    BY <1>2, <1>5, <2>1 DEF Child
  <2>4. Tables' /\ Live' = Live \cup {d} /\ Fresh(d)' /\ dev'[Hdev].kids[poll.i] = d
    BY <1>1, <1>3, <2>2, <2>3, TakenKeeps DEF Inv
  <2>5. poll' \in PollRec /\ poll'.pc = "desc" /\ poll'.h = poll.h /\ poll'.i = poll.i /\ poll'.d = d
    BY <1>3, <1>5, <2>1, <2>2 DEF PollRec
  <2>6. Hdev' = Hdev /\ Child' = d
    BY <1>1, <2>4, <2>5 DEF Hdev, Child
  <2>7. Fresh(poll.d)'
    BY <2>4, <2>5 DEF Fresh, Live
  <2>8. Placed'
    BY <1>1, <1>2, <1>3, <2>5, <2>6, <2>7 DEF Placed, Enumerating
  <2>9. dev'[RootDev].live
    <3>1. SameBut(dev'[RootDev], dev[RootDev])
      BY <2>2, <2>3, <1>3, TakenDev, DevsIn DEF Inv, Tables
    <3>2. dev[RootDev].live
      BY <1>3 DEF Inv, Downs
    <3> QED  BY <3>1, <3>2, Zenon DEF SameBut
  <2>10. WorldOK' /\ RunOK' /\ Downs'
    BY <1>1, <1>3, <2>5, <2>9 DEF Inv, WorldOK, RunOK, Downs, world
  <2> QED  BY <2>4, <2>8, <2>10 DEF Inv
<1>6. NewDevice => <1>4!1 \/ <1>5!1
  BY DEF NewDevice, Taken
<1> QED  BY <1>4, <1>5, <1>6

(* The daemon's hands during an enumeration.                               *)
LEMMA InHand ==
  ASSUME Inv, poll.pc \in Enumerating
  PROVE  /\ up /\ poll.h \in 1 .. MaxHub /\ poll.i \in 1 .. NPorts /\ poll \in PollRec
         /\ P \in Ports /\ Thing \in Things \cup {NoThing} /\ Hdev \in Devs /\ Hdev # 0
         /\ poll.pc # "idle" /\ Child = poll.d /\ Fresh(poll.d) /\ poll.d \in Devs /\ poll.d \in 0 .. MaxDev
         /\ poll.d # RootDev
<1>1. Hdev # 0 /\ Child = poll.d /\ Fresh(poll.d) /\ poll \in PollRec /\ poll.pc # "idle"
  BY DEF Inv, Placed, Handling, Enumerating, RunOK
<1>2. /\ P \in Ports /\ port[P] \in PortRec /\ Hdev \in Devs
      /\ poll.h \in 1 .. MaxHub /\ poll.i \in 1 .. NPorts /\ up
  BY <1>1, PollPort
<1>3. Thing \in Things \cup {NoThing}
  BY <1>2, PortFacts DEF Thing
<1>4. poll.d \in Devs /\ poll.d # RootDev /\ poll.d \in 0 .. MaxDev
  BY <1>1, DevsIn DEF Fresh, Live
<1> QED  BY <1>1, <1>2, <1>3, <1>4

LEMMA DescribesKeeps ==
  ASSUME Inv, Describes
  PROVE  Inv'
<1>1. poll.pc \in Enumerating /\ UNCHANGED <<world, dev, hub, slots, up>> /\ moves' = moves
  BY DEF Describes, Enumerating
<1>2. PICK ok \in BOOLEAN :
        /\ Answered(0, ok) /\ devgone' \in IF ok THEN {devgone} ELSE Marks(poll.d)
        /\ poll' = IF ok THEN To("reset2") ELSE To("disable")
  BY DEF Describes
<1>3. poll.d \in 0 .. MaxDev /\ poll \in PollRec
  BY <1>1, InHand
<1>4. faults' \in 0 .. MaxFaults /\ devgone' \in 0 .. MaxDev
  BY <1>2, <1>3, AnsweredFaults, MarksIn DEF Inv, RunOK
<1>5. Placed' /\ poll' \in PollRec
  <2>1. PICK pc \in Enumerating : poll' = To(pc)
    BY <1>2 DEF Enumerating
  <2> QED  BY <1>1, <1>3, <2>1, ToPlaced DEF Inv
<1> QED  BY <1>1, <1>4, <1>5, OnKeeps

LEMMA SetAddressKeeps ==
  ASSUME Inv, SetAddress
  PROVE  Inv'
<1>1. poll.pc \in Enumerating /\ UNCHANGED <<port, powered, chip, dev, hub, slots, up, moves>>
  BY DEF SetAddress, Enumerating
<1>2. PICK ok \in BOOLEAN :
        /\ Answered(0, ok) /\ devgone' \in IF ok THEN {devgone} ELSE Marks(poll.d)
        /\ addr' = IF ok THEN [addr EXCEPT ![Thing] = poll.d] ELSE addr
        /\ poll' = IF ok THEN To("config") ELSE To("disable")
  BY DEF SetAddress
<1>3. poll.d \in 0 .. MaxDev /\ poll \in PollRec
  BY <1>1, InHand
<1>4. faults' \in 0 .. MaxFaults /\ devgone' \in 0 .. MaxDev
  BY <1>2, <1>3, AnsweredFaults, MarksIn DEF Inv, RunOK
<1>5. Placed' /\ poll' \in PollRec
  <2>1. PICK pc \in Enumerating : poll' = To(pc)
    BY <1>2 DEF Enumerating
  <2> QED  BY <1>1, <1>3, <2>1, ToPlaced DEF Inv
<1>6. addr' \in [Things -> 0 .. MaxDev]
  BY <1>2, <1>3 DEF Inv, WorldOK
<1>7. WorldOK'
  BY <1>1, <1>4, <1>6 DEF Inv, WorldOK
<1> QED  BY <1>1, <1>4, <1>5, <1>7, PortKeeps

(* The class drivers' probes.                                              *)
LEMMA ProbedIs ==
  ASSUME Inv, poll.pc = "config", NEW t \in Things,
         HubProbed(t) \/ StorProbed(t) \/ HidProbed(t) \/ Unclaimed(t)
  PROVE  /\ \E h \in 0 .. MaxHub, drv \in Drivers :
              /\ h # 0 => hub[h].dev = 0 /\ t \in Hubs
              /\ Claimed(poll.d, h, drv, t) /\ SlotGiven(poll.d, drv)
         /\ port' \in [Ports -> PortRec] /\ powered' \subseteq Hubs
<1>1. port \in [Ports -> PortRec] /\ powered \subseteq Hubs
  BY DEF Inv, WorldOK
<1>2. MaxHub \in Nat /\ MaxStor \in Nat /\ MaxHid \in Nat /\ 0 \in 0 .. MaxHub
  BY UsbAssumption
<1>3. CASE HubProbed(t)
  <2>1. Least(FreeHubs) \in FreeHubs
    BY <1>2, <1>3, LeastIn DEF HubProbed, FreeHubs
  <2>2. Least(FreeHubs) \in 1 .. MaxHub /\ hub[Least(FreeHubs)].dev = 0 /\ t \in Hubs
    BY <1>3, <2>1 DEF FreeHubs, HubProbed, Hubs
  <2>3. Claimed(poll.d, Least(FreeHubs), "none", t) /\ SlotGiven(poll.d, "none")
    BY <1>3 DEF HubProbed, Claims, Claimed, SlotGiven
  <2>4. port' \in [Ports -> PortRec] /\ powered' \subseteq Hubs
    BY <1>1, <1>3, <2>2, Powered DEF HubProbed
  <2>5. Least(FreeHubs) \in 0 .. MaxHub /\ "none" \in Drivers
    BY <2>2 DEF Drivers
  <2> QED  BY <2>2, <2>3, <2>4, <2>5
<1>4. CASE StorProbed(t)
  <2>1. Least(FreeStor) \in FreeStor
    BY <1>2, <1>4, LeastIn DEF StorProbed, FreeStor
  <2>2. PICK ready \in BOOLEAN :
          Claims(0, [stor EXCEPT ![Least(FreeStor)] = [dev |-> poll.d, ready |-> ready]], hid, "stor", t)
    BY <1>4 DEF StorProbed
  <2>3. Claimed(poll.d, 0, "stor", t)
    BY <2>2 DEF Claims, Claimed
  <2>4. SlotGiven(poll.d, "stor")
    BY <2>1, <2>2 DEF Claims, SlotGiven
  <2> QED  BY <1>1, <1>2, <1>4, <2>3, <2>4 DEF StorProbed, Drivers
<1>5. CASE HidProbed(t)
  <2>1. Least(FreeHid) \in FreeHid
    BY <1>2, <1>5, LeastIn DEF HidProbed, FreeHid
  <2>2. Claimed(poll.d, 0, "hid", t)
    BY <1>5 DEF HidProbed, Claims, Claimed
  <2>3. SlotGiven(poll.d, "hid")
    BY <1>5, <2>1 DEF HidProbed, Claims, SlotGiven
  <2> QED  BY <1>1, <1>2, <1>5, <2>2, <2>3 DEF HidProbed, Drivers
<1>6. CASE Unclaimed(t)
  <2>1. Claimed(poll.d, 0, "none", t) /\ SlotGiven(poll.d, "none")
    BY <1>6 DEF Unclaimed, Claims, Claimed, SlotGiven
  <2> QED  BY <1>1, <1>2, <1>6, <2>1 DEF Unclaimed, Drivers
<1> QED  BY <1>3, <1>4, <1>5, <1>6

LEMMA ConfiguredKeeps ==
  ASSUME Inv, poll.pc = "config", NEW t \in Things,
         HubProbed(t) \/ StorProbed(t) \/ HidProbed(t) \/ Unclaimed(t),
         UNCHANGED <<addr, chip, up, moves>>, faults' \in 0 .. MaxFaults, devgone' \in 0 .. MaxDev, poll' = NextPort
  PROVE  Inv'
<1>1. port' \in [Ports -> PortRec] /\ powered' \subseteq Hubs
  BY ProbedIs
<1>2. PICK h \in 0 .. MaxHub, drv \in Drivers :
        /\ h # 0 => hub[h].dev = 0 /\ t \in Hubs
        /\ Claimed(poll.d, h, drv, t) /\ SlotGiven(poll.d, drv)
  BY ProbedIs
<1>3. /\ up /\ poll.h \in 1 .. MaxHub /\ poll.i \in 1 .. NPorts /\ poll \in PollRec
      /\ Fresh(poll.d) /\ poll.d \in Devs /\ poll.d # RootDev
  BY InHand DEF Enumerating
<1>4. Tables'
  BY <1>2, <1>3, ClaimedKeeps DEF Inv
<1>5. dev'[RootDev].live
  <2>1. dev'[RootDev] = dev[RootDev]
    BY <1>2, <1>3, ClaimedDev, DevsIn DEF Inv, Tables
  <2> QED  BY <1>3, <2>1 DEF Inv, Downs
<1>6. Placed' /\ poll' \in PollRec
  BY <1>3, NextOnward, OnwardPlaced
<1>7. WorldOK' /\ RunOK' /\ Downs'
  BY <1>1, <1>3, <1>5, <1>6 DEF Inv, WorldOK, RunOK, Downs
<1> QED  BY <1>4, <1>6, <1>7 DEF Inv

LEMMA ConfigureKeeps ==
  ASSUME Inv, Configure
  PROVE  Inv'
<1>1. poll.pc = "config" /\ UNCHANGED <<addr, chip, up, moves>>
  BY DEF Configure
<1>2. PICK ok \in BOOLEAN :
        /\ Answered(poll.d, ok) /\ devgone' \in IF ok THEN {devgone} ELSE Marks(poll.d)
        /\ \/ ok /\ (HubProbed(Thing) \/ StorProbed(Thing) \/ HidProbed(Thing) \/ Unclaimed(Thing))
           \/ ~ok /\ UNCHANGED <<powered, port, dev, hub, slots>>
        /\ poll' = IF ok THEN NextPort ELSE To("disable")
  BY DEF Configure
<1>3. poll.d \in 0 .. MaxDev /\ poll \in PollRec /\ Thing \in Things \cup {NoThing}
  BY <1>1, InHand DEF Enumerating
<1>4. faults' \in 0 .. MaxFaults /\ devgone' \in 0 .. MaxDev
  BY <1>2, <1>3, AnsweredFaults, MarksIn DEF Inv, RunOK
<1>5. CASE ok
  <2>1. Thing \in Things
    BY <1>2, <1>3, <1>5, AnsweredFaults DEF Inv
  <2> QED  BY <1>1, <1>2, <1>4, <1>5, <2>1, ConfiguredKeeps
<1>6. CASE ~ok
  <2>1. UNCHANGED <<powered, port, dev, hub, slots>> /\ poll' = To("disable")
    BY <1>2, <1>6
  <2>2. Placed' /\ poll' \in PollRec
    BY <1>1, <1>3, <2>1, ToPlaced DEF Inv, Enumerating
  <2>3. UNCHANGED <<world, dev, hub, slots, up>>
    BY <1>1, <2>1 DEF world
  <2> QED  BY <1>1, <1>4, <2>2, <2>3, OnKeeps
<1> QED  BY <1>5, <1>6

LEMMA HubFailsKeeps ==
  ASSUME Inv, HubFails
  PROVE  Inv'
<1>1. /\ poll.pc = "config" /\ Answered(poll.d, FALSE) /\ Thing # NoThing /\ devgone' \in Marks(poll.d)
      /\ Claims(0, stor, hid, "none", Thing) /\ poll' = NextPort /\ UNCHANGED <<world, up, moves>>
  BY DEF HubFails
<1>2. /\ poll.d \in 0 .. MaxDev /\ poll \in PollRec /\ Thing \in Things
      /\ up /\ poll.h \in 1 .. MaxHub /\ poll.i \in 1 .. NPorts
      /\ Fresh(poll.d) /\ poll.d \in Devs /\ poll.d # RootDev
  BY <1>1, InHand DEF Enumerating
<1>3. faults' \in 0 .. MaxFaults /\ devgone' \in 0 .. MaxDev
  BY <1>1, <1>2, AnsweredFaults, MarksIn DEF Inv, RunOK
<1>4. Claimed(poll.d, 0, "none", Thing) /\ SlotGiven(poll.d, "none")
  BY <1>1 DEF Claims, Claimed, SlotGiven
<1>5. 0 \in 0 .. MaxHub /\ "none" \in Drivers
  BY UsbAssumption DEF Drivers
<1>6. Tables'
  BY <1>2, <1>4, <1>5, ClaimedKeeps DEF Inv
<1>7. dev'[RootDev].live
  <2>1. dev'[RootDev] = dev[RootDev]
    BY <1>2, <1>4, <1>5, ClaimedDev, DevsIn DEF Inv, Tables
  <2> QED  BY <1>2, <2>1 DEF Inv, Downs
<1>8. Placed' /\ poll' \in PollRec
  BY <1>1, <1>2, NextOnward, OnwardPlaced
<1>9. WorldOK' /\ RunOK' /\ Downs'
  BY <1>1, <1>2, <1>3, <1>7, <1>8 DEF Inv, WorldOK, RunOK, Downs, world
<1> QED  BY <1>6, <1>8, <1>9 DEF Inv

(* A failed enumeration cuts off a record that nothing else names.         *)
LEMMA NewFailsCuts ==
  ASSUME Inv, NewFails
  PROVE  Cut(Hdev, {poll.d}, {poll.d}) /\ IsFamily({poll.d}, {poll.d}) /\ {poll.d} \subseteq KidsOf(Hdev)
<1> DEFINE d == poll.d
           g == Hdev
           i == poll.i
           r == dev[g]
<1>1. /\ poll.pc \in Enumerating /\ UNCHANGED <<hub, slots>>
      /\ dev' = [dev EXCEPT ![d] = NoDev, ![g].kids[i] = 0]
  BY DEF NewFails, Enumerating
<1>2. i \in 1 .. NPorts /\ g \in Devs /\ d \in Devs /\ dev[g].kids[i] = d /\ Fresh(d) /\ TablesOK /\ Tables /\ d # 0
  BY <1>1, InHand, DevsIn DEF Child, Inv, Tables
<1>3. {d} \subseteq KidsOf(g)
  BY <1>2 DEF KidsOf
<1>4. d \in Live /\ dev[d].drv = "none" /\ dev[d].hub = 0 /\ \A j \in 1 .. NPorts : dev[d].kids[j] = 0
  BY <1>2 DEF Fresh, NoKids
<1>5. IsFamily({d}, {d})
  BY <1>4 DEF IsFamily
<1>6. d # g
  BY <1>2, <1>4
<1>7. \A j \in 1 .. NPorts : r.kids[j] = d => j = i
  BY <1>2, KidFacts
<1>8. r \in DevRec /\ r.kids \in [1 .. NPorts -> 0 .. MaxDev] /\ dev \in [Devs -> DevRec]
  BY <1>2, DevFacts DEF TablesOK
<1>9. stor' = StorWithout({d}) /\ hid' = HidWithout({d})
  <2>1. /\ \A j \in 1 .. MaxStor : stor[j].dev # d
        /\ \A j \in 1 .. MaxHid : hid[j] # d
    BY <1>2, <1>4 DEF Tables, Slotted
  <2>2. stor' = stor /\ hid' = hid
    BY <1>1 DEF slots
  <2> QED  BY <1>2, <2>1, <2>2 DEF StorWithout, HidWithout, TablesOK
<1>10. hub' = [h \in 1 .. MaxHub |-> IF hub[h].dev \in {d} THEN NoHub ELSE hub[h]]
  <2>1. \A h \in 1 .. MaxHub : hub[h].dev # d
    BY <1>2, <1>4 DEF Tables, TreeSound
  <2>2. hub' = hub
    BY <1>1
  <2> QED  BY <1>2, <2>1, <2>2 DEF TablesOK
<1>11. dev' = [e \in Devs |-> IF e \in {d} THEN NoDev
                 ELSE IF e = g THEN [dev[e] EXCEPT !.kids = [j \in 1 .. NPorts |-> IF @[j] \in {d} THEN 0 ELSE @[j]]]
                 ELSE dev[e]]
  <2> DEFINE k == [r.kids EXCEPT ![i] = 0]
             l == [j \in 1 .. NPorts |-> IF r.kids[j] \in {d} THEN 0 ELSE r.kids[j]]
  <2>1. k = l
    <3> DEFINE f == r.kids
    <3>1. f \in [1 .. NPorts -> 0 .. MaxDev] /\ f[i] = d /\ i \in 1 .. NPorts /\ \A j \in 1 .. NPorts : f[j] = d => j = i
      BY <1>2, <1>7, <1>8
    <3> HIDE DEF f, d, i
    <3>2. [f EXCEPT ![i] = 0] = [j \in 1 .. NPorts |-> IF f[j] \in {d} THEN 0 ELSE f[j]]
      BY <3>1
    <3> QED  BY <3>2 DEF f
  <2>2. dev' = [[dev EXCEPT ![d] = NoDev] EXCEPT ![g] = [r EXCEPT !.kids = k]]
    BY <1>1, <1>2, <1>6, <1>8
  <2> HIDE DEF k, d, g, i
  <2>3. dev' = [e \in Devs |-> IF e = d THEN NoDev ELSE IF e = g THEN [dev[e] EXCEPT !.kids = l] ELSE dev[e]]
    BY <1>2, <1>6, <1>8, <2>1, <2>2
  <2> QED  BY <2>3
<1> QED  BY <1>3, <1>5, <1>9, <1>10, <1>11 DEF Cut

LEMMA NewFailsKeeps ==
  ASSUME Inv, NewFails
  PROVE  Inv'
<1>1. /\ poll.pc \in Enumerating /\ UNCHANGED <<addr, powered, chip, hub, slots, up, moves>>
      /\ devgone' = LetGo({poll.d}) /\ poll' = NextPort
  BY DEF NewFails, Enumerating
<1>2. PICK ok \in BOOLEAN : Asked(Hthing, Hdev, ok) /\ port' = IF ok THEN Disabled ELSE port
  BY DEF NewFails
<1>3. /\ up /\ poll.h \in 1 .. MaxHub /\ poll.i \in 1 .. NPorts /\ poll \in PollRec
      /\ P \in Ports /\ Hdev \in Devs /\ port \in [Ports -> PortRec]
  BY <1>1, InHand DEF Inv, WorldOK
<1>4. Cut(Hdev, {poll.d}, {poll.d}) /\ IsFamily({poll.d}, {poll.d}) /\ {poll.d} \subseteq KidsOf(Hdev)
  BY NewFailsCuts
<1>5. Tables'
  BY <1>3, <1>4, CutKeeps DEF Inv
<1>6. dev'[RootDev].live
  <2>1. dev'[RootDev].live = dev[RootDev].live
    BY <1>3, <1>4, CutLeaves DEF Inv
  <2>2. dev[RootDev].live
    BY <1>3 DEF Inv, Downs
  <2> QED  BY <2>1, <2>2
<1>7. port' \in [Ports -> PortRec] /\ faults' \in 0 .. MaxFaults
  BY <1>2, <1>3, PortSets, AskedFaults DEF Disabled, Inv
<1>8. devgone' \in 0 .. MaxDev
  BY <1>1, UsbAssumption DEF LetGo, Inv, RunOK
<1>9. Placed' /\ poll' \in PollRec
  BY <1>1, <1>3, NextOnward, OnwardPlaced
<1>10. WorldOK' /\ RunOK' /\ Downs'
  BY <1>1, <1>3, <1>6, <1>7, <1>8, <1>9 DEF Inv, WorldOK, RunOK, Downs
<1> QED  BY <1>5, <1>9, <1>10 DEF Inv

-----------------------------------------------------------------------------
(* The theorems                                                            *)

LEMMA InitInv ==
  Init => Inv
<1> SUFFICES ASSUME Init PROVE Inv
  OBVIOUS
<1>1. MaxDev \in Nat /\ MaxMoves \in Nat /\ MaxFaults \in Nat /\ 0 \in 0 .. MaxDev
  BY UsbAssumption
<1>2. NoPort \in PortRec
  BY DEF NoPort, PortRec
<1>3. WorldOK
  BY <1>1, <1>2 DEF Init, WorldOK
<1>4. RunOK
  BY <1>1, NextOnward DEF Init, RunOK, Onward
<1>5. [dev |-> 0, ready |-> FALSE] \in StorRec
  BY <1>1 DEF StorRec
<1>6. TablesOK
  BY <1>1, <1>5, NoDevIs, NoHubIs DEF Init, TablesOK
<1>7. Live = {} /\ up = FALSE /\ \A h \in 1 .. MaxHub : hub[h].dev = 0
  BY NoDevIs, NoHubIs DEF Init, Live
<1>8. \A d \in Devs : \A i \in 1 .. NPorts : dev[d].kids[i] = 0
  BY NoDevIs DEF Init
<1>9. TreeSound /\ HubThings
  BY <1>7, <1>8 DEF TreeSound, HubThings
<1>10. Slotted
  BY <1>7 DEF Init, Slotted
<1>11. Rooted
  BY <1>7, NoDevIs, DevsIn DEF Init, Rooted
<1>12. poll = Rest /\ Rest.pc = "idle"
  BY DEF Init, Rest
<1>13. Placed
  BY <1>12 DEF Placed, Handling, Enumerating
<1> QED  BY <1>3, <1>4, <1>6, <1>7, <1>9, <1>10, <1>11, <1>13 DEF Inv, Tables, Downs

LEMMA StutterKeeps ==
  ASSUME Inv, UNCHANGED vars
  PROVE  Inv'
<1>1. UNCHANGED <<world, dev, hub, slots, devgone, up, poll, moves, faults>>
  BY DEF vars, world, slots
<1>2. Placed'
  BY <1>1, BusPlaced DEF Inv, world
<1> QED  BY <1>1, <1>2, OnKeeps DEF Inv, WorldOK, RunOK

LEMMA PollKeeps ==
  ASSUME Inv, Poll
  PROVE  Inv'
BY LookNoneKeeps, LookFailsKeeps, LookKeeps, ConnectKeeps, DebounceKeeps, Reset1Keeps, NewDeviceKeeps,
   DescribesKeeps, Reset2Keeps, SetAddressKeeps, ConfigureKeeps, HubFailsKeeps, NewFailsKeeps, Zenon DEF Poll

LEMMA BusKeeps ==
  ASSUME Inv, Bus
  PROVE  Inv'
BY PullOutKeeps, DropsKeeps, PlugInKeeps, DipsKeeps, Zenon DEF Bus

LEMMA NextKeeps ==
  ASSUME Inv, [Next]_vars
  PROVE  Inv'
<1>1. CASE Bus
  BY <1>1, BusKeeps
<1>2. CASE Start
  BY <1>2, StartKeeps
<1>3. CASE StopLost \/ StopAsked
  BY <1>3, StopKeeps
<1>4. CASE PollStarts
  BY <1>4, PollStartsKeeps
<1>5. CASE Poll
  BY <1>5, PollKeeps
<1>6. CASE \E d \in Devs : Job(d)
  BY <1>6, JobKeeps
<1>7. CASE UNCHANGED vars
  BY <1>7, StutterKeeps
<1> QED  BY <1>1, <1>2, <1>3, <1>4, <1>5, <1>6, <1>7, Zenon DEF Next

LEMMA InvAlways ==
  Spec => []Inv
<1>1. Inv /\ [Next]_vars => Inv'
  BY NextKeeps
<1> QED  BY <1>1, InitInv, PTL DEF Spec

LEMMA InvTables ==
  ASSUME Inv
  PROVE  TablesSound
<1>1. ASSUME NEW d \in Live
      PROVE  Cardinality(SlotsOf(d)) = IF dev[d].drv = "none" THEN 0 ELSE 1
  <2>1. CASE dev[d].drv = "none"
    <3>1. d # 0
      BY DevsIn DEF Live
    <3>2. SlotsOf(d) = {}
      BY <2>1, <3>1 DEF SlotsOf, Inv, Tables, Slotted
    <3> QED  BY <2>1, <3>2, FS_EmptySet
  <2>2. CASE dev[d].drv # "none"
    <3>1. PICK s \in Nat : SlotsOf(d) = {s}
      BY <2>2 DEF Inv, Tables, Slotted
    <3> QED  BY <2>2, <3>1, FS_Singleton
  <2> QED  BY <2>1, <2>2
<1>2. SlotsSound
  BY <1>1 DEF SlotsSound, Inv, Tables, Slotted
<1>3. NoRing
  BY DEF NoRing, Inv, Tables, Rooted
<1> QED  BY <1>2, <1>3 DEF Inv, Tables, TablesSound

(* The device records are one tree under the root hub, hub entries and     *)
(* devices name each other, and a class driver's slot holds a live device  *)
(* that is its own: usb_disconnect, usb_alloc_new_device and the probes    *)
(* leave nothing half freed, wherever a plug is pulled and whichever       *)
(* message fails.                                                          *)
THEOREM TablesAlways ==
  Spec => []TablesSound
<1>1. Inv => TablesSound
  BY InvTables
<1> QED  BY <1>1, InvAlways, PTL

(* Each state variable keeps its type.                                     *)
THEOREM UsbTyped ==
  Spec => []TypeOK
<1>1. Inv => TypeOK
  BY DEF Inv, WorldOK, RunOK, Tables, TablesOK, TypeOK, PortRec, DevRec, HubRec, StorRec, PollRec
<1> QED  BY <1>1, InvAlways, PTL

(* The port the daemon acts on was on the way of each device it drops.     *)
LEMMA FamilyUnsteady ==
  ASSUME Inv, poll.pc = "change", NEW F, IsFamily({Child}, F), NEW d \in F, Steady(d)
  PROVE  FALSE
<1>1. PICK way \in SUBSET Devs : d \in way /\ \A e \in way \ {RootDev} :
        dev[e].parent \in way /\ port[<<dev[dev[e].parent].thing, dev[e].at>>].en
                              /\ ~port[<<dev[dev[e].parent].thing, dev[e].at>>].csc
  BY DEF Steady
<1>2. F \cap way \in SUBSET Live /\ F \cap way # {}
  BY <1>1 DEF IsFamily
<1>3. PICK e \in F \cap way : dev[e].parent \notin F \cap way
  BY <1>2, Zenon DEF Inv, Tables, Rooted
<1>4. e \in Live /\ e # RootDev /\ e # 0
  BY <1>2, <1>3, DevsIn DEF Live
<1>5. /\ dev[e].parent \in way
      /\ port[<<dev[dev[e].parent].thing, dev[e].at>>].en /\ ~port[<<dev[dev[e].parent].thing, dev[e].at>>].csc
  BY <1>1, <1>3, <1>4
<1>6. e = Child
  BY <1>3, <1>5 DEF IsFamily
<1>7. Hdev # 0
  BY DEF Inv, Placed, Handling
<1>8. Hdev \in Devs /\ poll.i \in 1 .. NPorts
  BY <1>7, PollPort
<1>9. dev[e].parent = Hdev /\ dev[e].at = poll.i
  BY <1>4, <1>6, <1>8, KidFacts DEF Child, Inv
<1>10. <<dev[dev[e].parent].thing, dev[e].at>> = P
  BY <1>9 DEF P, Hthing
<1>11. port[P].en /\ ~port[P].csc
  BY <1>5, <1>10
<1>12. Child = 0 \/ port[P].csc \/ ~port[P].en
  BY DEF Inv, Placed
<1> QED  BY <1>4, <1>6, <1>11, <1>12

(* A record that is dropped while the stack stays up.                      *)
Dropped(d) == d \in Live /\ up' /\ dev[d].thing # NoThing /\ ~dev'[d].live

LEMMA DropsUnsteady ==
  ASSUME Inv, [Next]_vars, NEW d, Dropped(d)
  PROVE  ~Steady(d)
<1>1. d \in Live /\ d \in Devs /\ dev[d].live /\ TablesOK /\ Tables
  BY DEF Dropped, Live, Inv, Tables
<1>2. dev' # dev
  BY <1>1 DEF Dropped
<1>3. CASE Connect
  <2>1. Cut(Hdev, {Child}, Family({Child})) /\ IsFamily({Child}, Family({Child}))
        /\ Hdev \in Devs /\ {Child} \subseteq KidsOf(Hdev)
    BY <1>3, ConnectCuts
  <2>2. Live' = Live \ Family({Child})
    BY <1>1, <2>1, CutKeeps
  <2>3. d \in Family({Child})
    BY <1>1, <2>2 DEF Dropped, Live
  <2>4. poll.pc = "change"
    BY <1>3 DEF Connect
  <2> QED  BY <2>1, <2>3, <2>4, FamilyUnsteady
<1>4. CASE NewDevice
  <2>1. poll.pc = "new"
    BY <1>4 DEF NewDevice
  <2>2. up /\ Hdev # 0
    BY <2>1 DEF Inv, Placed, Handling
  <2>3. Hdev \in Devs /\ dev[Hdev].live /\ poll.i \in 1 .. NPorts
    BY <2>1, <2>2, PollPort
  <2>4. Free # {} /\ Taken(Least(Free), Hdev, poll.i)
    BY <1>2, <1>4 DEF NewDevice, Taken
  <2>5. PICK f \in Free : f = Least(Free)
    <3>1. MaxDev \in Nat /\ Free \in SUBSET (1 .. MaxDev)
      BY UsbAssumption DEF Free, Devs
    <3> QED  BY <2>4, <3>1, LeastIn
  <2>6. f \in Devs /\ f # d /\ f # Hdev
    BY <1>1, <2>3, <2>5 DEF Free
  <2>7. SameBut(dev'[d], dev[d])
    BY <1>1, <2>3, <2>4, <2>5, <2>6, TakenDev
  <2> QED  BY <1>1, <2>7, Zenon DEF SameBut, Dropped
<1>5. CASE Configure \/ HubFails
  <2>1. poll.pc = "config" /\ poll.pc \in Enumerating
    BY <1>5 DEF Configure, HubFails, Enumerating
  <2>2. Thing \in Things \cup {NoThing} /\ Fresh(poll.d) /\ poll.d \in Devs
    BY <2>1, InHand
  <2>3. 0 \in 0 .. MaxHub /\ "none" \in Drivers
    BY UsbAssumption DEF Drivers
  <2>4. \E h \in 0 .. MaxHub, drv \in Drivers, t \in Things : Claimed(poll.d, h, drv, t)
    <3>1. CASE HubFails
      <4>1. Claimed(poll.d, 0, "none", Thing) /\ Thing \in Things
        BY <2>2, <3>1 DEF HubFails, Claims, Claimed
      <4> QED  BY <2>3, <4>1
    <3>2. CASE Configure
      <4>1. PICK ok \in BOOLEAN :
              /\ Answered(poll.d, ok)
              /\ \/ ok /\ (HubProbed(Thing) \/ StorProbed(Thing) \/ HidProbed(Thing) \/ Unclaimed(Thing))
                 \/ ~ok /\ dev' = dev
        BY <3>2 DEF Configure
      <4>2. ok /\ (HubProbed(Thing) \/ StorProbed(Thing) \/ HidProbed(Thing) \/ Unclaimed(Thing))
        BY <1>2, <4>1
      <4>3. Thing \in Things
        BY <2>2, <4>1, <4>2, AnsweredFaults DEF Inv
      <4> QED  BY <2>1, <4>2, <4>3, ProbedIs
    <3> QED  BY <1>5, <3>1, <3>2
  <2>5. PICK h \in 0 .. MaxHub, drv \in Drivers, t \in Things : Claimed(poll.d, h, drv, t)
    BY <2>4
  <2>6. dev'[d].live = dev[d].live
    BY <1>1, <2>2, <2>5, ClaimedDev
  <2> QED  BY <1>1, <2>6, Zenon DEF Dropped
<1>6. CASE NewFails
  <2>1. Cut(Hdev, {poll.d}, {poll.d}) /\ IsFamily({poll.d}, {poll.d}) /\ {poll.d} \subseteq KidsOf(Hdev)
    BY <1>6, NewFailsCuts
  <2>2. poll.pc \in Enumerating
    BY <1>6 DEF NewFails, Enumerating
  <2>3. Hdev \in Devs /\ Fresh(poll.d)
    BY <2>2, InHand
  <2>4. Live' = Live \ {poll.d}
    BY <1>1, <2>1, <2>3, CutKeeps
  <2>5. d = poll.d
    BY <1>1, <2>4 DEF Dropped, Live
  <2> QED  BY <2>3, <2>5 DEF Fresh, Dropped
<1>7. CASE Start
  BY <1>1, <1>7 DEF Start, Inv, Downs
<1>8. CASE StopLost \/ StopAsked
  BY <1>8 DEF StopLost, StopAsked, Stopped, Dropped
<1>9. CASE LookNone \/ LookFails \/ Look \/ Debounce \/ Reset1 \/ Describes \/ Reset2 \/ SetAddress
  BY <1>2, <1>9 DEF LookNone, LookFails, Look, Debounce, Reset1, Describes, Reset2, SetAddress, stack
<1>10. CASE Bus \/ PollStarts \/ (\E e \in Devs : Job(e)) \/ UNCHANGED vars
  BY <1>2, <1>10 DEF Bus, PullOut, Drops, PlugIn, Dips, Revives, PollStarts, Job, stack, vars
<1> QED  BY <1>3, <1>4, <1>5, <1>6, <1>7, <1>8, <1>9, <1>10, Zenon DEF Next, Poll

(* While the stack stays up, a device the polls drop has lost its          *)
(* connection or had its port disabled, here or nearer the root: what      *)
(* usb_hub_port_connect_change and usb_disconnect do about one port costs  *)
(* no other device its enumeration.                                        *)
THEOREM UndisturbedAlways ==
  Spec => Undisturbed
<1>1. Inv /\ [Next]_vars =>
        [\A d \in Live : up' /\ dev[d].thing # NoThing /\ ~dev'[d].live => ~Steady(d)]_vars
  BY DropsUnsteady DEF Dropped
<1> QED  BY <1>1, InvAlways, PTL DEF Spec, Undisturbed
=============================================================================
