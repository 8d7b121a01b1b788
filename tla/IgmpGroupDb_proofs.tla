------------------------- MODULE IgmpGroupDb_proofs -------------------------
(***************************************************************************)
(* Proofs about IgmpGroupDb, for any ports, groups, addresses in the chip, *)
(* pool size and times, and any trunks.                                    *)
(*                                                                         *)
(* The argument: an operation changes one entry of a sound data base, and  *)
(* until it has told the chip the data base is sound but for that group    *)
(* (SoundBut).  Two things make it sound again: writing an entry that has  *)
(* members, each with a timer, to the chip (ToChipSound), and deleting it  *)
(* (DelGroupSound).  The loops over groups and over ports are recursive    *)
(* functions; that they are defined, and that each round leaves the data   *)
(* base sound, goes by induction on the number of rounds (Upto).           *)
(***************************************************************************)
EXTENDS IgmpGroupDb, SequenceTheorems, WellFoundedInduction, TLAPS

Distinct(d) == \A i, j \in DOMAIN d.list : d.list[i].addr = d.list[j].addr => i = j

HasTimers(e) == \A p \in e.fwd : e.timer[p] # 0

\* What holds of the data base while the entry of group g is being changed: the
\* other entries are in order, and the chip has nothing of a group that is gone.
SoundBut(d, g) ==
    /\ d \in DataBase
    /\ Len(d.list) + Len(d.free) = MAX_GROUP_SIZE
    /\ Distinct(d)
    /\ \A e \in ToSet(d.list) : e.addr # g => e.fwd # {} /\ HasTimers(e)
    /\ \A e \in ToSet(d.list) : e.addr # g /\ OwnMac(e.addr) => e.fwd \subseteq d.chip[MacOf(e.addr)]
    /\ \A m \in Mac : d.chip[m] # {} => \E e \in ToSet(d.list) : MacOf(e.addr) = m

\* What holds of it between two operations.
Sound(d) ==
    /\ d \in DataBase
    /\ Len(d.list) + Len(d.free) = MAX_GROUP_SIZE
    /\ Distinct(d)
    /\ \A e \in ToSet(d.list) : e.fwd # {} /\ HasTimers(e)
    /\ \A e \in ToSet(d.list) : OwnMac(e.addr) => e.fwd \subseteq d.chip[MacOf(e.addr)]
    /\ \A m \in Mac : d.chip[m] # {} => \E e \in ToSet(d.list) : MacOf(e.addr) = m

\* What x changed of d concerns the ports P of group g.
Concerns(d, x, g, P) ==
    \A e \in ToSet(x.list) :
        \/ e \in ToSet(d.list)
        \/ /\ e.addr = g /\ e.fwd \ P \subseteq Get(d, g).fwd
           /\ \A q \in Port \ P : e.timer[q] = Get(d, g).timer[q]

\* Entry new has no port and no time that entry e does not have.
NoMore(new, e) ==
    new.addr = e.addr /\ new.fwd \subseteq e.fwd /\ \A p \in Port : new.timer[p] <= e.timer[p]

\* What the chip forwards in x to a port that is no member, it forwarded so in d,
\* or the port was a router port.
Follows(d, x) ==
    /\ RouterPorts(x) \subseteq RouterPorts(d)
    /\ \A m \in Mac : Strangers(x, m) \subseteq Strangers(d, m) \cup RouterPorts(d)

LEMMA Sizes ==
    /\ SAL_PORT_ID_CPU \in Nat
    /\ MAX_GROUP_SIZE \in Nat \ {0} /\ IGMP_GROUP_MEM_INTERVAL \in Nat \ {0}
    /\ V1_ROUTER_PRESENT_TIME \in Nat \ {0} /\ IGMPDB_CHECK_PERIOD \in Nat \ {0}
    /\ \A p \in Port : p \in Nat
    /\ \A g \in Group : MacOf(g) \in Mac
BY GroupDbAssumption DEF Port

-----------------------------------------------------------------------------
(* Sequences                                                               *)

LEMMA ListFacts ==
    ASSUME NEW S, NEW s \in Seq(S)
    PROVE  /\ DOMAIN s = 1 .. Len(s) /\ Len(s) \in Nat
           /\ \A i \in DOMAIN s : s[i] \in S
           /\ \A x \in ToSet(s) : x \in S /\ \E i \in DOMAIN s : s[i] = x
           /\ \A i \in DOMAIN s : s[i] \in ToSet(s)
BY LenProperties, ElementOfSeq DEF ToSet

\* A function on 1 .. n is a sequence of n elements.
LEMMA FunctionIsList ==
    ASSUME NEW S, NEW n \in Nat, NEW f \in [1 .. n -> S]
    PROVE  f \in Seq(S) /\ Len(f) = n
<1>1. f \in Seq(S)
  BY SeqDef
<1>2. 1 .. Len(f) = 1 .. n /\ Len(f) \in Nat
  BY <1>1, LenProperties
<1>3. \A m \in Nat : 1 .. m = 1 .. n => m = n
  <2> SUFFICES ASSUME NEW m \in Nat, 1 .. m = 1 .. n PROVE m = n
    OBVIOUS
  <2>1. m > n => m \in 1 .. m
    OBVIOUS
  <2>2. n > m => n \in 1 .. n
    OBVIOUS
  <2> QED BY <2>1, <2>2
<1> QED BY <1>1, <1>2, <1>3, Zenon

\* What stands behind the element that is removed moves up.
LEMMA RemoveAtFacts ==
    ASSUME NEW S, NEW s \in Seq(S), NEW k \in DOMAIN s
    PROVE  /\ RemoveAt(s, k) \in Seq(S)
           /\ Len(RemoveAt(s, k)) = Len(s) - 1
           /\ \A i \in 1 .. Len(s) - 1 :
                  RemoveAt(s, k)[i] = IF i < k THEN s[i] ELSE s[i + 1]
<1> DEFINE a == SubSeq(s, 1, k - 1)
           b == SubSeq(s, k + 1, Len(s))
<1>1. Len(s) \in Nat /\ k \in 1 .. Len(s) /\ \A i \in 1 .. Len(s) : s[i] \in S
  BY LenProperties, ElementOfSeq
<1>2. /\ a \in Seq(S) /\ Len(a) = k - 1
      /\ \A i \in 1 .. k - 1 : a[i] = s[i]
  <2>1. /\ SubSeq(s, 1, k - 1) \in Seq(S)
        /\ Len(SubSeq(s, 1, k - 1)) = IF 1 <= k - 1 THEN k - 1 - 1 + 1 ELSE 0
        /\ \A i \in 1 .. k - 1 - 1 + 1 : SubSeq(s, 1, k - 1)[i] = s[1 + i - 1]
    BY <1>1, SubSeqProperties
  <2> QED BY <1>1, <2>1
<1>3. /\ b \in Seq(S) /\ Len(b) = Len(s) - k
      /\ \A i \in 1 .. Len(s) - k : b[i] = s[k + i]
  <2>1. /\ SubSeq(s, k + 1, Len(s)) \in Seq(S)
        /\ Len(SubSeq(s, k + 1, Len(s))) = IF k + 1 <= Len(s) THEN Len(s) - (k + 1) + 1 ELSE 0
        /\ \A i \in 1 .. Len(s) - (k + 1) + 1 :
               SubSeq(s, k + 1, Len(s))[i] = s[k + 1 + i - 1]
    BY <1>1, SubSeqProperties
  <2> QED BY <1>1, <2>1
<1> HIDE DEF a, b
<1>4. a \o b \in Seq(S) /\ Len(a \o b) = Len(a) + Len(b)
  BY <1>2, <1>3, ConcatProperties
<1>5. \A i \in 1 .. Len(a) + Len(b) :
          (a \o b)[i] = IF i <= Len(a) THEN a[i] ELSE b[i - Len(a)]
  BY <1>2, <1>3, ConcatProperties
<1>6. RemoveAt(s, k) = a \o b
  BY DEF RemoveAt, a, b
<1>7. ASSUME NEW i \in 1 .. Len(s) - 1
      PROVE  RemoveAt(s, k)[i] = IF i < k THEN s[i] ELSE s[i + 1]
  <2>1. (a \o b)[i] = IF i <= k - 1 THEN a[i] ELSE b[i - (k - 1)]
    BY <1>1, <1>2, <1>3, <1>5
  <2>2. CASE i < k
    <3>1. i <= k - 1 /\ i \in 1 .. k - 1
      BY <1>1, <2>2
    <3>2. a[i] = s[i]
      BY <1>2, <3>1
    <3>3. (a \o b)[i] = s[i]
      BY <2>1, <3>1, <3>2
    <3> QED BY <1>6, <2>2, <3>3, Zenon
  <2>3. CASE ~(i < k)
    <3>1. i - (k - 1) \in 1 .. Len(s) - k /\ k + (i - (k - 1)) = i + 1
      BY <1>1, <2>3
    <3>2. b[i - (k - 1)] = s[i + 1]
      BY <1>3, <3>1
    <3>3. (a \o b)[i] = b[i - (k - 1)]
      BY <1>1, <2>1, <2>3
    <3> QED BY <1>6, <2>3, <3>2, <3>3, Zenon
  <2> QED BY <2>2, <2>3
<1>8. Len(a) + Len(b) = Len(s) - 1
  BY <1>1, <1>2, <1>3
<1> QED BY <1>4, <1>6, <1>7, <1>8

-----------------------------------------------------------------------------
(* The data base                                                           *)

LEMMA Fields ==
    ASSUME NEW d \in DataBase
    PROVE  /\ d.list \in Seq(Entry) /\ d.free \in Seq(Timers)
           /\ d.router \in [Port -> 0 .. V1_ROUTER_PRESENT_TIME]
           /\ d.chip \in [Mac -> SUBSET Port]
BY DEF DataBase

LEMMA Entries ==
    ASSUME NEW d \in DataBase
    PROVE  /\ \A e \in ToSet(d.list) : e \in Entry /\ e.addr \in Group
           /\ Len(d.list) \in Nat /\ Len(d.free) \in Nat
<1>1. d.list \in Seq(Entry) /\ d.free \in Seq(Timers)
  BY Fields
<1>2. \A e \in ToSet(d.list) : e \in Entry
  BY <1>1, ListFacts
<1> QED BY <1>1, <1>2, LenProperties DEF Entry

LEMMA FieldsChange ==
    ASSUME NEW d \in DataBase, NEW l \in Seq(Entry), NEW f \in Seq(Timers),
           NEW c \in [Mac -> SUBSET Port],
           NEW r \in [Port -> 0 .. V1_ROUTER_PRESENT_TIME]
    PROVE  [list |-> l, free |-> f, router |-> r, chip |-> c] \in DataBase
BY DEF DataBase

LEMMA Lookup ==
    ASSUME NEW d \in DataBase, Distinct(d), NEW g \in Group, Listed(d, g)
    PROVE  /\ Index(d, g) \in DOMAIN d.list
           /\ Get(d, g) \in ToSet(d.list) /\ Get(d, g) \in Entry /\ Get(d, g).addr = g
           /\ \A e \in ToSet(d.list) : e.addr = g => e = Get(d, g)
<1>1. Index(d, g) \in DOMAIN d.list /\ d.list[Index(d, g)].addr = g
  BY DEF Listed, Index
<1>2. d.list \in Seq(Entry)
  BY Fields
<1>3. \A e \in ToSet(d.list) : \E i \in DOMAIN d.list : d.list[i] = e
  BY DEF ToSet
<1> QED BY <1>1, <1>2, <1>3, ListFacts DEF Get, Distinct

LEMMA ListedIsInList ==
    ASSUME NEW d, NEW g
    PROVE  Listed(d, g) <=> \E e \in ToSet(d.list) : e.addr = g
BY DEF Listed, ToSet

\* A changed entry stays where it is.
LEMMA PutFacts ==
    ASSUME NEW d \in DataBase, Distinct(d), NEW e \in Entry, Listed(d, e.addr)
    PROVE  /\ Put(d, e) \in DataBase /\ Distinct(Put(d, e))
           /\ Len(Put(d, e).list) = Len(d.list)
           /\ Put(d, e).free = d.free /\ Put(d, e).chip = d.chip /\ Put(d, e).router = d.router
           /\ ToSet(Put(d, e).list) = {x \in ToSet(d.list) : x.addr # e.addr} \cup {e}
           /\ Listed(Put(d, e), e.addr) /\ Get(Put(d, e), e.addr) = e
<1> DEFINE g == e.addr
           k == Index(d, g)
           l == [d.list EXCEPT ![k] = e]
           r == [list |-> l, free |-> d.free, router |-> d.router, chip |-> d.chip]
<1>1. g \in Group
  BY DEF Entry
<1>2. k \in DOMAIN d.list /\ d.list[k].addr = g
  BY DEF Listed, Index
<1>3. d.list \in Seq(Entry)
  BY Fields
<1>4. /\ l \in Seq(Entry) /\ Len(l) = Len(d.list) /\ DOMAIN l = DOMAIN d.list
      /\ \A j \in DOMAIN d.list : l[j] = IF j = k THEN e ELSE d.list[j]
  BY <1>2, <1>3, ExceptSeq, LenProperties
<1>5. Put(d, e) = r
  <2>1. d = [list |-> d.list, free |-> d.free, router |-> d.router, chip |-> d.chip]
    BY DEF DataBase
  <2>2. Put(d, e) = [d EXCEPT !.list = l]
    BY DEF Put
  <2> HIDE DEF l
  <2> QED BY <2>1, <2>2
<1> HIDE DEF l, k
<1>6. r \in DataBase
  BY <1>4, Fields, FieldsChange
<1>7. Distinct(r)
  BY <1>2, <1>4 DEF Distinct
<1>8. \A j \in DOMAIN d.list : d.list[j].addr = g => j = k
  BY <1>2 DEF Distinct
<1>9. ToSet(l) = {x \in ToSet(d.list) : x.addr # g} \cup {e}
  BY <1>2, <1>4, <1>8 DEF ToSet
<1>10. Listed(r, g)
  BY <1>2, <1>4 DEF Listed
<1>11. Get(r, g) = e
  BY <1>1, <1>6, <1>7, <1>9, <1>10, Lookup
<1> QED BY <1>4, <1>5, <1>6, <1>7, <1>9, <1>10, <1>11

\* A deleted one leaves its timers to the pool.
LEMMA DelGroupFacts ==
    ASSUME NEW d \in DataBase, Distinct(d), NEW g \in Group, Listed(d, g)
    PROVE  /\ DelGroup(d, g) \in DataBase /\ Distinct(DelGroup(d, g))
           /\ Len(DelGroup(d, g).list) = Len(d.list) - 1
           /\ Len(DelGroup(d, g).free) = Len(d.free) + 1
           /\ DelGroup(d, g).chip = [d.chip EXCEPT ![MacOf(g)] = {}]
           /\ DelGroup(d, g).router = d.router
           /\ ToSet(DelGroup(d, g).list) = {x \in ToSet(d.list) : x.addr # g}
<1> DEFINE k == Index(d, g)
           l == RemoveAt(d.list, k)
           f == <<Get(d, g).timer>> \o d.free
           c == [d.chip EXCEPT ![MacOf(g)] = {}]
           r == [list |-> l, free |-> f, router |-> d.router, chip |-> c]
<1>1. k \in DOMAIN d.list /\ d.list[k].addr = g /\ Get(d, g) \in Entry
  BY Lookup DEF Listed, Index
<1>2. d.list \in Seq(Entry) /\ DOMAIN d.list = 1 .. Len(d.list) /\ Len(d.list) \in Nat
  BY Fields, LenProperties
<1>3. /\ l \in Seq(Entry) /\ Len(l) = Len(d.list) - 1
      /\ \A i \in 1 .. Len(d.list) - 1 : l[i] = IF i < k THEN d.list[i] ELSE d.list[i + 1]
  BY <1>1, <1>2, RemoveAtFacts
<1>4. DOMAIN l = 1 .. Len(d.list) - 1
  BY <1>3, LenProperties
<1>5. f \in Seq(Timers) /\ Len(f) = Len(d.free) + 1
  <2>1. <<Get(d, g).timer>> \in Seq(Timers) /\ Len(<<Get(d, g).timer>>) = 1
    BY <1>1 DEF Entry
  <2>2. d.free \in Seq(Timers) /\ Len(d.free) \in Nat
    BY Fields, LenProperties
  <2> QED BY <2>1, <2>2, ConcatProperties
<1>6. DelGroup(d, g) = r
  BY Fields DEF DelGroup, DataBase
<1> HIDE DEF l, k, f
<1>7. r \in DataBase
  <2>1. c \in [Mac -> SUBSET Port]
    BY Fields
  <2> QED BY <1>3, <1>5, <2>1, Fields, FieldsChange
<1>8. \A j \in DOMAIN d.list : d.list[j].addr = g => j = k
  BY <1>1 DEF Distinct
<1>9. Distinct(r)
  <2> SUFFICES ASSUME NEW i \in DOMAIN l, NEW j \in DOMAIN l, l[i].addr = l[j].addr
               PROVE  i = j
    BY DEF Distinct
  <2> DEFINE h(n) == IF n < k THEN n ELSE n + 1
  <2>1. i \in 1 .. Len(d.list) - 1 /\ j \in 1 .. Len(d.list) - 1
    BY <1>4
  <2>2. h(i) \in DOMAIN d.list /\ h(j) \in DOMAIN d.list
    BY <1>1, <1>2, <2>1
  <2>3. l[i] = d.list[h(i)] /\ l[j] = d.list[h(j)]
    BY <1>3, <2>1
  <2>4. h(i) = h(j)
    BY <2>2, <2>3 DEF Distinct
  <2> QED BY <1>1, <1>2, <2>1, <2>4
<1>10. ASSUME NEW x \in ToSet(l) PROVE x \in ToSet(d.list) /\ x.addr # g
  <2>1. PICK i \in 1 .. Len(d.list) - 1 : l[i] = x
    BY <1>4 DEF ToSet
  <2>2. PICK j \in DOMAIN d.list : x = d.list[j] /\ j # k
    <3>1. CASE i < k
      BY <1>2, <1>3, <2>1, <3>1
    <3>2. CASE ~(i < k)
      <4>1. i + 1 \in DOMAIN d.list /\ i + 1 # k
        BY <1>1, <1>2, <2>1, <3>2
      <4> QED BY <1>3, <2>1, <3>2, <4>1
    <3> QED BY <3>1, <3>2
  <2> QED BY <1>8, <2>2 DEF ToSet
<1>11. ASSUME NEW x \in ToSet(d.list), x.addr # g PROVE x \in ToSet(l)
  <2>1. PICK j \in DOMAIN d.list : d.list[j] = x /\ j # k
    BY <1>1, <1>11 DEF ToSet
  <2>2. PICK i \in 1 .. Len(d.list) - 1 : l[i] = d.list[j]
    <3>1. CASE j < k
      <4>1. j \in 1 .. Len(d.list) - 1
        BY <1>1, <1>2, <3>1
      <4> QED BY <1>3, <3>1, <4>1
    <3>2. CASE ~(j < k)
      <4>1. j - 1 \in 1 .. Len(d.list) - 1 /\ ~(j - 1 < k) /\ j - 1 + 1 = j
        BY <1>1, <1>2, <2>1, <3>2
      <4> QED BY <1>3, <4>1
    <3> QED BY <3>1, <3>2
  <2> QED BY <1>4, <2>1, <2>2 DEF ToSet
<1>12. ToSet(l) = {x \in ToSet(d.list) : x.addr # g}
  BY <1>10, <1>11
<1> QED BY <1>3, <1>5, <1>6, <1>7, <1>9, <1>12

-----------------------------------------------------------------------------
(* Changes of one entry                                                    *)

LEMMA SoundIsSoundBut ==
    ASSUME NEW d, NEW g, Sound(d)
    PROVE  SoundBut(d, g)
BY DEF Sound, SoundBut

LEMMA PutSound ==
    ASSUME NEW d, NEW e \in Entry, SoundBut(d, e.addr), Listed(d, e.addr)
    PROVE  SoundBut(Put(d, e), e.addr)
<1> DEFINE r == Put(d, e)
<1>1. d \in DataBase /\ Distinct(d)
  BY DEF SoundBut
<1>2. /\ r \in DataBase /\ Distinct(r) /\ Len(r.list) = Len(d.list) /\ r.free = d.free
      /\ r.chip = d.chip
      /\ ToSet(r.list) = {x \in ToSet(d.list) : x.addr # e.addr} \cup {e}
  BY <1>1, PutFacts
<1> HIDE DEF r
<1>3. ASSUME NEW m \in Mac, r.chip[m] # {}
      PROVE  \E x \in ToSet(r.list) : MacOf(x.addr) = m
  <2>1. PICK x \in ToSet(d.list) : MacOf(x.addr) = m
    BY <1>2, <1>3 DEF SoundBut
  <2> QED BY <1>2, <2>1
<1> QED BY <1>2, <1>3 DEF SoundBut, r

LEMMA ToChipSound ==
    ASSUME NEW d, NEW g \in Group, SoundBut(d, g), Listed(d, g), routerStatic \subseteq Port,
           Get(d, g).fwd # {}, HasTimers(Get(d, g))
    PROVE  /\ Sound(ToChip(d, g))
           /\ ToChip(d, g).list = d.list
<1> DEFINE c == [d.chip EXCEPT ![MacOf(g)] = Get(d, g).fwd \cup RouterPorts(d)]
           r == [d EXCEPT !.chip = c]
<1>1. d \in DataBase /\ Distinct(d)
  BY DEF SoundBut
<1>2. /\ Get(d, g) \in ToSet(d.list) /\ Get(d, g) \in Entry /\ Get(d, g).addr = g
      /\ \A e \in ToSet(d.list) : e.addr = g => e = Get(d, g)
  BY <1>1, Lookup
<1>3. MacOf(g) \in Mac
  BY Sizes
<1>4. ToChip(d, g) = r
  BY DEF ToChip
<1>5. c \in [Mac -> SUBSET Port]
  BY <1>1, <1>2, Fields DEF RouterPorts, Entry
<1>6. /\ c[MacOf(g)] = Get(d, g).fwd \cup RouterPorts(d)
      /\ \A m \in Mac : m # MacOf(g) => c[m] = d.chip[m]
  BY <1>1, <1>3, Fields
<1> HIDE DEF c
<1>7. /\ r.list = d.list /\ r.free = d.free /\ r.chip = c
      /\ r \in DataBase
  BY <1>1, <1>5, Fields DEF DataBase
<1> HIDE DEF r
<1>8. Distinct(r)
  BY <1>1, <1>7 DEF Distinct
<1>9. \A e \in ToSet(r.list) : e.fwd # {} /\ HasTimers(e)
  BY <1>2, <1>7 DEF SoundBut
<1>10. ASSUME NEW e \in ToSet(r.list), OwnMac(e.addr)
       PROVE  e.fwd \subseteq r.chip[MacOf(e.addr)]
  <2>1. e \in Entry /\ e.addr \in Group
    BY <1>7, Entries
  <2>2. CASE e.addr = g
    BY <1>2, <1>6, <1>7, <2>2
  <2>3. CASE e.addr # g
    <3>1. MacOf(e.addr) # MacOf(g) /\ MacOf(e.addr) \in Mac
      BY <1>10, <2>1, <2>3, Sizes DEF OwnMac
    <3> QED BY <1>6, <1>7, <1>10, <2>3, <3>1 DEF SoundBut
  <2> QED BY <2>2, <2>3
<1>11. ASSUME NEW m \in Mac, r.chip[m] # {}
       PROVE  \E e \in ToSet(r.list) : MacOf(e.addr) = m
  BY <1>2, <1>6, <1>7, <1>11 DEF SoundBut
<1>12. Len(r.list) + Len(r.free) = MAX_GROUP_SIZE
  BY <1>7 DEF SoundBut
<1> QED BY <1>4, <1>7, <1>8, <1>9, <1>10, <1>11, <1>12 DEF Sound

LEMMA DelGroupSound ==
    ASSUME NEW d, NEW g \in Group, SoundBut(d, g), Listed(d, g)
    PROVE  /\ Sound(DelGroup(d, g))
           /\ ToSet(DelGroup(d, g).list) = {x \in ToSet(d.list) : x.addr # g}
<1> DEFINE r == DelGroup(d, g)
<1>1. d \in DataBase /\ Distinct(d)
  BY DEF SoundBut
<1>2. /\ r \in DataBase /\ Distinct(r)
      /\ Len(r.list) = Len(d.list) - 1 /\ Len(r.free) = Len(d.free) + 1
      /\ r.chip = [d.chip EXCEPT ![MacOf(g)] = {}]
      /\ ToSet(r.list) = {x \in ToSet(d.list) : x.addr # g}
  BY <1>1, DelGroupFacts
<1> HIDE DEF r
<1>3. /\ r.chip[MacOf(g)] = {}
      /\ \A m \in Mac : m # MacOf(g) => r.chip[m] = d.chip[m]
  BY <1>1, <1>2, Fields, Sizes
<1>4. Len(r.list) + Len(r.free) = MAX_GROUP_SIZE
  <2>1. Len(d.list) \in Nat /\ Len(d.free) \in Nat
    BY <1>1, Entries
  <2>2. Len(d.list) + Len(d.free) = MAX_GROUP_SIZE
    BY DEF SoundBut
  <2>3. \A m, n \in Nat : (m - 1) + (n + 1) = m + n
    OBVIOUS
  <2> QED BY <1>2, <2>1, <2>2, <2>3, Zenon
<1>5. \A e \in ToSet(r.list) : e.fwd # {} /\ HasTimers(e)
  BY <1>2 DEF SoundBut
<1>6. ASSUME NEW e \in ToSet(r.list), OwnMac(e.addr)
      PROVE  e.fwd \subseteq r.chip[MacOf(e.addr)]
  <2>1. e \in ToSet(d.list) /\ e.addr # g /\ e.addr \in Group
    BY <1>1, <1>2, Entries
  <2>2. MacOf(e.addr) # MacOf(g) /\ MacOf(e.addr) \in Mac
    BY <1>6, <2>1, Sizes DEF OwnMac
  <2> QED BY <1>3, <1>6, <2>1, <2>2 DEF SoundBut
<1>7. ASSUME NEW m \in Mac, r.chip[m] # {}
      PROVE  \E e \in ToSet(r.list) : MacOf(e.addr) = m
  <2>1. m # MacOf(g) /\ d.chip[m] # {}
    BY <1>3, <1>7
  <2>2. PICK e \in ToSet(d.list) : MacOf(e.addr) = m
    BY <2>1 DEF SoundBut
  <2> QED BY <1>2, <2>1, <2>2
<1> QED BY <1>2, <1>4, <1>5, <1>6, <1>7 DEF Sound, r

\* An entry with members and timers that is written to the chip
LEMMA WriteSound ==
    ASSUME NEW d, NEW e \in Entry, SoundBut(d, e.addr), Listed(d, e.addr),
           routerStatic \subseteq Port, e.fwd # {}, HasTimers(e)
    PROVE  /\ Sound(ToChip(Put(d, e), e.addr))
           /\ ToSet(ToChip(Put(d, e), e.addr).list) =
                  {x \in ToSet(d.list) : x.addr # e.addr} \cup {e}
<1>1. e.addr \in Group /\ d \in DataBase /\ Distinct(d)
  BY DEF Entry, SoundBut
<1>2. SoundBut(Put(d, e), e.addr)
  BY PutSound
<1>3. /\ Listed(Put(d, e), e.addr) /\ Get(Put(d, e), e.addr) = e
      /\ ToSet(Put(d, e).list) = {x \in ToSet(d.list) : x.addr # e.addr} \cup {e}
  BY <1>1, PutFacts
<1>4. /\ Sound(ToChip(Put(d, e), e.addr))
      /\ ToChip(Put(d, e), e.addr).list = Put(d, e).list
  BY <1>1, <1>2, <1>3, ToChipSound
<1> QED BY <1>3, <1>4

\* An entry that goes
LEMMA DropSound ==
    ASSUME NEW d, NEW e \in Entry, SoundBut(d, e.addr), Listed(d, e.addr)
    PROVE  /\ Sound(DelGroup(Put(d, e), e.addr))
           /\ ToSet(DelGroup(Put(d, e), e.addr).list) =
                  {x \in ToSet(d.list) : x.addr # e.addr}
<1>1. e.addr \in Group /\ d \in DataBase /\ Distinct(d)
  BY DEF Entry, SoundBut
<1>2. SoundBut(Put(d, e), e.addr)
  BY PutSound
<1>3. /\ Listed(Put(d, e), e.addr)
      /\ ToSet(Put(d, e).list) = {x \in ToSet(d.list) : x.addr # e.addr} \cup {e}
  BY <1>1, PutFacts
<1>4. /\ Sound(DelGroup(Put(d, e), e.addr))
      /\ ToSet(DelGroup(Put(d, e), e.addr).list) = {x \in ToSet(Put(d, e).list) : x.addr # e.addr}
  BY <1>1, <1>2, <1>3, DelGroupSound
<1> QED BY <1>3, <1>4

\* An entry whose members do not change
LEMMA AgainSound ==
    ASSUME NEW d, Sound(d), NEW e \in ToSet(d.list), NEW new \in Entry,
           new.addr = e.addr, new.fwd = e.fwd, HasTimers(new)
    PROVE  /\ Sound(Put(d, new))
           /\ ToSet(Put(d, new).list) = {x \in ToSet(d.list) : x.addr # e.addr} \cup {new}
<1>1. d \in DataBase /\ Distinct(d) /\ e.fwd # {} /\ Listed(d, new.addr)
  BY ListedIsInList DEF Sound
<1>2. SoundBut(Put(d, new), new.addr)
  BY <1>1, SoundIsSoundBut, PutSound
<1>3. /\ ToSet(Put(d, new).list) = {x \in ToSet(d.list) : x.addr # new.addr} \cup {new}
      /\ Put(d, new).chip = d.chip
  BY <1>1, PutFacts
<1>4. OwnMac(e.addr) => new.fwd \subseteq d.chip[MacOf(new.addr)]
  BY DEF Sound
<1> QED BY <1>1, <1>2, <1>3, <1>4 DEF Sound, SoundBut

LEMMA SettleSound ==
    ASSUME NEW d, Sound(d), NEW e \in ToSet(d.list), NEW new \in Entry,
           new.addr = e.addr, HasTimers(new), routerStatic \subseteq Port
    PROVE  /\ Sound(Settle(d, e, new))
           /\ \A x \in ToSet(d.list) : x.addr # e.addr => x \in ToSet(Settle(d, e, new).list)
           /\ \A x \in ToSet(Settle(d, e, new).list) :
                  x # new => x \in ToSet(d.list) /\ x.addr # e.addr
<1>1. SoundBut(d, new.addr) /\ Listed(d, new.addr)
  BY SoundIsSoundBut, ListedIsInList
<1>2. CASE new.fwd = {}
  BY <1>1, <1>2, DropSound DEF Settle
<1>3. CASE new.fwd # {} /\ new.fwd # e.fwd
  <2>1. Settle(d, e, new) = ToChip(Put(d, new), new.addr)
    BY <1>3 DEF Settle
  <2>2. /\ Sound(ToChip(Put(d, new), new.addr))
        /\ ToSet(ToChip(Put(d, new), new.addr).list) =
               {x \in ToSet(d.list) : x.addr # new.addr} \cup {new}
    BY <1>1, <1>3, WriteSound
  <2> QED BY <2>1, <2>2
<1>4. CASE new.fwd # {} /\ new.fwd = e.fwd
  BY <1>4, AgainSound DEF Settle
<1> QED BY <1>2, <1>3, <1>4

-----------------------------------------------------------------------------
(* What the chip is told                                                   *)

LEMMA FollowsAgain ==
    ASSUME NEW d, NEW x, NEW y, Follows(d, x), Follows(x, y)
    PROVE  Follows(d, y)
BY DEF Follows

\* The members are the same, and so is the chip.
LEMMA NothingToFollow ==
    ASSUME NEW d, NEW x, x.chip = d.chip, RouterPorts(x) \subseteq RouterPorts(d),
           \A e \in ToSet(d.list) : \E w \in ToSet(x.list) : w.addr = e.addr /\ w.fwd = e.fwd
    PROVE  Follows(d, x)
BY DEF Follows, Strangers

LEMMA WriteFollows ==
    ASSUME NEW d, NEW e \in Entry, SoundBut(d, e.addr), Listed(d, e.addr)
    PROVE  Follows(d, ToChip(Put(d, e), e.addr))
<1> DEFINE w == Put(d, e)
           g == e.addr
           c == [w.chip EXCEPT ![MacOf(g)] = Get(w, g).fwd \cup RouterPorts(w)]
           x == ToChip(w, g)
<1>1. d \in DataBase /\ Distinct(d) /\ g \in Group /\ MacOf(g) \in Mac
  BY Sizes DEF SoundBut, Entry
<1>2. /\ w \in DataBase /\ w.chip = d.chip /\ w.router = d.router
      /\ ToSet(w.list) = {y \in ToSet(d.list) : y.addr # g} \cup {e}
      /\ Get(w, g) = e
  BY <1>1, PutFacts
<1> HIDE DEF w, g
<1>3. x.list = w.list /\ x.router = w.router /\ x.chip = c
  BY <1>2 DEF ToChip, DataBase
<1> HIDE DEF x
<1>4. RouterPorts(w) = RouterPorts(d) /\ RouterPorts(x) = RouterPorts(d)
  BY <1>2, <1>3 DEF RouterPorts
<1>5. /\ c[MacOf(g)] = e.fwd \cup RouterPorts(d)
      /\ \A m \in Mac : m # MacOf(g) => c[m] = d.chip[m]
  BY <1>1, <1>2, <1>4, Fields
<1> HIDE DEF c
<1>6. ASSUME NEW m \in Mac, NEW p \in Strangers(x, m)
      PROVE  p \in Strangers(d, m) \cup RouterPorts(d)
  <2>1. p \in c[m] /\ \A y \in ToSet(w.list) : MacOf(y.addr) = m => p \notin y.fwd
    BY <1>3 DEF Strangers
  <2>2. CASE m = MacOf(g)
    BY <1>2, <1>5, <2>1, <2>2 DEF g
  <2>3. CASE m # MacOf(g)
    <3>1. p \in d.chip[m]
      BY <1>5, <2>1, <2>3
    <3>2. \A y \in ToSet(d.list) : MacOf(y.addr) = m => y \in ToSet(w.list)
      BY <1>2, <2>3
    <3> QED BY <2>1, <3>1, <3>2 DEF Strangers
  <2> QED BY <2>2, <2>3
<1> QED BY <1>4, <1>6 DEF Follows, x, w, g

LEMMA DropFollows ==
    ASSUME NEW d, NEW e \in Entry, SoundBut(d, e.addr), Listed(d, e.addr)
    PROVE  Follows(d, DelGroup(Put(d, e), e.addr))
<1> DEFINE w == Put(d, e)
           g == e.addr
           x == DelGroup(w, g)
<1>1. d \in DataBase /\ Distinct(d) /\ g \in Group /\ MacOf(g) \in Mac
  BY Sizes DEF SoundBut, Entry
<1>2. /\ w \in DataBase /\ Distinct(w) /\ w.chip = d.chip /\ w.router = d.router
      /\ ToSet(w.list) = {y \in ToSet(d.list) : y.addr # g} \cup {e} /\ Listed(w, g)
  BY <1>1, PutFacts
<1> HIDE DEF w
<1>3. /\ x.chip = [w.chip EXCEPT ![MacOf(g)] = {}] /\ x.router = w.router
      /\ ToSet(x.list) = {y \in ToSet(w.list) : y.addr # g}
  BY <1>1, <1>2, DelGroupFacts
<1> HIDE DEF x, g
<1>4. RouterPorts(x) = RouterPorts(d)
  BY <1>2, <1>3 DEF RouterPorts
<1>5. x.chip[MacOf(g)] = {} /\ \A m \in Mac : m # MacOf(g) => x.chip[m] = d.chip[m]
  BY <1>1, <1>2, <1>3, Fields
<1>6. ASSUME NEW m \in Mac, NEW p \in Strangers(x, m)
      PROVE  p \in Strangers(d, m)
  <2>1. p \in x.chip[m] /\ \A y \in ToSet(x.list) : MacOf(y.addr) = m => p \notin y.fwd
    BY DEF Strangers
  <2>2. m # MacOf(g) /\ p \in d.chip[m]
    BY <1>5, <2>1
  <2>3. \A y \in ToSet(d.list) : MacOf(y.addr) = m => y \in ToSet(x.list)
    BY <1>2, <1>3, <2>2
  <2> QED BY <2>1, <2>2, <2>3 DEF Strangers
<1> QED BY <1>4, <1>6 DEF Follows, x, w, g

LEMMA SettleFollows ==
    ASSUME NEW d, Sound(d), NEW e \in ToSet(d.list), NEW new \in Entry, new.addr = e.addr
    PROVE  Follows(d, Settle(d, e, new))
<1>1. SoundBut(d, new.addr) /\ Listed(d, new.addr)
  BY SoundIsSoundBut, ListedIsInList
<1>2. CASE new.fwd = {}
  BY <1>1, <1>2, DropFollows DEF Settle
<1>3. CASE new.fwd # {} /\ new.fwd # e.fwd
  <2>1. Settle(d, e, new) = ToChip(Put(d, new), new.addr)
    BY <1>3 DEF Settle
  <2> QED BY <1>1, <2>1, WriteFollows
<1>4. CASE new.fwd # {} /\ new.fwd = e.fwd
  <2> DEFINE x == Put(d, new)
  <2>1. d \in DataBase /\ Distinct(d) /\ \A b \in ToSet(d.list) : b.addr = e.addr => b = e
    BY DEF Sound, Distinct, ToSet
  <2>2. /\ ToSet(x.list) = {y \in ToSet(d.list) : y.addr # new.addr} \cup {new}
        /\ x.chip = d.chip /\ x.router = d.router
    BY <1>1, <2>1, PutFacts
  <2>3. Settle(d, e, new) = x
    BY <1>4 DEF Settle
  <2> HIDE DEF x
  <2>4. RouterPorts(x) = RouterPorts(d)
    BY <2>2 DEF RouterPorts
  <2>5. ASSUME NEW b \in ToSet(d.list)
        PROVE  \E w \in ToSet(x.list) : w.addr = b.addr /\ w.fwd = b.fwd
    BY <1>4, <2>1, <2>2
  <2> QED BY <2>2, <2>3, <2>4, <2>5, NothingToFollow
<1> QED BY <1>2, <1>3, <1>4

-----------------------------------------------------------------------------
(* The loops                                                               *)

LEMMA HasLeast ==
    ASSUME NEW S \in SUBSET Nat, S # {}
    PROVE  \E k \in S : \A j \in S : k <= j
<1>1. PICK k \in S : \A j \in S : ~(<<j, k>> \in OpToRel(<, Nat))
  BY NatLessThanWellFounded, WFMin
<1>2. ASSUME NEW j \in S PROVE k <= j
  <2>1. k \in Nat /\ j \in Nat
    OBVIOUS
  <2>2. j < k => <<j, k>> \in OpToRel(<, Nat)
    BY <2>1 DEF OpToRel
  <2>3. ~(j < k)
    BY <1>1, <2>2, Zenon
  <2> QED BY <2>1, <2>3
<1> QED BY <1>2

\* What holds at 0 and is handed on holds up to n.
LEMMA Upto ==
    ASSUME NEW n \in Nat, NEW T, 0 \in T, \A i \in 1 .. n : i - 1 \in T => i \in T
    PROVE  \A i \in 0 .. n : i \in T
<1> DEFINE Rest == {i \in 0 .. n : i \notin T}
<1> SUFFICES ASSUME Rest # {} PROVE FALSE
  OBVIOUS
<1>1. Rest \in SUBSET Nat
  OBVIOUS
<1>2. PICK i \in Rest : \A j \in Rest : i <= j
  BY <1>1, HasLeast
<1>3. i \in 1 .. n
  OBVIOUS
<1>4. i - 1 \in 0 .. n /\ ~(i <= i - 1)
  BY <1>3
<1>5. i - 1 \in T
  BY <1>2, <1>4
<1> QED BY <1>3, <1>5

\* SettleAll is what the loop that its recursive function describes arrives at.
LEMMA SettleAllSteps ==
    ASSUME NEW d, NEW new, Len(d.list) \in Nat
    PROVE  \E f : /\ f[0] = d
                  /\ \A i \in 1 .. Len(d.list) : f[i] = Settle(f[i - 1], d.list[i], new[i])
                  /\ SettleAll(d, new) = f[Len(d.list)]
<1> DEFINE n == Len(d.list)
           Body(f, i) == IF i = 0 THEN d ELSE Settle(f[i - 1], d.list[i], new[i])
           IsLoop(f, k) == f = [i \in 0 .. k |-> Body(f, i)]
           T == {k \in 0 .. n : \E f : IsLoop(f, k)}
<1>1. 0 \in T
  <2>1. IsLoop([i \in 0 .. 0 |-> d], 0)
    OBVIOUS
  <2>2. \E f : IsLoop(f, 0)
    BY <2>1
  <2>3. 0 \in 0 .. n
    OBVIOUS
  <2> HIDE DEF IsLoop, n
  <2> QED BY <2>2, <2>3
<1>2. ASSUME NEW k \in 1 .. n, k - 1 \in T PROVE k \in T
  <2>1. PICK f : IsLoop(f, k - 1)
    BY <1>2
  <2> DEFINE g == [i \in 0 .. k |-> IF i = k THEN Body(f, k) ELSE f[i]]
  <2>2. ASSUME NEW i \in 0 .. k PROVE g[i] = Body(g, i)
    <3>1. CASE i = 0
      BY <2>1, <3>1
    <3>2. CASE i # 0
      <4>1. i - 1 \in 0 .. k - 1 /\ i - 1 # k /\ i - 1 \in 0 .. k
        BY <3>2
      <4>2. g[i - 1] = f[i - 1]
        BY <4>1
      <4>3. CASE i = k
        BY <3>2, <4>2, <4>3
      <4>4. CASE i # k
        <5>1. i \in 0 .. k - 1
          BY <4>4
        <5>2. f[i] = Body(f, i)
          BY <2>1, <5>1
        <5> QED BY <3>2, <4>2, <4>4, <5>2
      <4> QED BY <4>3, <4>4
    <3> QED BY <3>1, <3>2
  <2> HIDE DEF Body
  <2>3. IsLoop(g, k)
    BY <2>2
  <2>4. k \in 0 .. n
    OBVIOUS
  <2> HIDE DEF IsLoop, n
  <2> QED BY <2>3, <2>4
<1>3. n \in T
  <2> HIDE DEF T
  <2>1. \A k \in 0 .. n : k \in T
    BY <1>1, <1>2, Upto
  <2> QED BY <2>1
<1> DEFINE after == CHOOSE f : IsLoop(f, n)
<1>4. SettleAll(d, new) = after[n]
  BY DEF SettleAll
<1>5. IsLoop(after, n)
  BY <1>3
<1> HIDE DEF after
<1>6. after[0] = d
  BY <1>5
<1>7. \A i \in 1 .. n : after[i] = Settle(after[i - 1], d.list[i], new[i])
  BY <1>5
<1> QED BY <1>4, <1>6, <1>7

LEMMA SettleAllSound ==
    ASSUME NEW d, Sound(d), NEW new \in [DOMAIN d.list -> Entry], routerStatic \subseteq Port,
           \A i \in DOMAIN d.list : new[i].addr = d.list[i].addr /\ HasTimers(new[i])
    PROVE  /\ Sound(SettleAll(d, new))
           /\ ToSet(SettleAll(d, new).list) \subseteq {new[i] : i \in DOMAIN d.list}
           /\ Follows(d, SettleAll(d, new))
<1> DEFINE n == Len(d.list)
           Waits(x, k) == \A i \in k + 1 .. n : d.list[i] \in ToSet(x.list)
           Known(x, k) == \A e \in ToSet(x.list) :
                              \/ \E i \in k + 1 .. n : e = d.list[i]
                              \/ \E i \in 1 .. k : e = new[i]
           Ok(x, k) == Sound(x) /\ Waits(x, k) /\ Known(x, k) /\ Follows(d, x)
<1>1. d \in DataBase /\ Distinct(d)
  BY DEF Sound
<1>2. n \in Nat /\ DOMAIN d.list = 1 .. n /\ \A i \in 1 .. n : d.list[i] \in ToSet(d.list)
  BY <1>1, Fields, ListFacts
<1>3. PICK f : /\ f[0] = d
               /\ \A i \in 1 .. n : f[i] = Settle(f[i - 1], d.list[i], new[i])
               /\ SettleAll(d, new) = f[n]
  BY <1>2, SettleAllSteps
<1> HIDE DEF n
<1>4. Ok(d, 0)
  <2>1. Waits(d, 0)
    BY <1>2
  <2>2. Known(d, 0)
    BY <1>2 DEF ToSet
  <2>3. Follows(d, d)
    BY DEF Follows
  <2> QED BY <2>1, <2>2, <2>3
<1>5. ASSUME NEW k \in 1 .. n, Ok(f[k - 1], k - 1) PROVE Ok(f[k], k)
  <2> DEFINE x == f[k - 1]
             y == f[k]
             e == d.list[k]
             w == new[k]
  <2>1. Sound(x) /\ e \in ToSet(x.list)
    BY <1>2, <1>5
  <2>2. w \in Entry /\ w.addr = e.addr /\ HasTimers(w)
    BY <1>2
  <2>3. y = Settle(x, e, w)
    BY <1>3
  <2> HIDE DEF x, y, e, w
  <2>4. /\ Sound(y)
        /\ \A z \in ToSet(x.list) : z.addr # e.addr => z \in ToSet(y.list)
        /\ \A z \in ToSet(y.list) : z # w => z \in ToSet(x.list) /\ z.addr # e.addr
    <3>1. Sound(Settle(x, e, w))
      BY <2>1, <2>2, SettleSound
    <3>2. \A z \in ToSet(x.list) : z.addr # e.addr => z \in ToSet(Settle(x, e, w).list)
      BY <2>1, <2>2, SettleSound
    <3>3. ASSUME NEW z \in ToSet(Settle(x, e, w).list), z # w
          PROVE  z \in ToSet(x.list) /\ z.addr # e.addr
      BY <2>1, <2>2, <3>3, SettleSound
    <3> QED BY <2>3, <3>1, <3>2, <3>3, Zenon
  <2>5. Waits(y, k)
    <3> SUFFICES ASSUME NEW i \in k + 1 .. n PROVE d.list[i] \in ToSet(y.list)
      OBVIOUS
    <3>1. i \in k - 1 + 1 .. n /\ i \in 1 .. n /\ i # k
      BY <1>2
    <3>2. d.list[i] \in ToSet(x.list)
      BY <1>5, <3>1 DEF x
    <3>3. d.list[i].addr # e.addr
      BY <1>1, <1>2, <3>1 DEF Distinct, e
    <3> QED BY <2>4, <3>2, <3>3
  <2>6. Known(y, k)
    <3> SUFFICES ASSUME NEW z \in ToSet(y.list)
                 PROVE  \/ \E i \in k + 1 .. n : z = d.list[i]
                        \/ \E i \in 1 .. k : z = new[i]
      OBVIOUS
    <3>1. CASE z = w
      BY <1>2, <3>1 DEF w
    <3>2. CASE z # w
      <4>1. z \in ToSet(x.list) /\ z.addr # e.addr
        BY <2>4, <3>2
      <4>2. CASE \E i \in k - 1 + 1 .. n : z = d.list[i]
        <5>1. PICK i \in k - 1 + 1 .. n : z = d.list[i]
          BY <4>2
        <5>2. i # k
          BY <4>1, <5>1 DEF e
        <5>3. i \in k + 1 .. n
          BY <1>2, <5>2
        <5> QED BY <5>1, <5>3
      <4>3. CASE \E i \in 1 .. k - 1 : z = new[i]
        BY <1>2, <4>3
      <4> QED BY <1>5, <4>1, <4>2, <4>3 DEF x
    <3> QED BY <3>1, <3>2
  <2>7. Follows(d, y)
    <3>1. Follows(d, x)
      BY <1>5 DEF x
    <3>2. Follows(x, Settle(x, e, w))
      BY <2>1, <2>2, SettleFollows
    <3>3. Follows(x, y)
      BY <2>3, <3>2, Zenon
    <3> QED BY <3>1, <3>3, FollowsAgain
  <2> QED BY <2>4, <2>5, <2>6, <2>7 DEF y
<1> HIDE DEF Ok
<1>6. Ok(f[n], n)
  <2> DEFINE T == {k \in 0 .. n : Ok(f[k], k)}
  <2>1. 0 \in T
    BY <1>2, <1>3, <1>4
  <2>2. ASSUME NEW k \in 1 .. n, k - 1 \in T PROVE k \in T
    <3>1. k \in 0 .. n /\ Ok(f[k - 1], k - 1)
      BY <1>2, <2>2
    <3> QED BY <1>5, <3>1
  <2> HIDE DEF T
  <2>3. \A k \in 0 .. n : k \in T
    BY <1>2, <2>1, <2>2, Upto
  <2>4. n \in T
    BY <1>2, <2>3
  <2> QED BY <2>4 DEF T
<1>7. ToSet(f[n].list) \subseteq {new[i] : i \in 1 .. n}
  <2>1. \A i \in n + 1 .. n : FALSE
    BY <1>2
  <2> QED BY <1>6, <2>1 DEF Ok
<1> QED BY <1>2, <1>3, <1>6, <1>7 DEF Ok

-----------------------------------------------------------------------------
(* Ports that join and leave                                               *)

LEMMA NewGroupSound ==
    ASSUME NEW d, Sound(d), NEW g \in Group, ~Listed(d, g), d.free # <<>>
    PROVE  /\ SoundBut(NewGroup(d, g), g)
           /\ Listed(NewGroup(d, g), g)
           /\ Get(NewGroup(d, g), g).fwd = {}
           /\ \A x \in ToSet(NewGroup(d, g).list) : x \in ToSet(d.list) \/ x.fwd = {}
           /\ Follows(d, NewGroup(d, g))
<1> DEFINE e == [addr |-> g, fwd |-> {}, timer |-> Head(d.free)]
           l == Append(d.list, e)
           f == Tail(d.free)
           r == [list |-> l, free |-> f, router |-> d.router, chip |-> d.chip]
           n == Len(d.list)
<1>1. d \in DataBase /\ Distinct(d)
  BY DEF Sound
<1>2. /\ d.list \in Seq(Entry) /\ d.free \in Seq(Timers)
      /\ n \in Nat /\ DOMAIN d.list = 1 .. n /\ Len(d.free) \in Nat
  BY <1>1, Fields, Entries, ListFacts
<1>3. Head(d.free) \in Timers /\ f \in Seq(Timers) /\ Len(f) = Len(d.free) - 1
  BY <1>2, HeadTailProperties
<1>4. e \in Entry /\ e.addr = g /\ e.fwd = {}
  BY <1>3 DEF Entry
<1>5. NewGroup(d, g) = r
  <2>1. d = [list |-> d.list, free |-> d.free, router |-> d.router, chip |-> d.chip]
    BY <1>1 DEF DataBase
  <2>2. NewGroup(d, g) = [d EXCEPT !.list = l, !.free = f]
    BY DEF NewGroup
  <2> HIDE DEF l, f
  <2> QED BY <2>1, <2>2
<1> HIDE DEF e, f
<1>6. /\ l \in Seq(Entry) /\ Len(l) = n + 1
      /\ \A i \in 1 .. n : l[i] = d.list[i]
      /\ l[n + 1] = e
  BY <1>2, <1>4, AppendProperties
<1>7. DOMAIN l = 1 .. n + 1
  BY <1>6, LenProperties
<1> HIDE DEF l, n
<1>8. r \in DataBase
  BY <1>1, <1>3, <1>6, Fields, FieldsChange
<1>9. \A i \in 1 .. n : d.list[i].addr # g
  BY <1>2 DEF Listed
<1>10. Distinct(r)
  <2> SUFFICES ASSUME NEW i \in 1 .. n + 1, NEW j \in 1 .. n + 1, l[i].addr = l[j].addr
               PROVE  i = j
    BY <1>7 DEF Distinct
  <2>1. CASE i = n + 1
    BY <1>2, <1>4, <1>6, <1>9, <2>1
  <2>2. CASE j = n + 1
    BY <1>2, <1>4, <1>6, <1>9, <2>2
  <2>3. CASE i # n + 1 /\ j # n + 1
    <3>1. i \in 1 .. n /\ j \in 1 .. n
      BY <1>2, <2>3
    <3> QED BY <1>1, <1>2, <1>6, <3>1 DEF Distinct
  <2> QED BY <2>1, <2>2, <2>3
<1>11. ToSet(l) = ToSet(d.list) \cup {e}
  <2>1. 1 .. n + 1 = (1 .. n) \cup {n + 1}
    BY <1>2
  <2> QED BY <1>2, <1>6, <1>7, <2>1 DEF ToSet
<1>12. Listed(r, g) /\ Get(r, g).fwd = {}
  <2>1. Listed(r, g)
    BY <1>4, <1>11, ListedIsInList
  <2>2. e = Get(r, g)
    BY <1>4, <1>8, <1>10, <1>11, <2>1, Lookup
  <2> QED BY <1>4, <2>1, <2>2
<1>13. Len(l) + Len(f) = MAX_GROUP_SIZE
  <2>1. n + Len(d.free) = MAX_GROUP_SIZE
    BY DEF Sound, n
  <2>2. \A a, b \in Nat : (a + 1) + (b - 1) = a + b
    OBVIOUS
  <2> QED BY <1>2, <1>3, <1>6, <2>1, <2>2, Zenon
<1>14. SoundBut(r, g)
  <2>1. \A x \in ToSet(l) : x.addr # g => x \in ToSet(d.list)
    BY <1>4, <1>11
  <2> QED BY <1>8, <1>10, <1>11, <1>13, <2>1 DEF Sound, SoundBut
<1>15. \A x \in ToSet(r.list) : x \in ToSet(d.list) \/ x.fwd = {}
  BY <1>4, <1>11
<1>16. Follows(d, r)
  <2>1. RouterPorts(r) = RouterPorts(d)
    BY DEF RouterPorts
  <2>2. r.chip = d.chip /\ \A x \in ToSet(d.list) : x \in ToSet(r.list)
    BY <1>11
  <2> HIDE DEF r
  <2> QED BY <2>1, <2>2, NothingToFollow
<1> QED BY <1>5, <1>12, <1>14, <1>15, <1>16

LEMMA JoinsSound ==
    ASSUME NEW d, NEW g \in Group, NEW p \in Port, SoundBut(d, g), Listed(d, g),
           HasTimers(Get(d, g)), routerStatic \subseteq Port, trunk \subseteq Port
    PROVE  /\ Sound(Joins(d, g, p)) /\ Concerns(d, Joins(d, g, p), g, TrunkUp(p) \cup {p})
           /\ Follows(d, Joins(d, g, p))
<1> DEFINE e == Get(d, g)
           new == TrunkUp(p) \cup {p}
           t == [q \in Port |-> IF q \in new THEN IGMP_GROUP_MEM_INTERVAL ELSE e.timer[q]]
           e2 == [e EXCEPT !.fwd = e.fwd \cup new, !.timer = t]
<1>1. d \in DataBase /\ Distinct(d)
  BY DEF SoundBut
<1>2. e \in Entry /\ e.addr = g
  BY <1>1, Lookup
<1>3. new \subseteq Port /\ p \in new
  BY DEF TrunkUp
<1>4. Joins(d, g, p) = ToChip(Put(d, e2), g)
  BY DEF Joins
<1> HIDE DEF new, e
<1>5. IGMP_GROUP_MEM_INTERVAL \in 0 .. IGMP_GROUP_MEM_INTERVAL /\ IGMP_GROUP_MEM_INTERVAL # 0
  BY Sizes
<1>6. t \in Timers /\ \A q \in Port :
          t[q] = IF q \in new THEN IGMP_GROUP_MEM_INTERVAL ELSE e.timer[q]
  BY <1>2, <1>5 DEF Entry, Timers
<1> HIDE DEF t
<1>7. e2 \in Entry /\ e2.addr = g /\ e2.fwd = e.fwd \cup new /\ e2.timer = t
  BY <1>2, <1>3, <1>6 DEF Entry
<1> HIDE DEF e2
<1>8. HasTimers(e2)
  BY <1>2, <1>3, <1>5, <1>6, <1>7 DEF HasTimers, Entry, e
<1>9. /\ Sound(ToChip(Put(d, e2), g))
      /\ ToSet(ToChip(Put(d, e2), g).list) = {x \in ToSet(d.list) : x.addr # g} \cup {e2}
  <2>1. SoundBut(d, e2.addr) /\ Listed(d, e2.addr) /\ e2.fwd # {}
    BY <1>3, <1>7
  <2>2. /\ Sound(ToChip(Put(d, e2), e2.addr))
        /\ ToSet(ToChip(Put(d, e2), e2.addr).list) =
               {x \in ToSet(d.list) : x.addr # e2.addr} \cup {e2}
    BY <1>7, <1>8, <2>1, WriteSound
  <2> QED BY <1>7, <2>2
<1>10. e2.fwd \ new \subseteq e.fwd /\ \A q \in Port \ new : e2.timer[q] = e.timer[q]
  BY <1>6, <1>7
<1>11. Concerns(d, ToChip(Put(d, e2), g), g, new)
  BY <1>7, <1>9, <1>10 DEF Concerns, e
<1>12. Follows(d, ToChip(Put(d, e2), g))
  <2>1. Follows(d, ToChip(Put(d, e2), e2.addr))
    BY <1>7, WriteFollows
  <2> QED BY <1>7, <2>1
<1> QED BY <1>4, <1>9, <1>11, <1>12 DEF new

LEMMA AddMemberSound ==
    ASSUME NEW d, NEW g \in Group, NEW p \in Port, Sound(d),
           routerStatic \subseteq Port, trunk \subseteq Port
    PROVE  Sound(AddMember(d, g, p)) /\ Follows(d, AddMember(d, g, p))
<1>1. CASE Listed(d, g)
  <2>1. HasTimers(Get(d, g))
    BY <1>1, Lookup DEF Sound
  <2> QED BY <1>1, <2>1, SoundIsSoundBut, JoinsSound DEF AddMember
<1>2. CASE ~Listed(d, g) /\ d.free # <<>>
  <2>1. SoundBut(NewGroup(d, g), g) /\ Listed(NewGroup(d, g), g)
    BY <1>2, NewGroupSound
  <2>2. HasTimers(Get(NewGroup(d, g), g))
    BY <1>2, NewGroupSound DEF HasTimers
  <2>3. AddMember(d, g, p) = Joins(NewGroup(d, g), g, p)
    BY <1>2 DEF AddMember
  <2>4. Sound(Joins(NewGroup(d, g), g, p)) /\ Follows(NewGroup(d, g), Joins(NewGroup(d, g), g, p))
    BY <2>1, <2>2, JoinsSound
  <2>5. Follows(d, NewGroup(d, g))
    BY <1>2, NewGroupSound
  <2>6. Follows(d, Joins(NewGroup(d, g), g, p))
    BY <2>4, <2>5, FollowsAgain
  <2> QED BY <2>3, <2>4, <2>6
<1>3. CASE ~Listed(d, g) /\ d.free = <<>>
  BY <1>3 DEF AddMember, Follows
<1> QED BY <1>1, <1>2, <1>3

LEMMA DelMemberSound ==
    ASSUME NEW d, NEW g \in Group, NEW p \in Port, Sound(d), routerStatic \subseteq Port
    PROVE  /\ Sound(DelMember(d, g, p)) /\ Concerns(d, DelMember(d, g, p), g, {p})
           /\ Follows(d, DelMember(d, g, p))
<1>1. CASE ~Listed(d, g)
  BY <1>1 DEF DelMember, Concerns, Follows
<1>2. CASE Listed(d, g)
  <2> DEFINE e == Get(d, g)
             t == [e.timer EXCEPT ![p] = 0]
             e2 == [e EXCEPT !.fwd = e.fwd \ {p}, !.timer = t]
  <2>1. e \in Entry /\ e.addr = g /\ HasTimers(e)
    BY <1>2, Lookup DEF Sound
  <2>2. DelMember(d, g, p) =
            IF e2.fwd = {} THEN DelGroup(Put(d, e2), g) ELSE ToChip(Put(d, e2), g)
    BY <1>2 DEF DelMember
  <2> HIDE DEF e
  <2>8. t \in Timers /\ \A q \in Port : q # p => t[q] = e.timer[q]
    BY <2>1, Sizes DEF Entry, Timers
  <2> HIDE DEF t
  <2>3. /\ e2 \in Entry /\ e2.addr = g /\ e2.fwd = e.fwd \ {p}
        /\ \A q \in Port : q # p => e2.timer[q] = e.timer[q]
    BY <2>1, <2>8 DEF Entry
  <2> HIDE DEF e2
  <2>4. HasTimers(e2)
    BY <2>1, <2>3 DEF HasTimers, Entry
  <2>5. SoundBut(d, e2.addr) /\ Listed(d, e2.addr)
    BY <1>2, <2>3, SoundIsSoundBut
  <2>6. CASE e2.fwd = {}
    <3>1. DelMember(d, g, p) = DelGroup(Put(d, e2), e2.addr)
      BY <2>2, <2>3, <2>6
    <3>2. /\ Sound(DelMember(d, g, p))
          /\ ToSet(DelMember(d, g, p).list) = {x \in ToSet(d.list) : x.addr # e2.addr}
      BY <2>3, <2>5, <3>1, DropSound
    <3>3. Follows(d, DelMember(d, g, p))
      BY <2>3, <2>5, <3>1, DropFollows
    <3> QED BY <3>2, <3>3 DEF Concerns
  <2>7. CASE e2.fwd # {}
    <3>1. DelMember(d, g, p) = ToChip(Put(d, e2), e2.addr)
      BY <2>2, <2>3, <2>7
    <3>2. /\ Sound(DelMember(d, g, p))
          /\ ToSet(DelMember(d, g, p).list) =
                 {x \in ToSet(d.list) : x.addr # e2.addr} \cup {e2}
      BY <2>3, <2>4, <2>5, <2>7, <3>1, WriteSound
    <3>3. e2.fwd \ {p} \subseteq e.fwd /\ \A q \in Port \ {p} : e2.timer[q] = e.timer[q]
      BY <2>3
    <3>4. Follows(d, DelMember(d, g, p))
      BY <2>3, <2>5, <3>1, WriteFollows
    <3> QED BY <2>3, <3>2, <3>3, <3>4 DEF Concerns, e
  <2> QED BY <2>6, <2>7
<1> QED BY <1>1, <1>2

-----------------------------------------------------------------------------
(* Time, and links                                                         *)

LEMMA AgedSound ==
    ASSUME NEW e \in Entry, HasTimers(e)
    PROVE  Aged(e) \in Entry /\ HasTimers(Aged(e)) /\ NoMore(Aged(e), e)
<1> DEFINE t == [p \in Port |-> IF e.timer[p] = 0 THEN 0 ELSE e.timer[p] - 1]
           w == {p \in e.fwd : e.timer[p] # 1}
<1>1. e.timer \in Timers /\ e.fwd \subseteq Port
  BY DEF Entry
<1>2. \A p \in Port : e.timer[p] \in 0 .. IGMP_GROUP_MEM_INTERVAL
  BY <1>1 DEF Timers
<1>3. t \in Timers
  <2>1. ASSUME NEW p \in Port PROVE t[p] \in 0 .. IGMP_GROUP_MEM_INTERVAL
    BY <1>2, Sizes
  <2> QED BY <2>1 DEF Timers
<1>4. \A p \in w : t[p] # 0
  BY <1>1, <1>2, Sizes DEF HasTimers
<1>5. Aged(e) = [e EXCEPT !.fwd = w, !.timer = t]
  BY DEF Aged
<1> HIDE DEF t
<1>6. Aged(e) \in Entry /\ Aged(e).addr = e.addr /\ Aged(e).fwd = w /\ Aged(e).timer = t
  BY <1>1, <1>3, <1>5 DEF Entry
<1>7. \A p \in Port : t[p] <= e.timer[p]
  BY <1>2, Sizes DEF t
<1> QED BY <1>4, <1>6, <1>7 DEF HasTimers, NoMore

LEMMA LosePortsSound ==
    ASSUME NEW e \in Entry, HasTimers(e), NEW down
    PROVE  /\ LosePorts(e, down) \in Entry /\ HasTimers(LosePorts(e, down))
           /\ NoMore(LosePorts(e, down), e)
<1> DEFINE t == [p \in Port |-> IF p \in down \cap e.fwd \/ e.fwd \subseteq down
                               THEN 0 ELSE e.timer[p]]
           w == e.fwd \ down
<1>1. e.timer \in Timers /\ e.fwd \subseteq Port
  BY DEF Entry
<1>2. t \in Timers
  BY <1>1, Sizes DEF Timers
<1>3. \A p \in w : t[p] # 0
  BY <1>1 DEF HasTimers
<1>4. LosePorts(e, down) = [e EXCEPT !.fwd = w, !.timer = t]
  BY DEF LosePorts
<1> HIDE DEF t
<1>5. /\ LosePorts(e, down) \in Entry /\ LosePorts(e, down).addr = e.addr
      /\ LosePorts(e, down).fwd = w /\ LosePorts(e, down).timer = t
  BY <1>1, <1>2, <1>4 DEF Entry
<1>6. \A p \in Port : t[p] <= e.timer[p]
  BY <1>1, Sizes DEF t, Timers
<1> QED BY <1>3, <1>5, <1>6 DEF HasTimers, NoMore

\* The timers of the routers have no part in what is sound.
LEMMA RouterChangeSound ==
    ASSUME NEW d, Sound(d), NEW r \in [Port -> 0 .. V1_ROUTER_PRESENT_TIME]
    PROVE  /\ Sound([d EXCEPT !.router = r])
           /\ [d EXCEPT !.router = r].list = d.list
           /\ [d EXCEPT !.router = r].chip = d.chip
           /\ (\A p \in Port : r[p] # 0 => d.router[p] # 0) => Follows(d, [d EXCEPT !.router = r])
<1> DEFINE x == [d EXCEPT !.router = r]
<1>1. /\ x.list = d.list /\ x.free = d.free /\ x.chip = d.chip /\ x.router = r
      /\ x \in DataBase
  BY Fields DEF Sound, DataBase
<1> HIDE DEF x
<1>2. Distinct(x)
  BY <1>1 DEF Sound, Distinct
<1>3. ASSUME \A p \in Port : r[p] # 0 => d.router[p] # 0
      PROVE  Follows(d, x)
  <2>1. RouterPorts(x) \subseteq RouterPorts(d)
    BY <1>1, <1>3 DEF RouterPorts
  <2> QED BY <1>1, <2>1, NothingToFollow
<1> QED BY <1>1, <1>2, <1>3 DEF Sound, x

LEMMA RejoinSound ==
    ASSUME NEW d, Sound(d), NEW g \in Group, Listed(d, g), NEW p \in Port,
           routerStatic \subseteq Port, trunk \subseteq Port
    PROVE  /\ Sound(Rejoin(d, g, p)) /\ Listed(Rejoin(d, g, p), g)
           /\ Concerns(d, Rejoin(d, g, p), g, {p}) /\ Follows(d, Rejoin(d, g, p))
<1> DEFINE e == Get(d, g)
           others == (TrunkUp(p) \cap e.fwd) \ {p}
           first == CHOOSE k \in others : \A k2 \in others : k <= k2
           v == IF others = {} THEN e.timer[p] ELSE e.timer[first]
           t == [e.timer EXCEPT ![p] = v]
           e2 == [e EXCEPT !.fwd = e.fwd \cup {p}, !.timer = t]
<1>1. CASE TrunkUp(p) \cap e.fwd = {}
  BY <1>1 DEF Rejoin, Concerns, Follows
<1>2. CASE TrunkUp(p) \cap e.fwd # {}
  <2>1. e \in Entry /\ e.addr = g /\ HasTimers(e)
    BY Lookup DEF Sound
  <2>2. e.timer \in Timers /\ e.fwd \subseteq Port
    BY <2>1 DEF Entry
  <2>3. Rejoin(d, g, p) = ToChip(Put(d, e2), g)
    BY <1>2 DEF Rejoin
  <2> HIDE DEF e
  <2>4. others # {} => first \in others
    <3> SUFFICES ASSUME others # {} PROVE \E k \in others : \A k2 \in others : k <= k2
      OBVIOUS
    <3>1. others \subseteq Nat
      BY <2>2, Sizes
    <3> HIDE DEF others
    <3> QED BY <3>1, HasLeast
  <2> HIDE DEF first
  <2>5. v \in 0 .. IGMP_GROUP_MEM_INTERVAL /\ v # 0
    <3>1. CASE others = {}
      <4>1. p \in e.fwd
        BY <1>2, <3>1
      <4> QED BY <2>1, <2>2, <3>1, <4>1 DEF HasTimers, Timers
    <3>2. CASE others # {}
      <4>1. first \in e.fwd
        BY <2>4, <3>2
      <4> QED BY <2>1, <2>2, <3>2, <4>1 DEF HasTimers, Timers
    <3> QED BY <3>1, <3>2
  <2> HIDE DEF v
  <2>6. t \in Timers /\ \A q \in Port : t[q] = IF q = p THEN v ELSE e.timer[q]
    BY <2>2, <2>5 DEF Timers
  <2> HIDE DEF t
  <2>7. e2 \in Entry /\ e2.addr = g /\ e2.fwd = e.fwd \cup {p} /\ e2.timer = t
    BY <2>1, <2>2, <2>6 DEF Entry
  <2> HIDE DEF e2
  <2>8. HasTimers(e2)
    BY <2>1, <2>2, <2>5, <2>6, <2>7 DEF HasTimers
  <2>9. SoundBut(d, e2.addr)
    BY SoundIsSoundBut
  <2>10. /\ Sound(ToChip(Put(d, e2), g))
         /\ ToSet(ToChip(Put(d, e2), g).list) = {x \in ToSet(d.list) : x.addr # g} \cup {e2}
    BY <2>7, <2>8, <2>9, WriteSound
  <2>11. e2.fwd \ {p} \subseteq e.fwd /\ \A q \in Port \ {p} : e2.timer[q] = e.timer[q]
    BY <2>2, <2>6, <2>7
  <2>12. Concerns(d, ToChip(Put(d, e2), g), g, {p})
    BY <2>7, <2>10, <2>11 DEF Concerns, e
  <2>13. Follows(d, ToChip(Put(d, e2), g))
    <3>1. Follows(d, ToChip(Put(d, e2), e2.addr))
      BY <2>7, <2>9, WriteFollows
    <3> QED BY <2>7, <3>1
  <2> QED BY <2>3, <2>7, <2>10, <2>12, <2>13, ListedIsInList
<1> QED BY <1>1, <1>2

LEMMA LinksUpSteps ==
    ASSUME NEW d, NEW up, d.list # <<>>
    PROVE  \E f : /\ f[0] = d
                  /\ \A k \in 1 .. SAL_PORT_ID_CPU :
                         f[k] = IF k - 1 \in up THEN Rejoin(f[k - 1], d.list[1].addr, k - 1)
                                ELSE f[k - 1]
                  /\ LinksUp(d, up) = f[SAL_PORT_ID_CPU]
<1> DEFINE n == SAL_PORT_ID_CPU
           g == d.list[1].addr
           Body(f, k) == IF k = 0 THEN d
                         ELSE IF k - 1 \in up THEN Rejoin(f[k - 1], g, k - 1)
                         ELSE f[k - 1]
           IsLoop(f, j) == f = [k \in 0 .. j |-> Body(f, k)]
           T == {j \in 0 .. n : \E f : IsLoop(f, j)}
<1>0. n \in Nat
  BY Sizes
<1>1. 0 \in T
  <2>1. IsLoop([k \in 0 .. 0 |-> d], 0)
    OBVIOUS
  <2>2. \E f : IsLoop(f, 0)
    BY <2>1
  <2>3. 0 \in 0 .. n
    BY <1>0
  <2> HIDE DEF IsLoop, n
  <2> QED BY <2>2, <2>3
<1>2. ASSUME NEW j \in 1 .. n, j - 1 \in T PROVE j \in T
  <2>1. PICK f : IsLoop(f, j - 1)
    BY <1>2
  <2> DEFINE h == [k \in 0 .. j |-> IF k = j THEN Body(f, j) ELSE f[k]]
  <2>2. ASSUME NEW k \in 0 .. j PROVE h[k] = Body(h, k)
    <3>1. CASE k = 0
      BY <2>1, <3>1
    <3>2. CASE k # 0
      <4>1. k - 1 \in 0 .. j - 1 /\ k - 1 # j /\ k - 1 \in 0 .. j
        BY <3>2
      <4>2. h[k - 1] = f[k - 1]
        BY <4>1
      <4>3. CASE k = j
        BY <3>2, <4>2, <4>3
      <4>4. CASE k # j
        <5>1. k \in 0 .. j - 1
          BY <4>4
        <5>2. f[k] = Body(f, k)
          BY <2>1, <5>1
        <5> QED BY <3>2, <4>2, <4>4, <5>2
      <4> QED BY <4>3, <4>4
    <3> QED BY <3>1, <3>2
  <2> HIDE DEF Body
  <2>3. IsLoop(h, j)
    BY <2>2
  <2>4. j \in 0 .. n
    BY <1>0
  <2> HIDE DEF IsLoop, n
  <2> QED BY <2>3, <2>4
<1>3. n \in T
  <2> HIDE DEF T
  <2>1. \A j \in 0 .. n : j \in T
    BY <1>0, <1>1, <1>2, Upto
  <2> QED BY <1>0, <2>1
<1> DEFINE after == CHOOSE f : IsLoop(f, n)
<1>4. LinksUp(d, up) = after[n]
  BY DEF LinksUp
<1>5. IsLoop(after, n)
  BY <1>3
<1> HIDE DEF after
<1>6. after[0] = d
  BY <1>0, <1>5
<1>7. \A k \in 1 .. n : after[k] = IF k - 1 \in up THEN Rejoin(after[k - 1], g, k - 1)
                                   ELSE after[k - 1]
  BY <1>0, <1>5
<1> QED BY <1>4, <1>6, <1>7

LEMMA FirstIsListed ==
    ASSUME NEW d, Sound(d), d.list # <<>>
    PROVE  d.list[1].addr \in Group /\ Listed(d, d.list[1].addr)
<1>1. d.list \in Seq(Entry) /\ Len(d.list) \in Nat \ {0}
  BY Fields, EmptySeq DEF Sound
<1>2. 1 \in DOMAIN d.list
  BY <1>1, ListFacts
<1>3. d.list[1] \in ToSet(d.list)
  BY <1>2 DEF ToSet
<1> QED BY <1>3, Entries, ListedIsInList DEF Sound

LEMMA LinksUpSound ==
    ASSUME NEW d, Sound(d), NEW up, routerStatic \subseteq Port, trunk \subseteq Port
    PROVE  Sound(LinksUp(d, up)) /\ Follows(d, LinksUp(d, up))
<1>0. Follows(d, d)
  BY DEF Follows
<1>1. CASE d.list = <<>>
  BY <1>0, <1>1 DEF LinksUp
<1>2. CASE d.list # <<>>
  <2> DEFINE n == SAL_PORT_ID_CPU
             g == d.list[1].addr
  <2>1. PICK f : /\ f[0] = d
                 /\ \A k \in 1 .. n :
                        f[k] = IF k - 1 \in up THEN Rejoin(f[k - 1], g, k - 1) ELSE f[k - 1]
                 /\ LinksUp(d, up) = f[n]
    BY <1>2, LinksUpSteps
  <2>2. g \in Group /\ Listed(d, g)
    BY <1>2, FirstIsListed
  <2> DEFINE T == {k \in 0 .. n : Sound(f[k]) /\ Listed(f[k], g) /\ Follows(d, f[k])}
  <2>3. n \in Nat
    BY Sizes
  <2> HIDE DEF n, g
  <2>4. 0 \in T
    BY <1>0, <2>1, <2>2, <2>3
  <2>5. ASSUME NEW k \in 1 .. n, k - 1 \in T PROVE k \in T
    <3>1. k \in 0 .. n /\ k - 1 \in Port
      BY <2>3 DEF Port, n
    <3>2. Sound(f[k - 1]) /\ Listed(f[k - 1], g) /\ Follows(d, f[k - 1])
      BY <2>5
    <3>3. CASE k - 1 \in up
      <4> DEFINE x == f[k - 1]
                 y == Rejoin(x, g, k - 1)
      <4>1. f[k] = y
        BY <2>1, <3>3
      <4>2. Sound(x) /\ Listed(x, g) /\ Follows(d, x)
        BY <3>2
      <4> HIDE DEF x
      <4>3. Sound(y) /\ Listed(y, g) /\ Follows(x, y)
        BY <2>2, <3>1, <4>2, RejoinSound
      <4> HIDE DEF y
      <4>4. Follows(d, y)
        BY <4>2, <4>3, FollowsAgain
      <4> QED BY <3>1, <4>1, <4>3, <4>4
    <3>4. CASE k - 1 \notin up
      BY <2>1, <3>1, <3>2, <3>4
    <3> QED BY <3>3, <3>4
  <2> HIDE DEF T
  <2>6. \A k \in 0 .. n : k \in T
    BY <2>3, <2>4, <2>5, Upto
  <2>7. n \in T
    BY <2>3, <2>6
  <2> QED BY <2>1, <2>7 DEF T
<1> QED BY <1>1, <1>2

LEMMA LinksDownSound ==
    ASSUME NEW d, Sound(d), NEW down, routerStatic \subseteq Port
    PROVE  /\ Sound(LinksDown(d, down))
           /\ \A e \in ToSet(LinksDown(d, down).list) : \E b \in ToSet(d.list) : NoMore(e, b)
           /\ Follows(d, LinksDown(d, down))
<1> DEFINE r == [p \in Port |-> IF p \in down THEN 0 ELSE d.router[p]]
           x == RoutersDown(d, down)
           new == [i \in DOMAIN d.list |-> IF i \in Reached(d, down)
                                           THEN LosePorts(d.list[i], down) ELSE d.list[i]]
<1>1. r \in [Port -> 0 .. V1_ROUTER_PRESENT_TIME]
  BY Fields, Sizes DEF Sound
<1>0. \A p \in Port : r[p] # 0 => d.router[p] # 0
  OBVIOUS
<1>2. x = [d EXCEPT !.router = r]
  BY DEF RoutersDown
<1> HIDE DEF x, r
<1>3. Sound(x) /\ x.list = d.list /\ Follows(d, x)
  BY <1>0, <1>1, <1>2, RouterChangeSound
<1>4. ASSUME NEW i \in DOMAIN d.list
      PROVE  new[i] \in Entry /\ HasTimers(new[i]) /\ NoMore(new[i], d.list[i])
  <2>1. d.list[i] \in Entry /\ HasTimers(d.list[i]) /\ NoMore(d.list[i], d.list[i])
    <3>1. d.list[i] \in Entry /\ HasTimers(d.list[i])
      BY Entries DEF Sound, ToSet
    <3>2. \A p \in Port : d.list[i].timer[p] \in Int
      BY <3>1, Sizes DEF Entry, Timers
    <3>3. NoMore(d.list[i], d.list[i])
      BY <3>2 DEF NoMore
    <3> QED BY <3>1, <3>3
  <2>2. /\ LosePorts(d.list[i], down) \in Entry
        /\ HasTimers(LosePorts(d.list[i], down))
        /\ NoMore(LosePorts(d.list[i], down), d.list[i])
    BY <2>1, LosePortsSound
  <2> QED BY <2>1, <2>2
<1>5. LinksDown(d, down) = SettleAll(x, new)
  BY DEF LinksDown, x
<1>6. new \in [DOMAIN x.list -> Entry]
  BY <1>3, <1>4
<1>7. \A i \in DOMAIN x.list : new[i].addr = x.list[i].addr /\ HasTimers(new[i])
  BY <1>3, <1>4 DEF NoMore
<1> HIDE DEF new
<1>8. Sound(SettleAll(x, new))
  BY <1>3, <1>6, <1>7, SettleAllSound
<1>9. ToSet(SettleAll(x, new).list) \subseteq {new[i] : i \in DOMAIN d.list}
  BY <1>3, <1>6, <1>7, SettleAllSound
<1>10. \A e \in ToSet(SettleAll(x, new).list) : \E b \in ToSet(d.list) : NoMore(e, b)
  BY <1>4, <1>9 DEF ToSet
<1>11. Follows(x, SettleAll(x, new))
  BY <1>3, <1>6, <1>7, SettleAllSound
<1>12. Follows(d, SettleAll(x, new))
  BY <1>3, <1>11, FollowsAgain
<1> QED BY <1>5, <1>8, <1>10, <1>12

LEMMA TimerSound ==
    ASSUME NEW d, Sound(d), routerStatic \subseteq Port
    PROVE  LET x == SettleAll(RoutersExpire(d), [i \in DOMAIN d.list |-> Aged(d.list[i])])
           IN  /\ Sound(x) /\ Follows(d, x)
               /\ \A e \in ToSet(x.list) : \E b \in ToSet(d.list) : NoMore(e, b)
<1> DEFINE r == [p \in Port |-> IF d.router[p] = 0 THEN 0 ELSE d.router[p] - 1]
           x == RoutersExpire(d)
           new == [i \in DOMAIN d.list |-> Aged(d.list[i])]
<1>1. r \in [Port -> 0 .. V1_ROUTER_PRESENT_TIME]
  <2>1. \A p \in Port : d.router[p] \in 0 .. V1_ROUTER_PRESENT_TIME
    BY Fields DEF Sound
  <2>2. \A p \in Port : r[p] \in 0 .. V1_ROUTER_PRESENT_TIME
    BY <2>1, Sizes
  <2> QED BY <2>2
<1>0. \A p \in Port : r[p] # 0 => d.router[p] # 0
  OBVIOUS
<1>2. x = [d EXCEPT !.router = r]
  BY DEF RoutersExpire
<1> HIDE DEF x, r
<1>3. Sound(x) /\ x.list = d.list /\ Follows(d, x)
  BY <1>0, <1>1, <1>2, RouterChangeSound
<1>4. ASSUME NEW i \in DOMAIN d.list
      PROVE  new[i] \in Entry /\ HasTimers(new[i]) /\ NoMore(new[i], d.list[i])
  <2>1. d.list[i] \in Entry /\ HasTimers(d.list[i])
    BY Entries DEF Sound, ToSet
  <2> QED BY <2>1, AgedSound
<1>6. new \in [DOMAIN x.list -> Entry]
  BY <1>3, <1>4
<1>7. \A i \in DOMAIN x.list : new[i].addr = x.list[i].addr /\ HasTimers(new[i])
  BY <1>3, <1>4 DEF NoMore
<1>8. SettleAll(RoutersExpire(d), [i \in DOMAIN d.list |-> Aged(d.list[i])]) = SettleAll(x, new)
  BY DEF x
<1> HIDE DEF new
<1>9. Sound(SettleAll(x, new))
  BY <1>3, <1>6, <1>7, SettleAllSound
<1>10. ToSet(SettleAll(x, new).list) \subseteq {new[i] : i \in DOMAIN d.list}
  BY <1>3, <1>6, <1>7, SettleAllSound
<1>11. \A e \in ToSet(SettleAll(x, new).list) : \E b \in ToSet(d.list) : NoMore(e, b)
  BY <1>4, <1>10 DEF ToSet
<1>12. Follows(x, SettleAll(x, new))
  BY <1>3, <1>6, <1>7, SettleAllSound
<1>13. Follows(d, SettleAll(x, new))
  BY <1>3, <1>12, FollowsAgain
<1> QED BY <1>8, <1>9, <1>11, <1>13

\* When snooping is turned off every entry goes back, and with the last the
\* last entry of the chip.
LEMMA DisableSound ==
    ASSUME NEW d, Sound(d), routerStatic \subseteq Port,
           NEW gone, gone = SettleAll(d, [i \in DOMAIN d.list |-> [d.list[i] EXCEPT !.fwd = {}]]),
           NEW pool \in Bijection(DOMAIN gone.free, DOMAIN gone.free), NEW x,
           x = [gone EXCEPT !.router = NoTimers,
                            !.free = [i \in DOMAIN gone.free |-> gone.free[pool[i]]]]
    PROVE  Sound(x) /\ x.list = <<>>
<1> DEFINE new == [i \in DOMAIN d.list |-> [d.list[i] EXCEPT !.fwd = {}]]
           f == [i \in DOMAIN gone.free |-> gone.free[pool[i]]]
<1>1. ASSUME NEW i \in DOMAIN d.list
      PROVE  /\ new[i] \in Entry /\ new[i].addr = d.list[i].addr
             /\ new[i].fwd = {} /\ HasTimers(new[i])
  <2>1. d.list[i] \in Entry
    BY Entries DEF Sound, ToSet
  <2> QED BY <2>1 DEF Entry, HasTimers
<1>2. new \in [DOMAIN d.list -> Entry]
  BY <1>1
<1>3. Sound(gone) /\ ToSet(gone.list) \subseteq {new[i] : i \in DOMAIN d.list}
  <2>1. gone = SettleAll(d, new)
    OBVIOUS
  <2>2. \A i \in DOMAIN d.list : new[i].addr = d.list[i].addr /\ HasTimers(new[i])
    BY <1>1
  <2> HIDE DEF new
  <2>3. Sound(SettleAll(d, new))
    BY <1>2, <2>2, SettleAllSound
  <2>4. ToSet(SettleAll(d, new).list) \subseteq {new[i] : i \in DOMAIN d.list}
    BY <1>2, <2>2, SettleAllSound
  <2> QED BY <2>1, <2>3, <2>4, Zenon
<1> HIDE DEF new
<1>4. ToSet(gone.list) = {}
  <2> SUFFICES ASSUME NEW e \in ToSet(gone.list) PROVE FALSE
    OBVIOUS
  <2>1. PICK i \in DOMAIN d.list : e = new[i]
    BY <1>3
  <2>2. e.fwd = {}
    BY <1>1, <2>1
  <2> QED BY <1>3, <2>2 DEF Sound
<1>5. gone.list = <<>>
  <2>1. gone.list \in Seq(Entry) /\ DOMAIN gone.list = 1 .. Len(gone.list) /\ Len(gone.list) \in Nat
    BY <1>3, Fields, ListFacts DEF Sound
  <2>2. DOMAIN gone.list = {}
    BY <1>4 DEF ToSet
  <2>4. \A n \in Nat : 1 .. n = {} => n = 0
    OBVIOUS
  <2>3. Len(gone.list) = 0
    BY <2>1, <2>2, <2>4, Zenon
  <2> QED BY <2>1, <2>3, EmptySeq
<1>6. f \in Seq(Timers) /\ Len(f) = Len(gone.free)
  <2>1. gone.free \in Seq(Timers) /\ DOMAIN gone.free = 1 .. Len(gone.free) /\ Len(gone.free) \in Nat
    BY <1>3, Fields, ListFacts DEF Sound
  <2>2. \A i \in DOMAIN gone.free : pool[i] \in DOMAIN gone.free
    BY DEF Bijection, Injection, Surjection, IsInjective
  <2>3. \A i \in DOMAIN gone.free : f[i] \in Timers
    BY <2>1, <2>2, ListFacts
  <2>4. f \in [1 .. Len(gone.free) -> Timers]
    BY <2>1, <2>3
  <2> HIDE DEF f
  <2> QED BY <2>1, <2>4, FunctionIsList
<1> HIDE DEF f
<1>7. NoTimers \in [Port -> 0 .. V1_ROUTER_PRESENT_TIME]
  BY Sizes DEF NoTimers
<1>8. /\ x.list = gone.list /\ x.free = f /\ x.chip = gone.chip
      /\ x \in DataBase
  BY <1>3, <1>6, <1>7, Fields DEF Sound, DataBase, f
<1>9. Distinct(x)
  BY <1>3, <1>8 DEF Sound, Distinct
<1> QED BY <1>3, <1>5, <1>6, <1>8, <1>9 DEF Sound

-----------------------------------------------------------------------------
(* The invariant                                                           *)

\* The inductive invariant
DInv == TypeOK /\ Sound(db) /\ (enabled \/ db.list = <<>>)

LEMMA DbInit == Init => DInv
<1> SUFFICES ASSUME Init PROVE DInv
  OBVIOUS
<1> DEFINE f == [i \in 1 .. MAX_GROUP_SIZE |-> NoTimers]
<1>1. NoTimers \in Timers /\ NoTimers \in [Port -> 0 .. V1_ROUTER_PRESENT_TIME]
  BY Sizes DEF NoTimers, Timers
<1>2. f \in Seq(Timers) /\ Len(f) = MAX_GROUP_SIZE
  BY <1>1, Sizes
<1>3. <<>> \in Seq(Entry) /\ Len(<<>>) = 0 /\ DOMAIN <<>> = {}
  BY EmptySeq
<1> HIDE DEF f
<1>4. /\ db.list = <<>> /\ db.free = f /\ db.chip = [m \in Mac |-> {}]
      /\ db \in DataBase
  BY <1>1, <1>2, <1>3 DEF Init, DataBase, f
<1>5. ToSet(db.list) = {}
  BY <1>3, <1>4 DEF ToSet
<1>6. Sound(db)
  BY <1>2, <1>3, <1>4, <1>5, Sizes DEF Sound, Distinct
<1>7. TypeOK
  BY <1>4, Sizes DEF Init, TypeOK
<1> QED BY <1>4, <1>6, <1>7 DEF DInv

LEMMA DbStep == DInv /\ [Next]_vars => DInv'
<1> SUFFICES ASSUME DInv, [Next]_vars PROVE DInv'
  OBVIOUS
<1> USE DEF DInv
<1>0. routerStatic \subseteq Port /\ trunk \subseteq Port
  BY GroupDbAssumption DEF TypeOK
<1>1. ASSUME Sound(db'), UNCHANGED <<routerStatic, pass_time, enabled, trunk, link, seen>>,
             late' \subseteq late, enabled
      PROVE  DInv'
  <2>1. Sound(db)'
    BY <1>1 DEF Sound, Distinct
  <2>2. TypeOK'
    BY <1>1 DEF TypeOK, Sound
  <2> QED BY <1>1, <2>1, <2>2
<1>2. ASSUME UNCHANGED db, TypeOK', enabled' = enabled \/ enabled' = TRUE
      PROVE  DInv'
  <2>1. Sound(db)'
    BY <1>2 DEF Sound, Distinct
  <2> QED BY <1>2, <2>1
<1>3. ASSUME NEW g \in Group, NEW p \in Port, Report(g, p) PROVE DInv'
  <2>1. Sound(db')
    BY <1>0, <1>3, AddMemberSound DEF Report
  <2> QED BY <1>1, <1>3, <2>1 DEF Report, Received
<1>4. ASSUME NEW g \in Group, NEW p \in Port, Leave(g, p) PROVE DInv'
  <2>1. Sound(db')
    BY <1>0, <1>4, DelMemberSound DEF Leave
  <2> QED BY <1>1, <1>4, <2>1 DEF Leave, Received
<1>5. ASSUME NEW p \in QuerierPort, Query(p) PROVE DInv'
  <2> DEFINE r == [db.router EXCEPT ![p] = V1_ROUTER_PRESENT_TIME]
  <2>1. r \in [Port -> 0 .. V1_ROUTER_PRESENT_TIME]
    <3>1. V1_ROUTER_PRESENT_TIME \in 0 .. V1_ROUTER_PRESENT_TIME
      BY Sizes
    <3>2. db.router \in [Port -> 0 .. V1_ROUTER_PRESENT_TIME]
      BY Fields DEF Sound
    <3> QED BY <3>1, <3>2
  <2>2. db' = [db EXCEPT !.router = r]
    BY <1>5 DEF Query
  <2> HIDE DEF r
  <2>3. Sound(db')
    BY <2>1, <2>2, RouterChangeSound
  <2> QED BY <1>1, <1>5, <2>3 DEF Query, Received
<1>6. ASSUME Timer PROVE DInv'
  <2>1. pass_time' \in 0 .. IGMPDB_CHECK_PERIOD - 1
    BY <1>6, Sizes DEF Timer, Tick, TypeOK
  <2>2. CASE enabled /\ pass_time' = 0
    <3>1. Sound(db')
      BY <1>0, <1>6, <2>2, TimerSound DEF Timer
    <3>2. Sound(db)'
      BY <3>1 DEF Sound, Distinct
    <3>3. TypeOK'
      BY <1>6, <2>1, <3>1 DEF Timer, TypeOK, Sound
    <3> QED BY <1>6, <2>2, <3>2, <3>3 DEF Timer
  <2>3. CASE ~(enabled /\ pass_time' = 0)
    <3>1. UNCHANGED <<db, enabled>>
      BY <1>6, <2>3 DEF Timer
    <3>2. TypeOK'
      BY <1>6, <2>1, <3>1 DEF Timer, TypeOK
    <3> QED BY <1>2, <3>1, <3>2
  <2> QED BY <2>2, <2>3
<1>7. ASSUME LinkChange PROVE DInv'
  <2>1. CASE enabled
    <3>1. Sound(LinksUp(db, link \ seen))
      BY <1>0, LinksUpSound
    <3>2. Sound(db')
      BY <1>0, <1>7, <2>1, <3>1, LinksDownSound DEF LinkChange
    <3>3. Sound(db)'
      BY <3>2 DEF Sound, Distinct
    <3>4. TypeOK'
      BY <1>7, <3>2 DEF LinkChange, SeeLinks, TypeOK, Sound
    <3> QED BY <1>7, <2>1, <3>3, <3>4 DEF LinkChange
  <2>2. CASE ~enabled
    <3>1. UNCHANGED <<db, enabled>>
      BY <1>7, <2>2 DEF LinkChange
    <3>2. TypeOK'
      BY <1>7, <3>1 DEF LinkChange, SeeLinks, TypeOK
    <3> QED BY <1>2, <3>1, <3>2
  <2> QED BY <2>1, <2>2
<1>8. ASSUME NEW p \in Port, Plug(p) PROVE DInv'
  <2>1. TypeOK'
    BY <1>8 DEF Plug, TypeOK
  <2> QED BY <1>2, <1>8, <2>1 DEF Plug
<1>9. ASSUME NEW p \in Port, Pull(p) PROVE DInv'
  <2>1. TypeOK'
    BY <1>9 DEF Pull, TypeOK
  <2> QED BY <1>2, <1>9, <2>1 DEF Pull
<1>10. ASSUME Disable PROVE DInv'
  <2> DEFINE gone == SettleAll(db, [i \in DOMAIN db.list |-> [db.list[i] EXCEPT !.fwd = {}]])
  <2>1. PICK pool \in Bijection(DOMAIN gone.free, DOMAIN gone.free) :
            db' = [gone EXCEPT !.router = NoTimers,
                               !.free = [i \in DOMAIN gone.free |-> gone.free[pool[i]]]]
    BY <1>10 DEF Disable
  <2>2. Sound(db') /\ db'.list = <<>>
    BY <1>0, <2>1, DisableSound
  <2>3. Sound(db)'
    BY <2>2 DEF Sound, Distinct
  <2>4. TypeOK'
    BY <1>10, <2>2 DEF Disable, TypeOK, Sound
  <2> QED BY <2>2, <2>3, <2>4
<1>11. ASSUME Enable PROVE DInv'
  <2>1. TypeOK'
    BY <1>11 DEF Enable, TypeOK
  <2> QED BY <1>2, <1>11, <2>1 DEF Enable
<1>12. ASSUME SetStaticRouters PROVE DInv'
  <2>1. TypeOK'
    BY <1>12 DEF SetStaticRouters, TypeOK
  <2> QED BY <1>2, <1>12, <2>1 DEF SetStaticRouters
<1>13. ASSUME SetTrunk PROVE DInv'
  <2>1. TypeOK'
    BY <1>13 DEF SetTrunk, TypeOK
  <2> QED BY <1>2, <1>13, <2>1 DEF SetTrunk
<1>14. ASSUME UNCHANGED vars PROVE DInv'
  <2>1. TypeOK'
    BY <1>14 DEF vars, TypeOK
  <2> QED BY <1>2, <1>14, <2>1 DEF vars
<1>15. CASE Next
  BY <1>3, <1>4, <1>5, <1>6, <1>7, <1>8, <1>9, <1>10, <1>11, <1>12, <1>13, <1>15, GroupDbAssumption DEF Next
<1> QED BY <1>14, <1>15

\* The data base is sound between any two steps, and empty while snooping is off.
THEOREM DbInvariant == Spec => []DInv
BY DbInit, DbStep, PTL DEF Spec

\* No timer runs below zero or above its interval, whatever expires, joins and
\* leaves: igmpdb_timer and the copying of timers between the ports of a trunk.
THEOREM DbTypeCorrect == Spec => []TypeOK
<1>1. DInv => TypeOK
  BY DEF DInv
<1> QED BY <1>1, DbInvariant, PTL

\* Every entry is in the list or in the pool, those in the list are for different
\* groups with members, and every member has a timer: igmpdb_get_empty_entry,
\* igmp_group_del_group and all that call them.
THEOREM PoolIsKeptHolds == Spec => []PoolIsKept
<1>1. DInv => PoolIsKept
  BY DEF DInv, Sound, Distinct, HasTimers, PoolIsKept
<1> QED BY <1>1, DbInvariant, PTL

\* The chip forwards every listed group with an address of its own to its members,
\* and nothing to an address of which no group is left, although the loops over
\* the groups miss some: sal_igmp_ipAddrEntry_add and _del follow the list.
THEOREM ChipAgreesHolds == Spec => []ChipAgrees
<1>1. DInv => ChipAgrees
  BY DEF DInv, Sound, ChipAgrees
<1> QED BY <1>1, DbInvariant, PTL

-----------------------------------------------------------------------------
(* What a port without a link loses                                        *)

\* Of port p's memberships, d2 has no more and none for longer than d.
Loses(d, d2, p) ==
    \A e \in ToSet(d2.list) : p \in e.fwd =>
        \E b \in ToSet(d.list) : b.addr = e.addr /\ p \in b.fwd /\ e.timer[p] <= b.timer[p]

LEMMA TimesAreNumbers ==
    ASSUME NEW d, Sound(d), NEW e \in ToSet(d.list), NEW p \in Port
    PROVE  e.timer[p] \in Int
<1>1. e \in Entry
  BY Entries DEF Sound
<1>2. e.timer[p] \in 0 .. IGMP_GROUP_MEM_INTERVAL
  BY <1>1 DEF Entry, Timers
<1> QED BY <1>2, Sizes

LEMMA LosesNothing ==
    ASSUME NEW d, Sound(d), NEW d2, d2.list = d.list, NEW p \in Port
    PROVE  Loses(d, d2, p)
<1>1. \A e \in ToSet(d.list) : e.timer[p] <= e.timer[p]
  BY TimesAreNumbers
<1> QED BY <1>1 DEF Loses

LEMMA LosesAgain ==
    ASSUME NEW d, Sound(d), NEW d2, Sound(d2), NEW d3, Sound(d3), NEW p \in Port,
           Loses(d, d2, p), Loses(d2, d3, p)
    PROVE  Loses(d, d3, p)
<1> SUFFICES ASSUME NEW e \in ToSet(d3.list), p \in e.fwd
             PROVE  \E b \in ToSet(d.list) :
                        b.addr = e.addr /\ p \in b.fwd /\ e.timer[p] <= b.timer[p]
  BY DEF Loses
<1>1. PICK c \in ToSet(d2.list) : c.addr = e.addr /\ p \in c.fwd /\ e.timer[p] <= c.timer[p]
  BY DEF Loses
<1>2. PICK b \in ToSet(d.list) : b.addr = c.addr /\ p \in b.fwd /\ c.timer[p] <= b.timer[p]
  BY <1>1 DEF Loses
<1>3. e.timer[p] \in Int /\ c.timer[p] \in Int /\ b.timer[p] \in Int
  BY TimesAreNumbers
<1>4. e.timer[p] <= b.timer[p]
  BY <1>1, <1>2, <1>3
<1> QED BY <1>1, <1>2, <1>4

\* A change that concerns other ports
LEMMA OthersConcerned ==
    ASSUME NEW d, NEW g \in Group, SoundBut(d, g), Listed(d, g),
           NEW d2, NEW P, Concerns(d, d2, g, P), NEW p \in Port \ P
    PROVE  Loses(d, d2, p)
<1> DEFINE b == Get(d, g)
<1>1. d \in DataBase /\ Distinct(d)
  BY DEF SoundBut
<1>2. b \in ToSet(d.list) /\ b.addr = g
  BY <1>1, Lookup
<1>3. \A e \in ToSet(d.list) : e.timer[p] \in Int
  <2> SUFFICES ASSUME NEW e \in ToSet(d.list) PROVE e.timer[p] \in Int
    OBVIOUS
  <2>1. e \in Entry
    BY <1>1, Entries
  <2>2. e.timer[p] \in 0 .. IGMP_GROUP_MEM_INTERVAL
    BY <2>1 DEF Entry, Timers
  <2> QED BY <2>2, Sizes
<1> SUFFICES ASSUME NEW e \in ToSet(d2.list), p \in e.fwd
             PROVE  \E c \in ToSet(d.list) :
                        c.addr = e.addr /\ p \in c.fwd /\ e.timer[p] <= c.timer[p]
  BY DEF Loses
<1>4. CASE e \in ToSet(d.list)
  BY <1>3, <1>4
<1>5. CASE e \notin ToSet(d.list)
  <2>1. e.addr = g /\ p \in b.fwd /\ e.timer[p] = b.timer[p]
    BY <1>5 DEF Concerns
  <2> HIDE DEF b
  <2> QED BY <1>2, <1>3, <2>1
<1> QED BY <1>4, <1>5

\* A report of another port, whose trunk p is not in or not up in
LEMMA AddMemberLoses ==
    ASSUME NEW d, NEW g \in Group, NEW q \in Port, Sound(d),
           routerStatic \subseteq Port, trunk \subseteq Port,
           NEW p \in Port, p # q, p \notin link
    PROVE  Loses(d, AddMember(d, g, q), p)
<1>1. p \in Port \ (TrunkUp(q) \cup {q})
  BY DEF TrunkUp
<1>2. CASE Listed(d, g)
  <2>1. HasTimers(Get(d, g)) /\ SoundBut(d, g)
    BY <1>2, Lookup, SoundIsSoundBut DEF Sound
  <2>2. Concerns(d, Joins(d, g, q), g, TrunkUp(q) \cup {q})
    BY <1>2, <2>1, JoinsSound
  <2> QED BY <1>1, <1>2, <2>1, <2>2, OthersConcerned DEF AddMember
<1>3. CASE ~Listed(d, g) /\ d.free # <<>>
  <2> DEFINE n == NewGroup(d, g)
             x == Joins(n, g, q)
  <2>1. /\ SoundBut(n, g) /\ Listed(n, g) /\ Get(n, g).fwd = {}
        /\ \A e \in ToSet(n.list) : e \in ToSet(d.list) \/ e.fwd = {}
    BY <1>3, NewGroupSound
  <2>2. AddMember(d, g, q) = x
    BY <1>3 DEF AddMember
  <2> HIDE DEF n
  <2>3. Concerns(n, x, g, TrunkUp(q) \cup {q})
    BY <2>1, JoinsSound DEF HasTimers
  <2> HIDE DEF x
  <2>4. Loses(n, x, p)
    BY <1>1, <2>1, <2>3, OthersConcerned
  <2>5. Loses(d, x, p)
    BY <2>1, <2>4 DEF Loses
  <2> QED BY <2>2, <2>5
<1>4. CASE ~Listed(d, g) /\ d.free = <<>>
  BY <1>4, LosesNothing DEF AddMember
<1> QED BY <1>2, <1>3, <1>4

LEMMA DelMemberLoses ==
    ASSUME NEW d, NEW g \in Group, NEW q \in Port, Sound(d), routerStatic \subseteq Port,
           NEW p \in Port, p # q
    PROVE  Loses(d, DelMember(d, g, q), p)
<1>1. CASE Listed(d, g)
  BY <1>1, SoundIsSoundBut, DelMemberSound, OthersConcerned
<1>2. CASE ~Listed(d, g)
  BY <1>2, LosesNothing DEF DelMember
<1> QED BY <1>1, <1>2

\* Links that come up bring only their own ports into the first group.
LEMMA LinksUpLoses ==
    ASSUME NEW d, Sound(d), NEW up, routerStatic \subseteq Port, trunk \subseteq Port,
           NEW p \in Port, p \notin up
    PROVE  Loses(d, LinksUp(d, up), p)
<1>1. CASE d.list = <<>>
  BY <1>1, LosesNothing DEF LinksUp
<1>2. CASE d.list # <<>>
  <2> DEFINE n == SAL_PORT_ID_CPU
             g == d.list[1].addr
  <2>1. PICK f : /\ f[0] = d
                 /\ \A k \in 1 .. n :
                        f[k] = IF k - 1 \in up THEN Rejoin(f[k - 1], g, k - 1) ELSE f[k - 1]
                 /\ LinksUp(d, up) = f[n]
    BY <1>2, LinksUpSteps
  <2>2. g \in Group /\ Listed(d, g)
    BY <1>2, FirstIsListed
  <2> DEFINE T == {k \in 0 .. n : Sound(f[k]) /\ Listed(f[k], g) /\ Loses(d, f[k], p)}
  <2>3. n \in Nat
    BY Sizes
  <2> HIDE DEF n, g
  <2>4. 0 \in T
    BY <2>1, <2>2, <2>3, LosesNothing
  <2>5. ASSUME NEW k \in 1 .. n, k - 1 \in T PROVE k \in T
    <3>1. k \in 0 .. n /\ k - 1 \in Port
      BY <2>3 DEF Port, n
    <3>2. Sound(f[k - 1]) /\ Listed(f[k - 1], g) /\ Loses(d, f[k - 1], p)
      BY <2>5
    <3>3. CASE k - 1 \in up
      <4> DEFINE x == f[k - 1]
                 y == Rejoin(x, g, k - 1)
      <4>1. f[k] = y /\ p \in Port \ {k - 1}
        BY <2>1, <3>3
      <4>2. Sound(x) /\ Listed(x, g) /\ Loses(d, x, p)
        BY <3>2
      <4> HIDE DEF x
      <4>3. Sound(y) /\ Listed(y, g) /\ Concerns(x, y, g, {k - 1})
        BY <2>2, <3>1, <4>2, RejoinSound
      <4>4. SoundBut(x, g)
        BY <4>2, SoundIsSoundBut
      <4> HIDE DEF y
      <4>5. Loses(x, y, p)
        BY <2>2, <4>1, <4>2, <4>3, <4>4, OthersConcerned
      <4>6. Loses(d, y, p)
        BY <4>2, <4>3, <4>5, LosesAgain
      <4> QED BY <3>1, <4>1, <4>3, <4>6
    <3>4. CASE k - 1 \notin up
      BY <2>1, <3>1, <3>2, <3>4
    <3> QED BY <3>3, <3>4
  <2> HIDE DEF T
  <2>6. \A k \in 0 .. n : k \in T
    BY <2>3, <2>4, <2>5, Upto
  <2>7. n \in T
    BY <2>3, <2>6
  <2> QED BY <2>1, <2>7 DEF T
<1> QED BY <1>1, <1>2

\* Entries that have no more than they had
LEMMA NoMoreLoses ==
    ASSUME NEW d, NEW d2, \A e \in ToSet(d2.list) : \E b \in ToSet(d.list) : NoMore(e, b),
           NEW p \in Port
    PROVE  Loses(d, d2, p)
BY DEF NoMore, Loses

LEMMA StepLoses ==
    ASSUME DInv, Next, NEW p \in Port \ (link \cup late)
    PROVE  Loses(db, db', p)
<1>1. Sound(db) /\ routerStatic \subseteq Port /\ trunk \subseteq Port
  BY GroupDbAssumption DEF DInv, TypeOK
<1>2. ASSUME db'.list = db.list PROVE Loses(db, db', p)
  BY <1>1, <1>2, LosesNothing
<1>3. ASSUME NEW g \in Group, NEW q \in Port, Report(g, q) \/ Leave(g, q)
      PROVE  Loses(db, db', p)
  <2>1. p # q /\ p \notin link
    BY <1>3 DEF Report, Leave, Received
  <2>2. CASE Report(g, q)
    BY <1>1, <2>1, <2>2, AddMemberLoses DEF Report
  <2>3. CASE Leave(g, q)
    BY <1>1, <2>1, <2>3, DelMemberLoses DEF Leave
  <2> QED BY <1>3, <2>2, <2>3
<1>4. ASSUME NEW q \in QuerierPort, Query(q) PROVE Loses(db, db', p)
  <2>1. db'.list = db.list
    BY <1>1, <1>4 DEF Query, Sound, DataBase
  <2> QED BY <1>2, <2>1
<1>5. CASE Timer
  <2>1. CASE enabled /\ pass_time' = 0
    BY <1>1, <1>5, <2>1, TimerSound, NoMoreLoses DEF Timer
  <2>2. CASE ~(enabled /\ pass_time' = 0)
    BY <1>2, <1>5, <2>2 DEF Timer
  <2> QED BY <2>1, <2>2
<1>6. CASE LinkChange
  <2>1. CASE enabled
    <3> DEFINE x == LinksUp(db, link \ seen)
    <3>1. Sound(x) /\ Loses(db, x, p)
      BY <1>1, LinksUpSound, LinksUpLoses
    <3>2. db' = LinksDown(x, seen \ link)
      BY <1>6, <2>1 DEF LinkChange
    <3> HIDE DEF x
    <3>3. Sound(db') /\ Loses(x, db', p)
      BY <1>1, <3>1, <3>2, LinksDownSound, NoMoreLoses
    <3> QED BY <1>1, <3>1, <3>3, LosesAgain
  <2>2. CASE ~enabled
    BY <1>2, <1>6, <2>2 DEF LinkChange
  <2> QED BY <2>1, <2>2
<1>7. CASE Disable
  <2> DEFINE gone == SettleAll(db, [i \in DOMAIN db.list |-> [db.list[i] EXCEPT !.fwd = {}]])
  <2>1. PICK pool \in Bijection(DOMAIN gone.free, DOMAIN gone.free) :
            db' = [gone EXCEPT !.router = NoTimers,
                               !.free = [i \in DOMAIN gone.free |-> gone.free[pool[i]]]]
    BY <1>7 DEF Disable
  <2>2. db'.list = <<>>
    BY <1>1, <2>1, DisableSound
  <2>3. ToSet(db'.list) = {}
    BY <2>2, EmptySeq DEF ToSet
  <2> QED BY <2>3 DEF Loses
<1>8. CASE Enable \/ SetStaticRouters \/ SetTrunk \/ \E q \in Port : Plug(q) \/ Pull(q)
  BY <1>2, <1>8 DEF Enable, SetStaticRouters, SetTrunk, Plug, Pull
<1> QED BY <1>3, <1>4, <1>5, <1>6, <1>7, <1>8 DEF Next

\* A port that is down and has no frame in the queue joins no group and keeps none
\* longer, whatever the others of its trunk do: igmp_add_groupMember_byTrunk and
\* igmp_group_linkStatus_change take in ports that are up only.  With DbTypeCorrect,
\* which bounds the timers, it is the safety part of DownPortLeaves.
THEOREM DownPortJoinsNothing == Spec => DownPortOnlyLoses
<1> DEFINE Only ==
        \A p \in Port \ (link \cup late) : \A e \in ToSet(db'.list) : p \in e.fwd =>
            /\ Listed(db, e.addr)
            /\ p \in Get(db, e.addr).fwd /\ e.timer[p] <= Get(db, e.addr).timer[p]
<1>1. ASSUME DInv, Next, DInv' PROVE Only
  <2> SUFFICES ASSUME NEW p \in Port \ (link \cup late), NEW e \in ToSet(db'.list), p \in e.fwd
               PROVE  /\ Listed(db, e.addr)
                      /\ p \in Get(db, e.addr).fwd /\ e.timer[p] <= Get(db, e.addr).timer[p]
    OBVIOUS
  <2>1. PICK b \in ToSet(db.list) :
            b.addr = e.addr /\ p \in b.fwd /\ e.timer[p] <= b.timer[p]
    BY <1>1, StepLoses DEF Loses
  <2>2. db \in DataBase /\ Distinct(db)
    BY <1>1 DEF DInv, Sound
  <2>3. Listed(db, e.addr) /\ e.addr \in Group
    BY <2>1, <2>2, ListedIsInList, Entries
  <2>4. b = Get(db, e.addr)
    BY <2>1, <2>2, <2>3, Lookup
  <2> QED BY <2>1, <2>3, <2>4
<1>2. DInv /\ [Next]_vars /\ DInv' => [Only]_vars
  BY <1>1
<1>3. Spec => [][Only]_vars
  BY <1>2, DbInvariant, PTL DEF Spec
<1> QED BY <1>3 DEF DownPortOnlyLoses

-----------------------------------------------------------------------------
(* What the chip goes on forwarding                                        *)

LEMMA StepFollows ==
    ASSUME DInv, DInv', Next, NEW m \in Mac
    PROVE  Strangers(db', m) \subseteq Strangers(db, m) \cup RouterPorts(db)
<1>1. Sound(db) /\ routerStatic \subseteq Port /\ trunk \subseteq Port
  BY GroupDbAssumption DEF DInv, TypeOK
<1>2. ASSUME Follows(db, db') PROVE Strangers(db', m) \subseteq Strangers(db, m) \cup RouterPorts(db)
  BY <1>2 DEF Follows
<1>3. ASSUME db'.list = db.list, db'.chip = db.chip
      PROVE  Strangers(db', m) \subseteq Strangers(db, m)
  BY <1>3 DEF Strangers
<1>4. ASSUME NEW g \in Group, NEW p \in Port, Report(g, p) \/ Leave(g, p)
      PROVE  Follows(db, db')
  <2>1. CASE Report(g, p)
    BY <1>1, <2>1, AddMemberSound DEF Report
  <2>2. CASE Leave(g, p)
    BY <1>1, <2>2, DelMemberSound DEF Leave
  <2> QED BY <1>4, <2>1, <2>2
<1>5. ASSUME NEW p \in QuerierPort, Query(p)
      PROVE  Strangers(db', m) \subseteq Strangers(db, m)
  <2>1. db'.list = db.list /\ db'.chip = db.chip
    BY <1>1, <1>5 DEF Query, Sound, DataBase
  <2> QED BY <1>3, <2>1
<1>6. CASE Timer
  <2>1. CASE enabled /\ pass_time' = 0
    BY <1>1, <1>2, <1>6, <2>1, TimerSound DEF Timer
  <2>2. CASE ~(enabled /\ pass_time' = 0)
    BY <1>3, <1>6, <2>2 DEF Timer
  <2> QED BY <2>1, <2>2
<1>7. CASE LinkChange
  <2>1. CASE enabled
    <3> DEFINE x == LinksUp(db, link \ seen)
    <3>1. Sound(x) /\ Follows(db, x)
      BY <1>1, LinksUpSound
    <3>2. db' = LinksDown(x, seen \ link)
      BY <1>7, <2>1 DEF LinkChange
    <3> HIDE DEF x
    <3>3. Follows(x, db')
      BY <1>1, <3>1, <3>2, LinksDownSound
    <3>4. Follows(db, db')
      BY <3>1, <3>3, FollowsAgain
    <3> QED BY <1>2, <3>4
  <2>2. CASE ~enabled
    BY <1>3, <1>7, <2>2 DEF LinkChange
  <2> QED BY <2>1, <2>2
\* With no group left the chip has no entry.
<1>8. CASE Disable
  <2>1. enabled' = FALSE
    BY <1>8 DEF Disable
  <2>2. db'.list = <<>> /\ Sound(db)'
    BY <2>1 DEF DInv
  <2>3. ToSet(db'.list) = {}
    BY <2>2, EmptySeq DEF ToSet
  <2>4. db'.chip[m] = {}
    BY <2>2, <2>3 DEF Sound
  <2> QED BY <2>4 DEF Strangers
<1>9. CASE Enable \/ SetStaticRouters \/ SetTrunk \/ \E q \in Port : Plug(q) \/ Pull(q)
  BY <1>3, <1>9 DEF Enable, SetStaticRouters, SetTrunk, Plug, Pull
<1> QED BY <1>2, <1>4, <1>5, <1>6, <1>7, <1>8, <1>9 DEF Next

\* Whoever leaves a group is struck out in the chip with it, by a leave, by a timer,
\* by a link that goes or by the end of snooping, also where two groups share an
\* address; only router ports are left over.  It is the safety part of OldRoutersLeave:
\* sal_igmp_ipAddrEntry_add and _del are called wherever the members change.
THEOREM ChipStrikesOut == Spec => ChipFollowsMembers
<1> DEFINE Struck ==
        \A m \in Mac : Strangers(db', m) \subseteq Strangers(db, m) \cup RouterPorts(db)
<1>1. ASSUME DInv, Next, DInv' PROVE Struck
  BY <1>1, StepFollows
<1>2. DInv /\ [Next]_vars /\ DInv' => [Struck]_vars
  BY <1>1
<1>3. Spec => [][Struck]_vars
  BY <1>2, DbInvariant, PTL DEF Spec
<1> QED BY <1>3 DEF ChipFollowsMembers

=============================================================================
