-------------------------- MODULE VlanTable_proofs --------------------------
(***************************************************************************)
(* Proofs about VlanTable, for any number of VLANs, member configurations  *)
(* and ports.                                                              *)
(*                                                                         *)
(* The argument: the index is sorted and lists each slot in use once, so   *)
(* there is an end to insert at whenever there is a vacant slot.  No VID   *)
(* has two member configurations, and a port's is given up only with a     *)
(* VLAN that is no port's PVID.  A port the pages do not show keeps the    *)
(* PVID 1, which is why VLAN 1 is never removed (DefaultStays), and while  *)
(* a restart is going on only VLAN 1 and the PVIDs of ports have taken     *)
(* member configurations, so that there is room for the rest (RoomLeft).   *)
(***************************************************************************)
EXTENDS VlanTable, FiniteSetTheorems, WellFoundedInduction, TLAPS

DefaultStays ==
    /\ \E s \in Slot : slotVid[s] = 1
    /\ \A p \in Port \ PagePort : pvid[p] = 1 /\ PvidGet(p) = 1
    /\ PvidGet(CpuPort) = 1

RoomLeft ==
    restoring # {} =>
        \A c \in Idx : mbrCfg[c].evid \in {0, 1} \cup {pvid[q] : q \in PagePort}

VInv ==
    /\ TypeOK /\ IndexIsSorted /\ MemberConfigsAgree
    /\ DefaultStays /\ RoomLeft /\ ChipFollowsConfig

LEMMA Sizes ==
    /\ MAX \in Nat /\ MAX > 0 /\ 0 \in Slot /\ MAX - 1 \in Slot
    /\ \A i \in Slot : i \in Nat /\ i \in Int /\ i < MAX
    /\ \A v \in Vid : v \in Nat /\ v \in Int /\ v # 0
    /\ 0 \notin Vid /\ 1 \in Vid /\ -1 \notin Vid
<1>1. MAX \in Nat /\ MAX > 0
  BY VlanAssumption
<1>2. \A v \in Vid : v \in Nat /\ v \in Int /\ v # 0
  BY VlanAssumption
<1>3. 0 \notin Vid /\ 1 \in Vid /\ -1 \notin Vid
  BY <1>2, VlanAssumption
<1>4. /\ 0 \in Slot /\ MAX - 1 \in Slot
      /\ \A i \in Slot : i \in Nat /\ i \in Int /\ i < MAX
  BY <1>1 DEF Slot
<1> QED BY <1>1, <1>2, <1>3, <1>4

LEMMA MinIsLeast ==
  ASSUME NEW S \in SUBSET Nat, S # {}
  PROVE  Min(S) \in S /\ \A y \in S : Min(S) =< y
<1>1. \E x \in S : \A y \in S : ~(<<y, x>> \in OpToRel(<, Nat))
  BY NatLessThanWellFounded, WFMin
<1>2. PICK x \in S : \A y \in S : ~(<<y, x>> \in OpToRel(<, Nat))
  BY <1>1
<1>3. ASSUME NEW y \in S PROVE x =< y
  <2>1. x \in Nat /\ y \in Nat
    OBVIOUS
  <2>2. y < x => <<y, x>> \in OpToRel(<, Nat)
    BY <2>1 DEF OpToRel
  <2>3. ~(y < x)
    BY <1>2, <2>2, Zenon
  <2> QED BY <2>1, <2>3
<1> QED BY <1>3 DEF Min

-----------------------------------------------------------------------------
(* The index                                                               *)

\* Where sal_vlan_db_search stops
LEMMA SearchStops ==
  ASSUME TypeOK, NEW v \in Vid
  PROVE  /\ SortedIdx(v) \in 0 .. MAX
         /\ SortedIdx(v) # MAX <=> SortedIdx(v) \in Slot
         /\ \A i \in Slot : i < SortedIdx(v) =>
                sortedSlot[i] \in Slot /\ slotVid[sortedSlot[i]] < v
         /\ SortedIdx(v) # MAX =>
                \/ sortedSlot[SortedIdx(v)] = -1
                \/ slotVid[sortedSlot[SortedIdx(v)]] >= v
<1> DEFINE T == StopsAt(v) \cup {MAX}
<1>1. T \subseteq 0 .. MAX /\ T \in SUBSET Nat /\ T # {}
  BY Sizes DEF StopsAt, Slot
<1>2. Min(T) \in T /\ \A y \in T : Min(T) =< y
  BY <1>1, MinIsLeast
<1>3. SortedIdx(v) = Min(T)
  BY DEF SortedIdx
<1>4. ASSUME NEW i \in Slot, i < SortedIdx(v)
      PROVE  sortedSlot[i] \in Slot /\ slotVid[sortedSlot[i]] < v
  <2>1. i \notin StopsAt(v)
    BY <1>1, <1>2, <1>3, <1>4, Sizes
  <2>2. sortedSlot[i] # -1 /\ ~(slotVid[sortedSlot[i]] >= v)
    BY <2>1 DEF StopsAt
  <2>3. sortedSlot[i] \in Slot /\ slotVid[sortedSlot[i]] \in Vid \cup {-1}
    BY <2>2 DEF TypeOK
  <2>4. v \in Nat /\ slotVid[sortedSlot[i]] \in Int
    BY <2>3, Sizes
  <2> QED BY <2>2, <2>3, <2>4
<1>5. SortedIdx(v) # MAX => SortedIdx(v) \in StopsAt(v)
  BY <1>2, <1>3
<1> QED BY <1>1, <1>2, <1>3, <1>4, <1>5, Sizes DEF StopsAt

LEMMA UsedSlots ==
  ASSUME TypeOK, IndexIsSorted
  PROVE  /\ \A i \in Slot : sortedSlot[i] # -1 =>
                sortedSlot[i] \in Slot /\ slotVid[sortedSlot[i]] \in Vid
         /\ \A i, j \in Slot : sortedSlot[i] # -1 /\ sortedSlot[i] = sortedSlot[j] => i = j
         /\ \A s, t \in Slot : slotVid[s] # -1 /\ slotVid[s] = slotVid[t] => s = t
<1>1. ASSUME NEW i \in Slot, sortedSlot[i] # -1
      PROVE  sortedSlot[i] \in Slot /\ slotVid[sortedSlot[i]] \in Vid
  BY <1>1 DEF TypeOK, IndexIsSorted
<1>2. ASSUME NEW i \in Slot, NEW j \in Slot, i < j, sortedSlot[j] # -1
      PROVE  sortedSlot[i] # -1 /\ slotVid[sortedSlot[i]] < slotVid[sortedSlot[j]]
  BY <1>2 DEF IndexIsSorted
<1>3. ASSUME NEW i \in Slot, NEW j \in Slot, sortedSlot[i] # -1, sortedSlot[j] # -1,
             slotVid[sortedSlot[i]] = slotVid[sortedSlot[j]]
      PROVE  i = j
  <2>1. slotVid[sortedSlot[i]] \in Nat
    BY <1>1, <1>3, Sizes
  <2>2. ~(i < j) /\ ~(j < i)
    BY <1>2, <1>3, <2>1
  <2> QED BY <2>2, Sizes
<1>4. ASSUME NEW s \in Slot, NEW t \in Slot, slotVid[s] # -1, slotVid[s] = slotVid[t]
      PROVE  s = t
  <2>1. PICK i \in Slot : sortedSlot[i] = s
    BY <1>4 DEF IndexIsSorted
  <2>2. PICK j \in Slot : sortedSlot[j] = t
    BY <1>4 DEF IndexIsSorted
  <2>3. i = j
    BY <1>3, <1>4, <2>1, <2>2, Sizes
  <2> QED BY <2>1, <2>2, <2>3
<1>5. ASSUME NEW i \in Slot, NEW j \in Slot, sortedSlot[i] # -1, sortedSlot[i] = sortedSlot[j]
      PROVE  i = j
  BY <1>3, <1>5
<1> QED BY <1>1, <1>4, <1>5

LEMMA ListedIs ==
  ASSUME TypeOK, IndexIsSorted, NEW v \in Vid
  PROVE  /\ Listed(v) <=> \E s \in Slot : slotVid[s] = v
         /\ Listed(v) => SortedIdx(v) \in Slot /\ sortedSlot[SortedIdx(v)] \in Slot
<1> DEFINE k == SortedIdx(v)
<1>1. ASSUME Listed(v)
      PROVE  k \in Slot /\ sortedSlot[k] \in Slot /\ slotVid[sortedSlot[k]] = v
  BY <1>1, SearchStops, UsedSlots DEF Listed
<1>2. ASSUME NEW s \in Slot, slotVid[s] = v PROVE Listed(v)
  <2>1. PICK i \in Slot : sortedSlot[i] = s
    BY <1>2, Sizes DEF IndexIsSorted
  <2>2. ~(i < k)
    BY <1>2, <2>1, SearchStops, Sizes
  <2>3. k \in Slot /\ k =< i
    BY <2>2, SearchStops, Sizes DEF Slot
  <2>4. CASE k = i
    BY <1>2, <2>1, <2>3, <2>4, Sizes DEF Listed, Slot
  <2>5. CASE k < i
    <3>. sortedSlot[i] # -1
      BY <2>1, Sizes
    <3>1. sortedSlot[k] # -1 /\ slotVid[sortedSlot[k]] < v
      BY <1>2, <2>1, <2>3, <2>5 DEF IndexIsSorted
    <3>2. slotVid[sortedSlot[k]] >= v
      BY <2>3, <3>1, SearchStops
    <3>3. slotVid[sortedSlot[k]] \in Nat
      BY <2>3, <3>1, UsedSlots, Sizes
    <3> QED BY <3>1, <3>2, <3>3, Sizes
  <2>6. k \in Int /\ i \in Int
    BY <2>3, Sizes
  <2> QED BY <2>3, <2>4, <2>5, <2>6
<1> QED BY <1>1, <1>2

LEMMA SlotIs ==
  ASSUME TypeOK, IndexIsSorted, NEW v \in Vid
  PROVE  /\ SlotFor(v) \in 0 .. MAX
         /\ HasRoom(v) =>
                /\ SlotFor(v) \in Slot
                /\ slotVid[SlotFor(v)] = IF Listed(v) THEN v ELSE -1
<1> DEFINE T == {j \in Slot : slotVid[j] = -1} \cup {MAX}
<1>1. CASE Listed(v)
  <2>1. SlotFor(v) \in Slot /\ slotVid[SlotFor(v)] = v
    BY <1>1, ListedIs DEF Listed, SlotFor
  <2>2. SlotFor(v) \in 0 .. MAX
    BY <2>1, Sizes DEF Slot
  <2> QED BY <1>1, <2>1, <2>2
<1>2. CASE ~Listed(v)
  <2>1. T \in SUBSET Nat /\ T # {}
    BY Sizes
  <2>2. Min(T) \in T
    BY <2>1, MinIsLeast
  <2>3. SlotFor(v) = Min(T)
    BY <1>2 DEF SlotFor
  <2>4. SlotFor(v) = MAX \/ (SlotFor(v) \in Slot /\ slotVid[SlotFor(v)] = -1)
    BY <2>2, <2>3
  <2>5. SlotFor(v) \in 0 .. MAX
    BY <2>4, Sizes DEF Slot
  <2> QED BY <1>2, <2>4, <2>5 DEF HasRoom
<1> QED BY <1>1, <1>2

\* As long as a slot is vacant, so is the end of the index.
LEMMA RoomAtEnd ==
  ASSUME TypeOK, IndexIsSorted, NEW j \in Slot, slotVid[j] = -1
  PROVE  sortedSlot[MAX - 1] = -1
<1> SUFFICES ASSUME sortedSlot[MAX - 1] # -1 PROVE FALSE
  OBVIOUS
<1>1. ASSUME NEW i \in Slot PROVE sortedSlot[i] # -1
  <2>1. i = MAX - 1 \/ i < MAX - 1
    BY Sizes DEF Slot
  <2> QED BY <2>1, Sizes DEF IndexIsSorted
<1>2. sortedSlot \in [Slot -> Slot \ {j}]
  <2>1. ASSUME NEW i \in Slot PROVE sortedSlot[i] \in Slot \ {j}
    BY <1>1, UsedSlots, Sizes
  <2> QED BY <2>1 DEF TypeOK
<1>3. IsFiniteSet(Slot)
  BY FS_Interval, Sizes DEF Slot
<1>4. IsFiniteSet(Slot \ {j}) /\ Cardinality(Slot \ {j}) = Cardinality(Slot) - 1
  BY <1>3, FS_RemoveElement
<1>5. Cardinality(Slot) \in Nat
  BY <1>3, FS_CardinalityType
<1>6. Cardinality(Slot \ {j}) < Cardinality(Slot)
  BY <1>4, <1>5
<1>7. PICK x \in Slot, y \in Slot : x # y /\ sortedSlot[x] = sortedSlot[y]
  BY <1>2, <1>3, <1>4, <1>6, FS_PigeonHole
<1> QED BY <1>1, <1>7, UsedSlots

\* A new VID takes its place in the index, and the end moves up by one.
LEMMA InsertKeepsIndex ==
  ASSUME TypeOK, IndexIsSorted, NEW v \in Vid, NEW m \in Membership,
         ~Listed(v), HasRoom(v), DbInsert(v),
         entry' = [entry EXCEPT ![SlotFor(v)] = [vlan_id |-> v, members |-> m]]
  PROVE  /\ IndexIsSorted'
         /\ sortedSlot' \in [Slot -> Slot \cup {-1}] /\ slotVid' \in [Slot -> Vid \cup {-1}]
         /\ \A s \in Slot : slotVid'[s] = IF s = SlotFor(v) THEN v ELSE slotVid[s]
<1> DEFINE k == SortedIdx(v)
           j == SlotFor(v)
<1>1. j \in Slot /\ slotVid[j] = -1
  BY SlotIs
<1>2. sortedSlot[MAX - 1] = -1
  BY <1>1, RoomAtEnd
<1>3. k \in Slot
  <2>1. ~(MAX - 1 < k)
    BY <1>2, SearchStops, Sizes
  <2> QED BY <2>1, SearchStops, Sizes DEF Slot
<1>4. \A s \in Slot : slotVid'[s] = IF s = j THEN v ELSE slotVid[s]
  BY <1>1 DEF DbInsert, TypeOK
<1>5. ASSUME NEW i \in Slot, i < k
      PROVE  /\ sortedSlot'[i] = sortedSlot[i] /\ sortedSlot[i] \in Slot \ {j}
             /\ slotVid'[sortedSlot[i]] = slotVid[sortedSlot[i]]
             /\ slotVid[sortedSlot[i]] \in Vid /\ slotVid[sortedSlot[i]] < v
  <2>1. sortedSlot'[i] = sortedSlot[i]
    BY <1>5 DEF DbInsert
  <2>2. sortedSlot[i] \in Slot /\ slotVid[sortedSlot[i]] < v
    BY <1>5, SearchStops
  <2>3. sortedSlot[i] # -1
    BY <2>2, Sizes
  <2>4. slotVid[sortedSlot[i]] \in Vid
    BY <2>3, UsedSlots
  <2>5. sortedSlot[i] # j
    BY <1>1, <2>4, Sizes
  <2> QED BY <1>4, <2>1, <2>2, <2>4, <2>5
<1>6. sortedSlot'[k] = j
  BY <1>3, Sizes DEF DbInsert
<1>7. ASSUME NEW i \in Slot, k < i
      PROVE  /\ i - 1 \in Slot /\ sortedSlot'[i] = sortedSlot[i - 1]
             /\ sortedSlot[i - 1] # -1 =>
                    /\ sortedSlot[i - 1] \in Slot \ {j}
                    /\ slotVid'[sortedSlot[i - 1]] = slotVid[sortedSlot[i - 1]]
                    /\ slotVid[sortedSlot[i - 1]] \in Vid /\ v < slotVid[sortedSlot[i - 1]]
  <2>1. i - 1 \in Slot /\ k \in Int /\ i \in Int
    BY <1>3, <1>7, Sizes DEF Slot
  <2>2. sortedSlot'[i] = sortedSlot[i - 1]
    BY <1>7, <2>1 DEF DbInsert
  <2>3. ASSUME sortedSlot[i - 1] # -1
        PROVE  v < slotVid[sortedSlot[i - 1]]
    <3>1. k = i - 1 \/ k < i - 1
      BY <1>7, <2>1
    <3>2. /\ sortedSlot[k] # -1
          /\ k = i - 1 \/ slotVid[sortedSlot[k]] < slotVid[sortedSlot[i - 1]]
      BY <1>3, <2>1, <2>3, <3>1 DEF IndexIsSorted
    <3>3. slotVid[sortedSlot[k]] >= v
      BY <1>3, <3>2, SearchStops, Sizes
    <3>4. slotVid[sortedSlot[k]] # v
      BY <1>3, <3>2, Sizes DEF Listed
    <3>5. slotVid[sortedSlot[k]] \in Int /\ slotVid[sortedSlot[i - 1]] \in Int /\ v \in Int
      BY <1>3, <2>1, <2>3, <3>2, UsedSlots, Sizes
    <3> QED BY <3>2, <3>3, <3>4, <3>5
  <2>4. ASSUME sortedSlot[i - 1] # -1
        PROVE  /\ sortedSlot[i - 1] \in Slot \ {j} /\ slotVid[sortedSlot[i - 1]] \in Vid
    BY <1>1, <2>1, <2>4, UsedSlots, Sizes
  <2> QED BY <1>4, <2>1, <2>2, <2>3, <2>4
<1>8. \A a \in Slot : a < k \/ a = k \/ k < a
  BY <1>3, Sizes
<1>9. sortedSlot' \in [Slot -> Slot \cup {-1}] /\ slotVid' \in [Slot -> Vid \cup {-1}]
  <2>1. \A i \in Slot : sortedSlot'[i] \in Slot \cup {-1}
    <3> TAKE i \in Slot
    <3>1. CASE i < k
      BY <1>5, <3>1
    <3>2. CASE i = k
      BY <1>1, <1>6, <3>2
    <3>3. CASE k < i
      BY <1>7, <3>3
    <3> QED BY <1>8, <3>1, <3>2, <3>3
  <2>2. sortedSlot' = [i \in Slot |-> sortedSlot'[i]]
    BY DEF DbInsert
  <2> QED BY <1>1, <2>1, <2>2 DEF DbInsert, TypeOK
<1>10. IndexIsSorted'
  <2>1. ASSUME NEW a \in Slot, NEW b \in Slot, a < b, sortedSlot'[b] # -1
        PROVE  sortedSlot'[a] # -1 /\ slotVid'[sortedSlot'[a]] < slotVid'[sortedSlot'[b]]
    <3>1. a \in Int /\ b \in Int /\ k \in Int /\ v \in Int
      BY <1>3, Sizes
    <3>2. slotVid'[j] = v /\ j # -1
      BY <1>1, <1>4, Sizes
    <3>3. CASE b < k
      <4>1. a < k
        BY <2>1, <3>1, <3>3
      <4> QED BY <1>5, <2>1, <3>3, <4>1, Sizes DEF IndexIsSorted
    <3>4. CASE b = k
      BY <1>5, <1>6, <2>1, <3>2, <3>4, Sizes
    <3>5. CASE k < b /\ a < k
      <4>1. slotVid[sortedSlot[a]] < v /\ v < slotVid[sortedSlot[b - 1]]
        BY <1>5, <1>7, <2>1, <3>5
      <4>2. slotVid[sortedSlot[a]] \in Int /\ slotVid[sortedSlot[b - 1]] \in Int
        BY <1>5, <1>7, <2>1, <3>5, Sizes
      <4> QED BY <1>5, <1>7, <2>1, <3>1, <3>5, <4>1, <4>2, Sizes
    <3>6. CASE k < b /\ a = k
      BY <1>6, <1>7, <2>1, <3>2, <3>6
    <3>7. CASE k < b /\ k < a
      <4>1. a - 1 < b - 1 /\ a - 1 \in Slot /\ b - 1 \in Slot
        BY <1>7, <2>1, <3>1, <3>7
      <4>2. sortedSlot[a - 1] # -1 /\ slotVid[sortedSlot[a - 1]] < slotVid[sortedSlot[b - 1]]
        BY <1>7, <2>1, <3>7, <4>1 DEF IndexIsSorted
      <4> QED BY <1>7, <2>1, <3>7, <4>2
    <3> QED BY <1>8, <3>3, <3>4, <3>5, <3>6, <3>7
  <2>2. ASSUME NEW s \in Slot
        PROVE  slotVid'[s] # -1 <=> \E i \in Slot : sortedSlot'[i] = s
    <3>1. CASE s = j
      BY <1>3, <1>4, <1>6, <3>1, Sizes
    <3>2. CASE s # j
      <4>1. ASSUME NEW i \in Slot, sortedSlot[i] = s
            PROVE  \E h \in Slot : sortedSlot'[h] = s
        <5>1. CASE i < k
          BY <1>5, <4>1, <5>1
        <5>2. CASE ~(i < k)
          <6>1. i # MAX - 1
            BY <1>2, <4>1, Sizes
          <6>2. i + 1 \in Slot /\ k < i + 1 /\ (i + 1) - 1 = i
            BY <1>3, <5>2, <6>1, Sizes DEF Slot
          <6>3. sortedSlot'[i + 1] = s
            BY <1>7, <4>1, <6>2
          <6> QED BY <6>2, <6>3
        <5> QED BY <5>1, <5>2
      <4>2. ASSUME NEW i \in Slot, sortedSlot'[i] = s
            PROVE  \E h \in Slot : sortedSlot[h] = s
        <5>1. i < k \/ k < i
          BY <1>6, <1>8, <3>2, <4>2
        <5> QED BY <1>5, <1>7, <4>2, <5>1
      <4>3. slotVid'[s] = slotVid[s]
        BY <1>4, <3>2
      <4> QED BY <4>1, <4>2, <4>3 DEF IndexIsSorted
    <3> QED BY <3>1, <3>2
  <2>3. ASSUME NEW s \in Slot, slotVid'[s] # -1 PROVE entry'[s].vlan_id = slotVid'[s]
    <3>1. CASE s = j
      BY <1>1, <1>4, <3>1 DEF TypeOK
    <3>2. CASE s # j
      BY <1>4, <2>3, <3>2 DEF TypeOK, IndexIsSorted
    <3> QED BY <3>1, <3>2
  <2> QED BY <2>1, <2>2, <2>3 DEF IndexIsSorted
<1> QED BY <1>4, <1>9, <1>10

\* A VID that goes leaves no gap.
LEMMA DeleteKeepsIndex ==
  ASSUME TypeOK, IndexIsSorted, NEW v \in Vid, Listed(v), DbDel(v),
         entry' = [entry EXCEPT ![SlotFor(v)] = NoEntry]
  PROVE  /\ IndexIsSorted'
         /\ sortedSlot' \in [Slot -> Slot \cup {-1}] /\ slotVid' \in [Slot -> Vid \cup {-1}]
         /\ SlotFor(v) \in Slot /\ slotVid[SlotFor(v)] = v
         /\ \A s \in Slot : slotVid'[s] = IF s = SlotFor(v) THEN -1 ELSE slotVid[s]
<1> DEFINE k == SortedIdx(v)
           j == SlotFor(v)
<1>1. k \in Slot /\ j \in Slot /\ j = sortedSlot[k] /\ slotVid[j] = v
  BY ListedIs DEF Listed, SlotFor
<1>2. \A s \in Slot : slotVid'[s] = IF s = j THEN -1 ELSE slotVid[s]
  BY <1>1 DEF DbDel, TypeOK
<1>3. \A i \in Slot : sortedSlot[i] = j => i = k
  BY <1>1, UsedSlots, Sizes
<1>4. ASSUME NEW i \in Slot, i < k PROVE sortedSlot'[i] = sortedSlot[i] /\ sortedSlot[i] # -1
  <2>1. sortedSlot'[i] = sortedSlot[i]
    BY <1>4 DEF DbDel
  <2> QED BY <1>1, <1>4, <2>1, Sizes DEF IndexIsSorted
<1>5. ASSUME NEW i \in Slot, ~(i < k), i # MAX - 1
      PROVE  i + 1 \in Slot /\ k < i + 1 /\ sortedSlot'[i] = sortedSlot[i + 1]
  <2>1. i + 1 \in Slot /\ k < i + 1
    BY <1>1, <1>5, Sizes DEF Slot
  <2> QED BY <1>5, <2>1 DEF DbDel
<1>6. ~(MAX - 1 < k) /\ sortedSlot'[MAX - 1] = -1
  BY <1>1, Sizes DEF DbDel, Slot
\* Where the new index has a slot, the old one had it.
<1>7. ASSUME NEW i \in Slot, sortedSlot'[i] # -1
      PROVE  \E h \in Slot : /\ h = (IF i < k THEN i ELSE i + 1)
                              /\ sortedSlot'[i] = sortedSlot[h] /\ sortedSlot[h] \in Slot \ {j}
                              /\ slotVid'[sortedSlot[h]] = slotVid[sortedSlot[h]]
  <2>1. PICK h \in Slot : /\ h = (IF i < k THEN i ELSE i + 1)
                          /\ sortedSlot'[i] = sortedSlot[h] /\ h # k
    <3>1. CASE i < k
      BY <1>4, <3>1, <1>1, Sizes
    <3>2. CASE ~(i < k)
      <4>1. i # MAX - 1
        BY <1>6, <1>7
      <4> QED BY <1>1, <1>5, <3>2, <4>1, Sizes
    <3> QED BY <3>1, <3>2
  <2>2. sortedSlot[h] \in Slot
    BY <1>7, <2>1 DEF TypeOK
  <2>3. sortedSlot[h] # j
    BY <1>3, <2>1
  <2> QED BY <1>2, <2>1, <2>2, <2>3
<1>8. sortedSlot' \in [Slot -> Slot \cup {-1}] /\ slotVid' \in [Slot -> Vid \cup {-1}]
  <2>1. \A i \in Slot : sortedSlot'[i] \in Slot \cup {-1}
    BY <1>7
  <2>2. sortedSlot' = [i \in Slot |-> sortedSlot'[i]]
    BY DEF DbDel
  <2> QED BY <1>1, <2>1, <2>2 DEF DbDel, TypeOK
<1>9. IndexIsSorted'
  <2>1. ASSUME NEW a \in Slot, NEW b \in Slot, a < b, sortedSlot'[b] # -1
        PROVE  sortedSlot'[a] # -1 /\ slotVid'[sortedSlot'[a]] < slotVid'[sortedSlot'[b]]
    <3>1. PICK h \in Slot : /\ h = (IF b < k THEN b ELSE b + 1)
                            /\ sortedSlot'[b] = sortedSlot[h] /\ sortedSlot[h] \in Slot \ {j}
                            /\ slotVid'[sortedSlot[h]] = slotVid[sortedSlot[h]]
      BY <1>7, <2>1
    <3>2. a # MAX - 1
      BY <2>1, Sizes
    <3>3. PICK g \in Slot : g = (IF a < k THEN a ELSE a + 1) /\ sortedSlot'[a] = sortedSlot[g]
      BY <1>4, <1>5, <3>2
    <3>4. g < h
      BY <1>1, <2>1, <3>1, <3>3, Sizes
    <3>5. sortedSlot[g] # -1 /\ slotVid[sortedSlot[g]] < slotVid[sortedSlot[h]]
      BY <2>1, <3>1, <3>4 DEF IndexIsSorted
    <3>6. slotVid'[sortedSlot'[a]] = slotVid[sortedSlot[g]]
      BY <1>7, <3>3, <3>5
    <3> QED BY <3>1, <3>3, <3>5, <3>6
  <2>2. ASSUME NEW s \in Slot
        PROVE  slotVid'[s] # -1 <=> \E i \in Slot : sortedSlot'[i] = s
    <3>1. CASE s = j
      BY <1>2, <1>7, <3>1, Sizes
    <3>2. CASE s # j
      <4>1. ASSUME NEW i \in Slot, sortedSlot[i] = s
            PROVE  \E h \in Slot : sortedSlot'[h] = s
        <5>1. CASE i < k
          BY <1>4, <4>1, <5>1
        <5>2. CASE ~(i < k)
          <6>1. i # k
            BY <1>1, <3>2, <4>1
          <6>2. i - 1 \in Slot /\ ~(i - 1 < k) /\ i - 1 # MAX - 1 /\ (i - 1) + 1 = i
            BY <1>1, <5>2, <6>1, Sizes DEF Slot
          <6>3. sortedSlot'[i - 1] = s
            BY <1>5, <4>1, <6>2
          <6> QED BY <6>2, <6>3
        <5> QED BY <5>1, <5>2
      <4>2. ASSUME NEW i \in Slot, sortedSlot'[i] = s
            PROVE  \E h \in Slot : sortedSlot[h] = s
        BY <1>7, <4>2, Sizes
      <4>3. slotVid'[s] = slotVid[s]
        BY <1>2, <3>2
      <4> QED BY <4>1, <4>2, <4>3 DEF IndexIsSorted
    <3> QED BY <3>1, <3>2
  <2>3. ASSUME NEW s \in Slot, slotVid'[s] # -1 PROVE entry'[s].vlan_id = slotVid'[s]
    BY <1>2, <2>3 DEF TypeOK, IndexIsSorted
  <2> QED BY <2>1, <2>2, <2>3 DEF IndexIsSorted
<1> QED BY <1>1, <1>2, <1>8, <1>9

-----------------------------------------------------------------------------
(* The member configurations                                               *)

LEMMA Configured ==
  ASSUME TypeOK, MemberConfigsAgree
  PROVE  /\ ReadBack = vlan_mbrCfgVid
         /\ \A v \in Vid, c \in Idx : First(c, vlan_mbrCfgVid, v) <=> mbrCfg[c].evid = v
         /\ \A c \in Idx : mbrCfg[c] # Unused <=> mbrCfg[c].evid \in Vid
         /\ \A c \in Idx : mbrCfg[c].evid \in Vid <=> mbrCfg[c].evid # 0
         /\ \A p \in AllPorts : pvidIdx[p] \in Idx /\ PvidGet(p) \in Vid
<1>1. ReadBack = vlan_mbrCfgVid
  BY DEF ReadBack, TypeOK, MemberConfigsAgree
<1>2. \A c \in Idx : mbrCfg[c].evid \in Vid \cup {0}
  BY DEF TypeOK
<1>3. \A c \in Idx : mbrCfg[c].evid \in Vid <=> mbrCfg[c].evid # 0
  BY <1>2, Sizes
<1>4. \A c \in Idx : mbrCfg[c] # Unused <=> mbrCfg[c].evid \in Vid
  <2> TAKE c \in Idx
  <2>1. mbrCfg[c] # Unused => mbrCfg[c].evid \in Vid
    BY DEF MemberConfigsAgree
  <2>2. mbrCfg[c] = Unused => mbrCfg[c].evid = 0
    BY DEF Unused
  <2> QED BY <2>1, <2>2, Sizes
<1>5. ASSUME NEW v \in Vid, NEW c \in Idx
      PROVE  First(c, vlan_mbrCfgVid, v) <=> mbrCfg[c].evid = v
  <2>1. \A d \in Idx : vlan_mbrCfgVid[d] = mbrCfg[d].evid
    BY DEF MemberConfigsAgree
  <2>2. \A d \in Idx : mbrCfg[d].evid = v /\ mbrCfg[c].evid = v => d = c
    BY Sizes DEF MemberConfigsAgree
  <2>3. \A d \in Idx : d < c => d # c
    BY VlanAssumption DEF Idx
  <2> QED BY <2>1, <2>2, <2>3 DEF First
<1>6. ASSUME NEW p \in AllPorts PROVE pvidIdx[p] \in Idx /\ PvidGet(p) \in Vid
  <2>1. pvidIdx[p] \in Idx
    BY DEF TypeOK
  <2>2. mbrCfg[pvidIdx[p]] # Unused
    BY DEF MemberConfigsAgree
  <2> QED BY <1>4, <2>1, <2>2 DEF PvidGet
<1> QED BY <1>1, <1>3, <1>4, <1>5, <1>6

\* rtk_vlan_set, when it takes the member configuration of no port
LEMMA VlanSetKeeps ==
  ASSUME TypeOK, MemberConfigsAgree, NEW v \in Vid,
         NEW vlan \in [mbr : SUBSET AllPorts, untag : SUBSET AllPorts],
         VlanSet(v, vlan), UNCHANGED pvidIdx,
         vlan.mbr # {} \/ \A p \in AllPorts : PvidGet(p) # v
  PROVE  /\ MemberConfigsAgree'
         /\ table' \in [Vid -> [mbr : SUBSET AllPorts, untag : SUBSET AllPorts]]
         /\ mbrCfg' \in [Idx -> [evid : Vid \cup {0}, mbr : SUBSET AllPorts]]
         /\ vlan_mbrCfgVid' \in [Idx -> Vid \cup {0}]
         /\ \A p \in AllPorts : PvidGet(p)' = PvidGet(p)
<1>1. /\ table' = [table EXCEPT ![v] = vlan]
      /\ table' \in [Vid -> [mbr : SUBSET AllPorts, untag : SUBSET AllPorts]]
  BY DEF VlanSet, TypeOK
<1>2. \A c \in Idx : mbrCfg'[c] = IF mbrCfg[c].evid = v
                                  THEN IF vlan.mbr = {} THEN Unused
                                       ELSE [evid |-> v, mbr |-> vlan.mbr]
                                  ELSE mbrCfg[c]
  BY Configured DEF VlanSet
<1>3. \A c \in Idx : vlan_mbrCfgVid'[c] = IF mbrCfg[c].evid = v /\ vlan.mbr = {} THEN 0
                                          ELSE vlan_mbrCfgVid[c]
  BY Configured DEF VlanSet
<1>4. /\ vlan.mbr \in SUBSET AllPorts
      /\ Unused \in [evid : Vid \cup {0}, mbr : SUBSET AllPorts]
      /\ [evid |-> v, mbr |-> vlan.mbr] \in [evid : Vid \cup {0}, mbr : SUBSET AllPorts]
  BY DEF Unused
<1>5. mbrCfg' \in [Idx -> [evid : Vid \cup {0}, mbr : SUBSET AllPorts]]
  <2>1. \A c \in Idx : mbrCfg'[c] \in [evid : Vid \cup {0}, mbr : SUBSET AllPorts]
    BY <1>2, <1>4 DEF TypeOK
  <2>2. mbrCfg' = [c \in Idx |-> mbrCfg'[c]]
    BY DEF VlanSet
  <2> QED BY <2>1, <2>2
<1>6. vlan_mbrCfgVid' \in [Idx -> Vid \cup {0}]
  <2>1. \A c \in Idx : vlan_mbrCfgVid'[c] \in Vid \cup {0}
    BY <1>3 DEF TypeOK
  <2>2. vlan_mbrCfgVid' = [c \in Idx |-> vlan_mbrCfgVid'[c]]
    BY DEF VlanSet
  <2> QED BY <2>1, <2>2
<1>7. \A c \in Idx : mbrCfg'[c].evid = IF mbrCfg[c].evid = v /\ vlan.mbr = {} THEN 0
                                       ELSE mbrCfg[c].evid
  BY <1>2 DEF Unused
<1>8. \A p \in AllPorts : PvidGet(p)' = PvidGet(p)
  BY <1>7, Configured DEF PvidGet
<1>9. MemberConfigsAgree'
  <2>1. \A c \in Idx : vlan_mbrCfgVid'[c] = mbrCfg'[c].evid
    BY <1>3, <1>7 DEF MemberConfigsAgree
  <2>2. \A c, d \in Idx : mbrCfg'[c].evid # 0 /\ mbrCfg'[c].evid = mbrCfg'[d].evid => c = d
    BY <1>7 DEF MemberConfigsAgree
  <2>3. ASSUME NEW c \in Idx, mbrCfg'[c] # Unused
        PROVE  mbrCfg'[c].evid \in Vid /\ mbrCfg'[c].mbr = table'[mbrCfg'[c].evid].mbr
    <3>1. CASE mbrCfg[c].evid = v
      <4>1. mbrCfg'[c] = [evid |-> v, mbr |-> vlan.mbr]
        BY <1>2, <2>3, <3>1
      <4>2. table'[v] = vlan
        BY <1>1 DEF TypeOK
      <4> QED BY <4>1, <4>2
    <3>2. CASE mbrCfg[c].evid # v
      <4>1. mbrCfg'[c] = mbrCfg[c] /\ mbrCfg[c].evid \in Vid
        BY <1>2, <2>3, <3>2 DEF MemberConfigsAgree
      <4>2. table'[mbrCfg[c].evid] = table[mbrCfg[c].evid]
        BY <1>1, <3>2, <4>1 DEF TypeOK
      <4> QED BY <2>3, <4>1, <4>2 DEF MemberConfigsAgree
    <3> QED BY <3>1, <3>2
  <2>4. ASSUME NEW p \in AllPorts PROVE mbrCfg'[pvidIdx'[p]] # Unused
    <3>1. pvidIdx[p] \in Idx /\ PvidGet(p)' \in Vid
      BY <1>8, Configured
    <3>2. mbrCfg'[pvidIdx'[p]].evid # 0
      BY <3>1, Sizes DEF PvidGet
    <3> QED BY <3>2 DEF Unused
  <2> QED BY <2>1, <2>2, <2>3, <2>4 DEF MemberConfigsAgree
<1> QED BY <1>1, <1>5, <1>6, <1>8, <1>9

\* rtk_vlan_portPvid_set finds or makes the one member configuration of v.
LEMMA PvidSetKeeps ==
  ASSUME TypeOK, MemberConfigsAgree, NEW p \in AllPorts, NEW v \in Vid,
         PvidSet(p, v), UNCHANGED table
  PROVE  /\ MemberConfigsAgree'
         /\ mbrCfg' \in [Idx -> [evid : Vid \cup {0}, mbr : SUBSET AllPorts]]
         /\ vlan_mbrCfgVid' \in [Idx -> Vid \cup {0}]
         /\ pvidIdx' \in [AllPorts -> Idx]
         /\ PvidGet(p)' = v /\ \A q \in AllPorts \ {p} : PvidGet(q)' = PvidGet(q)
         /\ \A c \in Idx : mbrCfg'[c].evid \in {mbrCfg[c].evid, v}
<1>1. PICK c \in Idx : CreateMbr(v, c) /\ pvidIdx' = [pvidIdx EXCEPT ![p] = c]
  BY DEF PvidSet
<1>2. /\ pvidIdx' \in [AllPorts -> Idx] /\ pvidIdx'[p] = c
      /\ \A q \in AllPorts \ {p} : pvidIdx'[q] = pvidIdx[q]
  BY <1>1 DEF TypeOK
<1>3. CASE Has(vlan_mbrCfgVid, v)
  <2>1. First(c, vlan_mbrCfgVid, v) /\ UNCHANGED <<mbrCfg, vlan_mbrCfgVid>>
    BY <1>1, <1>3 DEF CreateMbr
  <2>2. mbrCfg[c].evid = v
    BY <2>1, Configured
  <2>3. \A q \in AllPorts : mbrCfg'[pvidIdx'[q]] # Unused
    <3>1. mbrCfg'[pvidIdx'[p]] # Unused
      BY <1>2, <2>1, <2>2, Sizes DEF Unused
    <3>2. \A q \in AllPorts \ {p} : mbrCfg'[pvidIdx'[q]] # Unused
      BY <1>2, <2>1 DEF MemberConfigsAgree
    <3> QED BY <3>1, <3>2
  <2>4. MemberConfigsAgree'
    BY <2>1, <2>3 DEF MemberConfigsAgree
  <2>5. PvidGet(p)' = v /\ \A q \in AllPorts \ {p} : PvidGet(q)' = PvidGet(q)
    BY <1>2, <2>1, <2>2 DEF PvidGet
  <2> QED BY <1>2, <2>1, <2>4, <2>5 DEF TypeOK
<1>4. CASE ~Has(vlan_mbrCfgVid, v)
  <2>1. /\ First(c, ReadBack, 0)
        /\ vlan_mbrCfgVid' = [ReadBack EXCEPT ![c] = v]
        /\ mbrCfg' = [mbrCfg EXCEPT ![c] = [evid |-> v, mbr |-> table[v].mbr]]
    BY <1>1, <1>4, Configured DEF CreateMbr
  <2>2. mbrCfg[c].evid = 0
    BY <2>1 DEF First, ReadBack
  <2>3. \A d \in Idx : mbrCfg[d].evid # v
    BY <1>4, Configured DEF Has, ReadBack
  <2>4. table[v].mbr \in SUBSET AllPorts
    BY DEF TypeOK
  <2>5. /\ mbrCfg' \in [Idx -> [evid : Vid \cup {0}, mbr : SUBSET AllPorts]]
        /\ vlan_mbrCfgVid' \in [Idx -> Vid \cup {0}]
    BY <2>1, <2>4, Configured DEF TypeOK
  <2>6. /\ mbrCfg'[c] = [evid |-> v, mbr |-> table[v].mbr]
        /\ \A d \in Idx \ {c} : mbrCfg'[d] = mbrCfg[d]
    BY <2>1 DEF TypeOK
  <2>7. \A d \in Idx : vlan_mbrCfgVid'[d] = IF d = c THEN v ELSE vlan_mbrCfgVid[d]
    BY <2>1, Configured DEF TypeOK
  <2>8. ASSUME NEW q \in AllPorts \ {p}
        PROVE  pvidIdx'[q] # c /\ pvidIdx'[q] \in Idx /\ mbrCfg'[pvidIdx'[q]] = mbrCfg[pvidIdx[q]]
    <3>1. pvidIdx[q] \in Idx /\ mbrCfg[pvidIdx[q]].evid # 0
      BY Configured, Sizes DEF PvidGet
    <3> QED BY <1>2, <2>2, <2>6, <3>1
  <2>9. PvidGet(p)' = v /\ \A q \in AllPorts \ {p} : PvidGet(q)' = PvidGet(q)
    BY <1>2, <2>6, <2>8 DEF PvidGet
  <2>10. MemberConfigsAgree'
    <3>1. \A d \in Idx : vlan_mbrCfgVid'[d] = mbrCfg'[d].evid
      BY <2>6, <2>7 DEF MemberConfigsAgree
    <3>2. \A d, e \in Idx : mbrCfg'[d].evid # 0 /\ mbrCfg'[d].evid = mbrCfg'[e].evid => d = e
      BY <2>3, <2>6 DEF MemberConfigsAgree
    <3>3. \A d \in Idx : mbrCfg'[d] # Unused =>
            mbrCfg'[d].evid \in Vid /\ mbrCfg'[d].mbr = table'[mbrCfg'[d].evid].mbr
      BY <2>6 DEF MemberConfigsAgree
    <3>4. \A q \in AllPorts : mbrCfg'[pvidIdx'[q]] # Unused
      <4>1. mbrCfg'[pvidIdx'[p]] # Unused
        BY <1>2, <2>6, Sizes DEF Unused
      <4>2. \A q \in AllPorts \ {p} : mbrCfg'[pvidIdx'[q]] # Unused
        BY <2>8 DEF MemberConfigsAgree
      <4> QED BY <4>1, <4>2
    <3> QED BY <3>1, <3>2, <3>3, <3>4 DEF MemberConfigsAgree
  <2> QED BY <1>2, <2>5, <2>6, <2>9, <2>10
<1> QED BY <1>3, <1>4

\* A full table changes nothing: what is read back is what was known.
LEMMA TableFullKeeps ==
  ASSUME TypeOK, MemberConfigsAgree, NEW v \in Vid, TableFull(v)
  PROVE  UNCHANGED <<mbrCfg, pvidIdx, vlan_mbrCfgVid>>
BY Configured DEF TableFull

-----------------------------------------------------------------------------
(* The static entries                                                      *)

MembersAre ==
    /\ Members = [v \in DOMAIN Members |-> Members[v]]
    /\ DOMAIN Members = {v \in Vid : \E s \in Slot : slotVid[s] = v}
    /\ \A s \in Slot : slotVid[s] # -1 =>
            Members[slotVid[s]] = entry[s].members /\ entry[s].members \in Membership

LEMMA MembersLemma == TypeOK /\ IndexIsSorted => MembersAre
<1> SUFFICES ASSUME TypeOK, IndexIsSorted PROVE MembersAre
  OBVIOUS
<1> DEFINE D == {entry[sortedSlot[i]].vlan_id : i \in {j \in Slot : sortedSlot[j] # -1}}
           Is(v, s) == entry[s].vlan_id = v /\ \E i \in Slot : sortedSlot[i] = s
<1>1. D = {v \in Vid : \E s \in Slot : slotVid[s] = v}
  <2>1. ASSUME NEW v \in D PROVE v \in Vid /\ \E s \in Slot : slotVid[s] = v
    <3>1. PICK i \in Slot : sortedSlot[i] # -1 /\ v = entry[sortedSlot[i]].vlan_id
      BY <2>1
    <3>2. sortedSlot[i] \in Slot /\ slotVid[sortedSlot[i]] \in Vid
      BY <3>1, UsedSlots
    <3>3. v = slotVid[sortedSlot[i]]
      BY <3>1, <3>2, Sizes DEF IndexIsSorted
    <3> QED BY <3>2, <3>3
  <2>2. ASSUME NEW v \in Vid, NEW s \in Slot, slotVid[s] = v PROVE v \in D
    <3>1. slotVid[s] # -1 /\ s # -1
      BY <2>2, Sizes
    <3>2. PICK i \in Slot : sortedSlot[i] = s
      BY <3>1 DEF IndexIsSorted
    <3>3. entry[s].vlan_id = v
      BY <2>2, <3>1 DEF IndexIsSorted
    <3> QED BY <3>1, <3>2, <3>3
  <2> QED BY <2>1, <2>2
<1>2. Members = [v \in D |-> entry[CHOOSE s \in Slot : Is(v, s)].members]
  BY DEF Members
<1>3. ASSUME NEW s \in Slot, slotVid[s] # -1
      PROVE  Members[slotVid[s]] = entry[s].members /\ entry[s].members \in Membership
  <2>1. slotVid[s] \in Vid /\ entry[s].vlan_id = slotVid[s] /\ Is(slotVid[s], s)
    BY <1>3 DEF TypeOK, IndexIsSorted
  <2>2. \A t \in Slot : Is(slotVid[s], t) => t = s
    <3> SUFFICES ASSUME NEW t \in Slot, Is(slotVid[s], t) PROVE t = s
      OBVIOUS
    <3>1. slotVid[t] # -1 /\ entry[t].vlan_id = slotVid[t]
      BY DEF IndexIsSorted
    <3> QED BY <1>3, <3>1, UsedSlots
  <2>3. s = CHOOSE t \in Slot : Is(slotVid[s], t)
    BY <2>1, <2>2
  <2>4. entry[s] # NoEntry
    BY <2>1, Sizes DEF NoEntry
  <2>5. entry[s].members \in Membership
    BY <2>4 DEF TypeOK
  <2>6. slotVid[s] \in D
    BY <1>1, <2>1
  <2> HIDE DEF D, Is
  <2> QED BY <1>2, <2>3, <2>5, <2>6
<1>4. DOMAIN Members = D /\ Members = [v \in DOMAIN Members |-> Members[v]]
  <2> HIDE DEF D, Is
  <2> QED BY <1>2
<1> QED BY <1>1, <1>3, <1>4 DEF MembersAre

-----------------------------------------------------------------------------
(* The operations                                                          *)

LEMMA AskedFor ==
  ASSUME NEW m \in Membership
  PROVE  /\ OnChip(m) \in [mbr : SUBSET AllPorts, untag : SUBSET AllPorts]
         /\ OnChip(m).mbr # {}
         /\ NoVlan \in [mbr : SUBSET AllPorts, untag : SUBSET AllPorts]
BY VlanAssumption DEF OnChip, NoVlan, AllPorts

\* What Add does to the static entries is VlanStore's Put.
LEMMA AddKeeps ==
  ASSUME VInv, NEW v \in Vid, NEW m \in Membership, Add(v, m)
  PROVE  /\ VInv'
         /\ Members' = [w \in DOMAIN Members \cup {v} |-> IF w = v THEN m ELSE Members[w]]
<1> DEFINE j == SlotFor(v)
<1>1. /\ TypeOK /\ IndexIsSorted /\ MemberConfigsAgree /\ DefaultStays
      /\ ChipFollowsConfig /\ restoring = {}
      /\ UNCHANGED <<pvid, frameType, pvidIdx, accept, restoring>>
      /\ VlanSet(v, OnChip(m))
      /\ entry' = [entry EXCEPT ![j] = [vlan_id |-> v, members |-> m]]
  BY DEF VInv, Add
<1>2. j \in Slot /\ slotVid[j] = IF Listed(v) THEN v ELSE -1
  BY <1>1, SlotIs DEF Add
<1>3. /\ IndexIsSorted'
      /\ sortedSlot' \in [Slot -> Slot \cup {-1}] /\ slotVid' \in [Slot -> Vid \cup {-1}]
      /\ \A s \in Slot : slotVid'[s] = IF s = j THEN v ELSE slotVid[s]
  <2>1. CASE Listed(v)
    <3>1. UNCHANGED <<sortedSlot, slotVid>>
      BY <2>1 DEF Add
    <3>2. \A s \in Slot : slotVid[s] # -1 => entry'[s].vlan_id = slotVid[s]
      BY <1>1, <1>2, <2>1 DEF TypeOK, IndexIsSorted
    <3> QED BY <1>1, <1>2, <2>1, <3>1, <3>2 DEF TypeOK, IndexIsSorted
  <2>2. CASE ~Listed(v)
    BY <1>1, <2>2, InsertKeepsIndex DEF Add
  <2> QED BY <2>1, <2>2
<1>4. /\ MemberConfigsAgree'
      /\ table' \in [Vid -> [mbr : SUBSET AllPorts, untag : SUBSET AllPorts]]
      /\ mbrCfg' \in [Idx -> [evid : Vid \cup {0}, mbr : SUBSET AllPorts]]
      /\ vlan_mbrCfgVid' \in [Idx -> Vid \cup {0}]
      /\ \A p \in AllPorts : PvidGet(p)' = PvidGet(p)
  BY <1>1, AskedFor, VlanSetKeeps
<1>5. TypeOK'
  <2>1. entry' \in [Slot -> [vlan_id : Vid, members : Membership] \cup {NoEntry}]
    BY <1>1, <1>2 DEF TypeOK
  <2> QED BY <1>1, <1>3, <1>4, <2>1 DEF TypeOK
<1>6. MembersAre /\ MembersAre'
  BY <1>1, <1>3, <1>5, MembersLemma, PTL
<1>7. /\ DOMAIN Members' = DOMAIN Members \cup {v}
      /\ \A w \in DOMAIN Members' : Members'[w] = IF w = v THEN m ELSE Members[w]
  <2>1. entry'[j] = [vlan_id |-> v, members |-> m]
        /\ \A s \in Slot \ {j} : entry'[s] = entry[s]
    BY <1>1, <1>2 DEF TypeOK
  <2>2. \A w \in Vid : (\E s \in Slot : slotVid'[s] = w) <=> w = v \/ \E s \in Slot : slotVid[s] = w
    BY <1>2, <1>3, Sizes
  <2>3. DOMAIN Members' = DOMAIN Members \cup {v}
    BY <1>6, <2>2 DEF MembersAre
  <2>4. Members'[v] = m
    BY <1>2, <1>3, <1>6, <2>1, Sizes DEF MembersAre
  <2>5. ASSUME NEW w \in DOMAIN Members, w # v PROVE Members'[w] = Members[w]
    <3>1. PICK s \in Slot : slotVid[s] = w /\ w \in Vid
      BY <1>6, <2>5 DEF MembersAre
    <3>2. s # j /\ slotVid'[s] = w /\ w # -1
      BY <1>2, <1>3, <2>5, <3>1, Sizes
    <3>3. Members[w] = entry[s].members /\ Members'[w] = entry'[s].members
      BY <1>6, <3>1, <3>2 DEF MembersAre
    <3> QED BY <2>1, <3>2, <3>3
  <2> QED BY <2>3, <2>4, <2>5
<1>8. Members' = [w \in DOMAIN Members \cup {v} |-> IF w = v THEN m ELSE Members[w]]
  BY <1>6, <1>7 DEF MembersAre
<1>9. DefaultStays'
  <2>1. PICK s \in Slot : slotVid[s] = 1
    BY <1>1 DEF DefaultStays
  <2>2. slotVid'[s] = 1
    BY <1>2, <1>3, <2>1
  <2>3. \A p \in Port \ PagePort : pvid'[p] = 1 /\ PvidGet(p)' = 1
    BY <1>1, <1>4 DEF DefaultStays, AllPorts
  <2>4. PvidGet(CpuPort)' = 1
    BY <1>1, <1>4 DEF DefaultStays, AllPorts
  <2> QED BY <2>2, <2>3, <2>4 DEF DefaultStays
<1>10. ChipFollowsConfig'
  <2>1. \A w \in Vid : table'[w] = IF w = v THEN OnChip(m) ELSE table[w]
    BY <1>1 DEF VlanSet, TypeOK
  <2>2. \A w \in Vid : table'[w] = IF w \in DOMAIN Members' THEN OnChip(Members'[w]) ELSE NoVlan
    BY <1>1, <1>7, <2>1 DEF ChipFollowsConfig
  <2>3. \A p \in Port \ restoring' : PvidGet(p)' = pvid'[p] /\ accept'[p] = frameType'[p]
    BY <1>1, <1>4 DEF ChipFollowsConfig, AllPorts
  <2>4. PvidGet(CpuPort)' = 1
    BY <1>9 DEF DefaultStays
  <2>5. \A w \in Vid : (OnChip(Members[w]))' = OnChip(Members'[w])
    BY DEF OnChip
  <2> QED BY <2>2, <2>3, <2>4, <2>5 DEF ChipFollowsConfig
<1>11. RoomLeft'
  BY <1>1 DEF RoomLeft
<1> QED BY <1>3, <1>4, <1>5, <1>8, <1>9, <1>10, <1>11 DEF VInv

\* VLAN 1 is the PVID of a port the pages do not show, and so it stays.
LEMMA RemoveKeeps ==
  ASSUME VInv, NEW v \in Vid, Remove(v)
  PROVE  /\ VInv'
         /\ v \in DOMAIN Members \ {1}
         /\ Members' = [w \in DOMAIN Members \ {v} |-> Members[w]]
<1> DEFINE j == SlotFor(v)
<1>1. /\ TypeOK /\ IndexIsSorted /\ MemberConfigsAgree /\ DefaultStays
      /\ ChipFollowsConfig /\ restoring = {}
      /\ UNCHANGED <<pvid, frameType, pvidIdx, accept, restoring>>
      /\ ~PvidExists(v) /\ Listed(v) /\ VlanSet(v, NoVlan) /\ DbDel(v)
      /\ entry' = [entry EXCEPT ![j] = NoEntry]
  BY DEF VInv, Remove
<1>2. PICK q \in Port \ PagePort : PvidGet(q) = 1
  BY <1>1, VlanAssumption DEF DefaultStays
<1>3. v # 1 /\ \A p \in AllPorts : PvidGet(p) # v
  BY <1>1, <1>2 DEF PvidExists, DefaultStays, AllPorts
<1>4. /\ IndexIsSorted'
      /\ sortedSlot' \in [Slot -> Slot \cup {-1}] /\ slotVid' \in [Slot -> Vid \cup {-1}]
      /\ j \in Slot /\ slotVid[j] = v
      /\ \A s \in Slot : slotVid'[s] = IF s = j THEN -1 ELSE slotVid[s]
  BY <1>1, DeleteKeepsIndex
<1>5. /\ MemberConfigsAgree'
      /\ table' \in [Vid -> [mbr : SUBSET AllPorts, untag : SUBSET AllPorts]]
      /\ mbrCfg' \in [Idx -> [evid : Vid \cup {0}, mbr : SUBSET AllPorts]]
      /\ vlan_mbrCfgVid' \in [Idx -> Vid \cup {0}]
      /\ \A p \in AllPorts : PvidGet(p)' = PvidGet(p)
  <2>1. NoVlan \in [mbr : SUBSET AllPorts, untag : SUBSET AllPorts]
    BY DEF NoVlan
  <2> QED BY <1>1, <1>3, <2>1, VlanSetKeeps
<1>6. TypeOK'
  <2>1. entry' \in [Slot -> [vlan_id : Vid, members : Membership] \cup {NoEntry}]
    BY <1>1, <1>4 DEF TypeOK
  <2> QED BY <1>1, <1>4, <1>5, <2>1 DEF TypeOK
<1>7. MembersAre /\ MembersAre'
  BY <1>1, <1>4, <1>6, MembersLemma, PTL
<1>8. v \in DOMAIN Members
  BY <1>4, <1>7 DEF MembersAre
<1>9. /\ DOMAIN Members' = DOMAIN Members \ {v}
      /\ \A w \in DOMAIN Members' : Members'[w] = Members[w]
  <2>1. \A s \in Slot \ {j} : entry'[s] = entry[s]
    BY <1>1, <1>4 DEF TypeOK
  <2>2. \A w \in Vid : (\E s \in Slot : slotVid'[s] = w) <=> w # v /\ \E s \in Slot : slotVid[s] = w
    BY <1>1, <1>4, UsedSlots, Sizes
  <2>3. DOMAIN Members' = DOMAIN Members \ {v}
    BY <1>7, <2>2 DEF MembersAre
  <2>4. ASSUME NEW w \in DOMAIN Members, w # v PROVE Members'[w] = Members[w]
    <3>1. PICK s \in Slot : slotVid[s] = w /\ w \in Vid
      BY <1>7, <2>4 DEF MembersAre
    <3>2. s # j /\ slotVid'[s] = w /\ w # -1
      BY <1>4, <2>4, <3>1, Sizes
    <3>3. Members[w] = entry[s].members /\ Members'[w] = entry'[s].members
      BY <1>7, <3>1, <3>2 DEF MembersAre
    <3> QED BY <2>1, <3>2, <3>3
  <2> QED BY <2>3, <2>4
<1>10. Members' = [w \in DOMAIN Members \ {v} |-> Members[w]]
  BY <1>7, <1>9 DEF MembersAre
<1>11. DefaultStays'
  <2>1. PICK s \in Slot : slotVid[s] = 1
    BY <1>1 DEF DefaultStays
  <2>2. slotVid'[s] = 1
    BY <1>3, <1>4, <2>1
  <2>3. \A p \in Port \ PagePort : pvid'[p] = 1 /\ PvidGet(p)' = 1
    BY <1>1, <1>5 DEF DefaultStays, AllPorts
  <2>4. PvidGet(CpuPort)' = 1
    BY <1>1, <1>5 DEF DefaultStays, AllPorts
  <2> QED BY <2>2, <2>3, <2>4 DEF DefaultStays
<1>12. ChipFollowsConfig'
  <2>1. \A w \in Vid : table'[w] = IF w = v THEN NoVlan ELSE table[w]
    BY <1>1 DEF VlanSet, TypeOK
  <2>2. \A w \in Vid : table'[w] = IF w \in DOMAIN Members' THEN OnChip(Members'[w]) ELSE NoVlan
    BY <1>1, <1>9, <2>1 DEF ChipFollowsConfig
  <2>3. \A p \in Port \ restoring' : PvidGet(p)' = pvid'[p] /\ accept'[p] = frameType'[p]
    BY <1>1, <1>5 DEF ChipFollowsConfig, AllPorts
  <2>4. PvidGet(CpuPort)' = 1
    BY <1>11 DEF DefaultStays
  <2>5. \A w \in Vid : (OnChip(Members[w]))' = OnChip(Members'[w])
    BY DEF OnChip
  <2> QED BY <2>2, <2>3, <2>4, <2>5 DEF ChipFollowsConfig
<1>13. RoomLeft'
  BY <1>1 DEF RoomLeft
<1> QED BY <1>3, <1>4, <1>5, <1>6, <1>8, <1>10, <1>11, <1>12, <1>13 DEF VInv

\* What the cache says of the VLANs, and the chip's table, stay.
LEMMA SameEntries ==
  ASSUME TypeOK, IndexIsSorted, UNCHANGED <<sortedSlot, slotVid, entry>>
  PROVE  IndexIsSorted' /\ Members' = Members
BY DEF IndexIsSorted, Members

LEMMA SetPortKeeps ==
  ASSUME VInv, NEW p \in PagePort, NEW v \in Vid, NEW t \in FrameType, SetPort(p, v, t)
  PROVE  /\ VInv'
         /\ Members' = Members
         /\ pvid' = [pvid EXCEPT ![p] = v] \/ UNCHANGED pvid
<1>1. /\ TypeOK /\ IndexIsSorted /\ MemberConfigsAgree /\ DefaultStays
      /\ ChipFollowsConfig /\ restoring = {}
      /\ UNCHANGED <<sortedSlot, slotVid, entry, table, restoring>>
  BY DEF VInv, SetPort
<1>2. IndexIsSorted' /\ Members' = Members
  BY <1>1, SameEntries
<1>3. p \in Port /\ p \in AllPorts /\ CpuPort \in AllPorts /\ p # CpuPort
  BY VlanAssumption DEF AllPorts
<1>4. RoomLeft'
  BY <1>1 DEF RoomLeft
<1>5. CASE /\ PvidSet(p, v)
           /\ pvid' = [pvid EXCEPT ![p] = v]
           /\ frameType' = [frameType EXCEPT ![p] = t]
           /\ accept' = [accept EXCEPT ![p] = t]
  <2>1. /\ MemberConfigsAgree'
        /\ mbrCfg' \in [Idx -> [evid : Vid \cup {0}, mbr : SUBSET AllPorts]]
        /\ vlan_mbrCfgVid' \in [Idx -> Vid \cup {0}]
        /\ pvidIdx' \in [AllPorts -> Idx]
        /\ PvidGet(p)' = v /\ \A q \in AllPorts \ {p} : PvidGet(q)' = PvidGet(q)
    BY <1>1, <1>3, <1>5, PvidSetKeeps
  <2>2. TypeOK'
    BY <1>1, <1>3, <1>5, <2>1 DEF TypeOK
  <2>3. DefaultStays'
    BY <1>1, <1>3, <1>5, <2>1 DEF DefaultStays, AllPorts, TypeOK
  <2>4. ChipFollowsConfig'
    <3>1. \A w \in Vid : table'[w] = IF w \in DOMAIN Members' THEN OnChip(Members'[w]) ELSE NoVlan
      BY <1>1, <1>2 DEF ChipFollowsConfig
    <3>2. \A q \in Port \ restoring' : PvidGet(q)' = pvid'[q] /\ accept'[q] = frameType'[q]
      BY <1>1, <1>3, <1>5, <2>1 DEF ChipFollowsConfig, AllPorts, TypeOK
    <3>3. PvidGet(CpuPort)' = 1
      BY <2>3 DEF DefaultStays
    <3>4. \A w \in Vid : (OnChip(Members[w]))' = OnChip(Members'[w])
      BY DEF OnChip
    <3> QED BY <3>1, <3>2, <3>3, <3>4 DEF ChipFollowsConfig
  <2> QED BY <1>2, <1>4, <1>5, <2>1, <2>2, <2>3, <2>4 DEF VInv
<1>6. CASE TableFull(v) /\ UNCHANGED <<pvid, frameType, accept>>
  <2>1. UNCHANGED <<mbrCfg, pvidIdx, vlan_mbrCfgVid>>
    BY <1>1, <1>6, TableFullKeeps
  <2> QED BY <1>1, <1>2, <1>4, <1>6, <2>1
          DEF VInv, TypeOK, MemberConfigsAgree, DefaultStays, ChipFollowsConfig, PvidGet, OnChip
<1> QED BY <1>5, <1>6 DEF SetPort

LEMMA RestartKeeps ==
  ASSUME VInv, Restart
  PROVE  VInv' /\ Members' = Members /\ UNCHANGED pvid
<1>1. /\ TypeOK /\ IndexIsSorted /\ MemberConfigsAgree /\ DefaultStays
      /\ UNCHANGED <<sortedSlot, slotVid, entry, pvid, frameType>>
  BY DEF VInv, Restart, cacheVars
<1>2. IndexIsSorted' /\ Members' = Members
  BY <1>1, SameEntries
<1>3. 0 \in Idx /\ CpuPort \in AllPorts
  BY <1>1, VlanAssumption DEF TypeOK, Idx, AllPorts
<1>4. MembersAre
  BY <1>1, MembersLemma
<1>5. 1 \in DOMAIN Members /\ \A w \in DOMAIN Members : Members[w] \in Membership
  <2>1. ASSUME NEW w \in DOMAIN Members PROVE Members[w] \in Membership
    <3>1. PICK s \in Slot : slotVid[s] = w /\ w \in Vid
      BY <1>4, <2>1 DEF MembersAre
    <3> QED BY <1>4, <3>1, Sizes DEF MembersAre
  <2> QED BY <1>1, <1>4, <2>1, Sizes DEF MembersAre, DefaultStays
<1>6. /\ table' = [w \in Vid |-> IF w \in DOMAIN Members THEN OnChip(Members[w]) ELSE NoVlan]
      /\ table' \in [Vid -> [mbr : SUBSET AllPorts, untag : SUBSET AllPorts]]
  <2>1. table' = [w \in Vid |-> IF w \in DOMAIN Members THEN OnChip(Members[w]) ELSE NoVlan]
    BY <1>5 DEF Restart, Restored
  <2>2. NoVlan \in [mbr : SUBSET AllPorts, untag : SUBSET AllPorts]
    BY DEF NoVlan
  <2>3. \A w \in DOMAIN Members :
            OnChip(Members[w]) \in [mbr : SUBSET AllPorts, untag : SUBSET AllPorts]
    BY <1>5, AskedFor
  <2> QED BY <2>1, <2>2, <2>3
<1>7. /\ mbrCfg' = [c \in Idx |-> IF c = 0 THEN [evid |-> 1, mbr |-> table'[1].mbr] ELSE Unused]
      /\ vlan_mbrCfgVid' = [c \in Idx |-> IF c = 0 THEN 1 ELSE 0]
      /\ pvidIdx' = [p \in AllPorts |-> 0]
      /\ accept' = [p \in Port |-> AllFrames] /\ restoring' = Port
  BY DEF Restart, Restored
<1>8. TypeOK'
  <2>1. table'[1].mbr \in SUBSET AllPorts
    BY <1>6, Sizes
  <2>2. mbrCfg' \in [Idx -> [evid : Vid \cup {0}, mbr : SUBSET AllPorts]]
    BY <1>7, <2>1, Sizes DEF Unused
  <2>3. vlan_mbrCfgVid' \in [Idx -> Vid \cup {0}] /\ pvidIdx' \in [AllPorts -> Idx]
    BY <1>3, <1>7, Sizes
  <2>4. accept' \in [Port -> FrameType] /\ restoring' \subseteq Port
    BY <1>7, VlanAssumption
  <2> QED BY <1>1, <1>6, <2>2, <2>3, <2>4 DEF TypeOK
<1>9. \A p \in AllPorts : PvidGet(p)' = 1 /\ mbrCfg'[pvidIdx'[p]] # Unused
  BY <1>3, <1>7 DEF PvidGet, Unused
<1>10. MemberConfigsAgree'
  BY <1>7, <1>9, Sizes DEF MemberConfigsAgree, Unused
<1>11. DefaultStays'
  BY <1>1, <1>3, <1>9 DEF DefaultStays, AllPorts
<1>12. RoomLeft'
  BY <1>7 DEF RoomLeft, Unused
<1>13. ChipFollowsConfig'
  <2>1. \A w \in Vid : (OnChip(Members[w]))' = OnChip(Members'[w])
    BY DEF OnChip
  <2> QED BY <1>2, <1>3, <1>6, <1>7, <1>9, <2>1 DEF ChipFollowsConfig
<1> QED BY <1>1, <1>2, <1>8, <1>10, <1>11, <1>12, <1>13 DEF VInv

\* Until all ports have their PVID back, a member configuration is free or is
\* the one this port needs.
LEMMA NeverFull ==
  ASSUME VInv, NEW p \in restoring, TableFull(pvid[p])
  PROVE  FALSE
<1>1. /\ TypeOK /\ MemberConfigsAgree /\ DefaultStays /\ RoomLeft /\ p \in Port
      /\ ReadBack = vlan_mbrCfgVid
  BY Configured DEF VInv, TypeOK
<1>2. \A c \in Idx : mbrCfg[c].evid # 0 /\ mbrCfg[c].evid # pvid[p]
  BY DEF TableFull, Has, ReadBack
<1>3. p \in PagePort
  <2>1. pvidIdx[CpuPort] \in Idx /\ mbrCfg[pvidIdx[CpuPort]].evid = 1
    BY <1>1, Configured DEF DefaultStays, PvidGet, AllPorts
  <2> QED BY <1>1, <1>2, <2>1 DEF DefaultStays
<1> DEFINE T == (PagePort \ {p}) \cup {CpuPort}
           f == [c \in Idx |-> IF mbrCfg[c].evid = 1 THEN CpuPort
                               ELSE CHOOSE q \in PagePort : pvid[q] = mbrCfg[c].evid]
<1>4. ASSUME NEW c \in Idx
      PROVE  /\ f[c] \in T
             /\ mbrCfg[c].evid = 1 <=> f[c] = CpuPort
             /\ f[c] # CpuPort => pvid[f[c]] = mbrCfg[c].evid
  <2>1. CpuPort \notin PagePort
    BY VlanAssumption
  <2>2. CASE mbrCfg[c].evid = 1
    BY <2>2
  <2>3. CASE mbrCfg[c].evid # 1
    <3>1. PICK q \in PagePort : pvid[q] = mbrCfg[c].evid
      BY <1>1, <1>2, <2>3 DEF RoomLeft
    <3>2. f[c] \in PagePort /\ pvid[f[c]] = mbrCfg[c].evid
      BY <2>3, <3>1
    <3> QED BY <1>2, <2>1, <2>3, <3>2
  <2> QED BY <2>2, <2>3
<1>5. f \in [Idx -> T]
  BY <1>4
<1>6. IsFiniteSet(PagePort)
  BY VlanAssumption, FS_Subset
<1>7. IsFiniteSet(PagePort \ {p}) /\ Cardinality(PagePort \ {p}) = Cardinality(PagePort) - 1
  BY <1>3, <1>6, FS_RemoveElement
<1>8. CpuPort \notin PagePort \ {p}
  BY VlanAssumption
<1>9. IsFiniteSet(T) /\ Cardinality(T) = Cardinality(PagePort \ {p}) + 1
  BY <1>7, <1>8, FS_AddElement
<1>10. Cardinality(PagePort) \in Nat
  BY <1>6, FS_CardinalityType
<1>11. IsFiniteSet(Idx) /\ Cardinality(Idx) = CvidxNo
  <2>1. CvidxNo \in Nat /\ CvidxNo > 0
    BY <1>10, VlanAssumption, RoomAssumption
  <2> QED BY <2>1, FS_Interval DEF Idx
<1>12. Cardinality(T) < Cardinality(Idx)
  BY <1>7, <1>9, <1>10, <1>11, RoomAssumption
<1>13. PICK c \in Idx, d \in Idx : c # d /\ f[c] = f[d]
  <2> HIDE DEF f, T
  <2> QED BY <1>5, <1>9, <1>11, <1>12, FS_PigeonHole
<1>14. mbrCfg[c].evid = mbrCfg[d].evid
  BY <1>4, <1>13
<1> QED BY <1>1, <1>2, <1>13, <1>14 DEF MemberConfigsAgree

LEMMA RestorePortKeeps ==
  ASSUME VInv, RestorePort
  PROVE  VInv' /\ Members' = Members /\ UNCHANGED pvid
<1>1. /\ TypeOK /\ IndexIsSorted /\ MemberConfigsAgree /\ DefaultStays /\ RoomLeft
      /\ ChipFollowsConfig
      /\ UNCHANGED <<sortedSlot, slotVid, entry, pvid, frameType, table>>
  BY DEF VInv, RestorePort, cacheVars
<1>2. PICK p \in restoring : /\ PvidSet(p, pvid[p]) \/ TableFull(pvid[p])
                             /\ accept' = [accept EXCEPT ![p] = frameType[p]]
                             /\ restoring' = restoring \ {p}
  BY DEF RestorePort
<1>3. p \in Port /\ p \in AllPorts /\ CpuPort \in AllPorts /\ p # CpuPort /\ pvid[p] \in Vid
  BY <1>1, VlanAssumption DEF AllPorts, TypeOK
<1>4. PvidSet(p, pvid[p])
  BY <1>2, NeverFull
<1>5. IndexIsSorted' /\ Members' = Members
  BY <1>1, SameEntries
<1>6. /\ MemberConfigsAgree'
      /\ mbrCfg' \in [Idx -> [evid : Vid \cup {0}, mbr : SUBSET AllPorts]]
      /\ vlan_mbrCfgVid' \in [Idx -> Vid \cup {0}]
      /\ pvidIdx' \in [AllPorts -> Idx]
      /\ PvidGet(p)' = pvid[p] /\ \A q \in AllPorts \ {p} : PvidGet(q)' = PvidGet(q)
      /\ \A c \in Idx : mbrCfg'[c].evid \in {mbrCfg[c].evid, pvid[p]}
  BY <1>1, <1>3, <1>4, PvidSetKeeps
<1>7. TypeOK'
  BY <1>1, <1>2, <1>3, <1>6 DEF TypeOK
<1>8. DefaultStays'
  BY <1>1, <1>3, <1>6 DEF DefaultStays, AllPorts
<1>9. RoomLeft'
  <2>1. pvid[p] \in {0, 1} \cup {pvid[q] : q \in PagePort}
    BY <1>1, <1>3 DEF DefaultStays
  <2> QED BY <1>1, <1>6, <2>1 DEF RoomLeft
<1>10. ChipFollowsConfig'
  <2>1. \A w \in Vid : table'[w] = IF w \in DOMAIN Members' THEN OnChip(Members'[w]) ELSE NoVlan
    BY <1>1, <1>5 DEF ChipFollowsConfig
  <2>2. \A q \in Port \ restoring' : PvidGet(q)' = pvid'[q] /\ accept'[q] = frameType'[q]
    BY <1>1, <1>2, <1>3, <1>6 DEF ChipFollowsConfig, AllPorts, TypeOK
  <2>3. PvidGet(CpuPort)' = 1
    BY <1>8 DEF DefaultStays
  <2>4. \A w \in Vid : (OnChip(Members[w]))' = OnChip(Members'[w])
    BY DEF OnChip
  <2> QED BY <2>1, <2>2, <2>3, <2>4 DEF ChipFollowsConfig
<1> QED BY <1>1, <1>5, <1>6, <1>7, <1>8, <1>9, <1>10 DEF VInv

LEMMA InitHolds ==
  ASSUME Init
  PROVE  VInv /\ Members = [w \in {1} |-> Default]
<1>1. 0 \in Idx /\ Default \in Membership
  <2>1. IsFiniteSet(PagePort)
    BY VlanAssumption, FS_Subset
  <2>2. Cardinality(PagePort) \in Nat
    BY <2>1, FS_CardinalityType
  <2> QED BY <2>2, VlanAssumption, RoomAssumption DEF Idx, Default
<1>2. /\ \A i \in Slot : sortedSlot[i] = IF i = 0 THEN 0 ELSE -1
      /\ \A s \in Slot : slotVid[s] = IF s = 0 THEN 1 ELSE -1
      /\ \A s \in Slot : entry[s] = IF s = 0 THEN [vlan_id |-> 1, members |-> Default] ELSE NoEntry
  BY DEF Init
<1>3. IndexIsSorted
  <2>1. \A i \in Slot, j \in Slot : i < j => sortedSlot[j] = -1
    BY <1>2, Sizes
  <2>2. \A s \in Slot : slotVid[s] # -1 <=> s = 0
    BY <1>2, Sizes
  <2>3. \A s \in Slot : (\E i \in Slot : sortedSlot[i] = s) <=> s = 0
    BY <1>2, Sizes
  <2>4. entry[0].vlan_id = slotVid[0]
    BY <1>2, Sizes
  <2> QED BY <2>1, <2>2, <2>3, <2>4 DEF IndexIsSorted
<1>4. OnChip(Default) = [mbr |-> AllPorts, untag |-> Port]
  BY DEF OnChip, Default, AllPorts
<1>5. TypeOK
  <2>1. sortedSlot \in [Slot -> Slot \cup {-1}] /\ slotVid \in [Slot -> Vid \cup {-1}]
    BY Sizes DEF Init
  <2>2. entry \in [Slot -> [vlan_id : Vid, members : Membership] \cup {NoEntry}]
    BY <1>1, Sizes DEF Init
  <2>3. table \in [Vid -> [mbr : SUBSET AllPorts, untag : SUBSET AllPorts]]
    BY <1>4 DEF Init, NoVlan, AllPorts
  <2>4. mbrCfg \in [Idx -> [evid : Vid \cup {0}, mbr : SUBSET AllPorts]]
    BY Sizes DEF Init, Unused
  <2>5. vlan_mbrCfgVid \in [Idx -> Vid \cup {0}] /\ pvidIdx \in [AllPorts -> Idx]
    BY <1>1, Sizes DEF Init
  <2>6. /\ pvid \in [Port -> Vid] /\ frameType \in [Port -> FrameType]
        /\ accept \in [Port -> FrameType] /\ restoring \subseteq Port
    BY VlanAssumption DEF Init
  <2> QED BY <2>1, <2>2, <2>3, <2>4, <2>5, <2>6 DEF TypeOK
<1>6. MembersAre
  BY <1>3, <1>5, MembersLemma
<1>7. Members = [w \in {1} |-> Default]
  <2>1. DOMAIN Members = {1}
    BY <1>2, <1>6, Sizes DEF MembersAre
  <2>2. Members[1] = Default
    BY <1>2, <1>6, Sizes DEF MembersAre
  <2> QED BY <1>6, <2>1, <2>2 DEF MembersAre
<1>8. \A p \in AllPorts : PvidGet(p) = 1 /\ mbrCfg[pvidIdx[p]] # Unused
  BY <1>1 DEF Init, PvidGet, Unused
<1>9. table[1].mbr = AllPorts
  BY <1>4, Sizes DEF Init
<1>10. MemberConfigsAgree
  <2>1. \A c \in Idx : mbrCfg[c] = IF c = 0 THEN [evid |-> 1, mbr |-> AllPorts] ELSE Unused
    BY DEF Init
  <2>2. \A c \in Idx : vlan_mbrCfgVid[c] = IF c = 0 THEN 1 ELSE 0
    BY DEF Init
  <2> QED BY <1>8, <1>9, <2>1, <2>2, Sizes DEF MemberConfigsAgree, Unused
<1>11. DefaultStays
  BY <1>2, <1>8, Sizes DEF Init, DefaultStays, AllPorts
<1>12. RoomLeft
  BY DEF Init, RoomLeft
<1>13. ChipFollowsConfig
  <2>1. \A v \in Vid : table[v] = IF v \in DOMAIN Members THEN OnChip(Members[v]) ELSE NoVlan
    BY <1>7 DEF Init
  <2> QED BY <1>8, <2>1 DEF Init, ChipFollowsConfig, AllPorts
<1> QED BY <1>3, <1>5, <1>7, <1>10, <1>11, <1>12, <1>13 DEF VInv

LEMMA StepKeeps ==
  ASSUME VInv, [Next]_vars
  PROVE  VInv'
<1>1. CASE \E v \in Vid, m \in Membership : Add(v, m)
  BY <1>1, AddKeeps
<1>2. CASE \E v \in Vid : Remove(v)
  BY <1>2, RemoveKeeps
<1>3. CASE \E p \in PagePort, v \in Vid, t \in FrameType : SetPort(p, v, t)
  BY <1>3, SetPortKeeps
<1>4. CASE Restart
  BY <1>4, RestartKeeps
<1>5. CASE RestorePort
  BY <1>5, RestorePortKeeps
<1>6. CASE UNCHANGED vars
  <2>1. /\ UNCHANGED <<sortedSlot, slotVid, entry, pvid, frameType>>
        /\ UNCHANGED <<table, mbrCfg, pvidIdx, accept, vlan_mbrCfgVid, restoring>>
    BY <1>6 DEF vars, cacheVars, chipVars
  <2>2. TypeOK' /\ MemberConfigsAgree'
    BY <2>1 DEF VInv, TypeOK, MemberConfigsAgree
  <2>3. IndexIsSorted' /\ Members' = Members
    BY <2>1, SameEntries DEF VInv
  <2>4. DefaultStays' /\ RoomLeft'
    BY <2>1 DEF VInv, DefaultStays, RoomLeft, PvidGet
  <2>5. ChipFollowsConfig'
    BY <2>1, <2>3 DEF VInv, ChipFollowsConfig, PvidGet, OnChip
  <2> QED BY <2>2, <2>3, <2>4, <2>5 DEF VInv
<1> QED BY <1>1, <1>2, <1>3, <1>4, <1>5, <1>6 DEF Next

LEMMA VlanInvariant == Spec => []VInv
<1>1. Init => VInv
  BY InitHolds
<1>2. VInv /\ [Next]_vars => VInv'
  BY StepKeeps
<1> QED BY <1>1, <1>2, PTL DEF Spec

\* Every variable has its type: the slots that the search, the insertion and
\* the removal of sal_vlan_db_* give are slots of the table.
THEOREM VlanTypeCorrect == Spec => []TypeOK
<1>1. VInv => TypeOK
  BY DEF VInv
<1> QED BY <1>1, VlanInvariant, PTL

\* The index of sal_vlan_db_* stays sorted and without a gap and lists each
\* slot in use once.
THEOREM IndexStaysSorted == Spec => []IndexIsSorted
<1>1. VInv => IndexIsSorted
  BY DEF VInv
<1> QED BY <1>1, VlanInvariant, PTL

\* The driver's copy, the member configurations and the table agree, and no
\* PVID stands for a member configuration that was given up.
THEOREM MemberConfigsStay == Spec => []MemberConfigsAgree
<1>1. VInv => MemberConfigsAgree
  BY DEF VInv
<1> QED BY <1>1, VlanInvariant, PTL

\* The chip has the members of each VLAN and the PVID of each port that the
\* configuration has, and a restart always finds a member configuration.
THEOREM ChipFollows == Spec => []ChipFollowsConfig
<1>1. VInv => ChipFollowsConfig
  BY DEF VInv
<1> QED BY <1>1, VlanInvariant, PTL

-----------------------------------------------------------------------------
(* What VlanStore promises                                                 *)

\* A slot is vacant for a new VLAN exactly as long as there are fewer than MAX.
LEMMA RoomIsCounted ==
  ASSUME TypeOK, IndexIsSorted, NEW v \in Vid, HasRoom(v)
  PROVE  v \in DOMAIN Members \/ Cardinality(DOMAIN Members) < MAX
<1> SUFFICES ASSUME v \notin DOMAIN Members
             PROVE  Cardinality(DOMAIN Members) < MAX
  OBVIOUS
<1>1. MembersAre
  BY MembersLemma
<1>2. ~Listed(v)
  BY <1>1, ListedIs DEF MembersAre
<1>3. SlotFor(v) \in Slot /\ slotVid[SlotFor(v)] = -1
  BY <1>2, SlotIs
<1> DEFINE D == DOMAIN Members
           T == Slot \ {SlotFor(v)}
           f == [w \in D |-> CHOOSE s \in Slot : slotVid[s] = w]
<1>4. \A w \in D : f[w] \in T /\ slotVid[f[w]] = w
  <2> TAKE w \in D
  <2>1. \E s \in Slot : slotVid[s] = w
    BY <1>1 DEF MembersAre
  <2>2. w # -1
    BY <1>1, Sizes DEF MembersAre
  <2>3. f[w] \in Slot /\ slotVid[f[w]] = w
    BY <2>1
  <2> QED BY <1>3, <2>2, <2>3
<1>5. f \in Injection(D, T)
  <2>1. f \in [D -> T]
    BY <1>4
  <2>2. \A a, b \in D : f[a] = f[b] => a = b
    BY <1>4, Zenon
  <2>3. DOMAIN f = D
    OBVIOUS
  <2> HIDE DEF f, D, T
  <2> QED BY <2>1, <2>2, <2>3 DEF Injection, IsInjective
<1>6. IsFiniteSet(Slot) /\ Cardinality(Slot) = MAX
  <2>1. MAX - 1 \in Int /\ ~(0 > MAX - 1) /\ (MAX - 1) - 0 + 1 = MAX
    BY Sizes
  <2> QED BY <2>1, FS_Interval DEF Slot
<1>7. IsFiniteSet(T) /\ Cardinality(T) = MAX - 1
  BY <1>3, <1>6, FS_RemoveElement
<1>8. IsFiniteSet(D) /\ Cardinality(D) =< Cardinality(T)
  <2> HIDE DEF f, D, T
  <2> QED BY <1>5, <1>7, FS_Injection
<1>9. Cardinality(D) \in Nat
  BY <1>8, FS_CardinalityType
<1> QED BY <1>7, <1>8, <1>9, Sizes

\* The pages keep VlanStore's promise: each operation is one of its operations
\* on the VLANs and the PVIDs, or changes neither, as a restart does.
THEOREM VlansAreStored == Spec => ImplementsStore
<1>1. Init => Store!StoreInit
  BY InitHolds, VlanAssumption DEF Init, Store!StoreInit, Default
<1>2. VInv /\ [Next]_vars => [Store!StoreNext]_<<Members, pvid>>
  <2> SUFFICES ASSUME VInv, [Next]_vars PROVE [Store!StoreNext]_<<Members, pvid>>
    OBVIOUS
  <2>1. ASSUME NEW v \in Vid, NEW m \in Membership, Add(v, m)
        PROVE  Store!Put(v, m)
    <3>1. v \in DOMAIN Members \/ Cardinality(DOMAIN Members) < MAX
      BY <2>1, RoomIsCounted DEF VInv, Add
    <3>2. Members' = [w \in DOMAIN Members \cup {v} |-> IF w = v THEN m ELSE Members[w]]
      BY <2>1, AddKeeps
    <3>3. UNCHANGED pvid
      BY <2>1 DEF Add
    <3>4. Store!Cardinality(DOMAIN Members) = Cardinality(DOMAIN Members)
      BY DEF Store!Cardinality, Cardinality
    <3> QED BY <3>1, <3>2, <3>3, <3>4 DEF Store!Put
  <2>2. ASSUME NEW v \in Vid, Remove(v)
        PROVE  Store!Drop(v)
    <3>1. /\ v \in DOMAIN Members \ {1}
          /\ Members' = [w \in DOMAIN Members \ {v} |-> Members[w]]
      BY <2>2, RemoveKeeps
    <3>2. \A p \in Port : pvid[p] # v
      <4>1. \A p \in Port : PvidGet(p) = pvid[p]
        BY <2>2 DEF VInv, ChipFollowsConfig, Remove
      <4> QED BY <2>2, <4>1 DEF Remove, PvidExists
    <3> QED BY <2>2, <3>1, <3>2 DEF Remove, Store!Drop
  <2>3. ASSUME NEW p \in PagePort, NEW v \in Vid, NEW t \in FrameType, SetPort(p, v, t)
        PROVE  Store!SetDefault(p, v) \/ UNCHANGED <<Members, pvid>>
    BY <2>3, SetPortKeeps DEF Store!SetDefault
  <2>4. CASE Restart
    BY <2>4, RestartKeeps
  <2>5. CASE RestorePort
    BY <2>5, RestorePortKeeps
  <2>6. CASE UNCHANGED vars
    BY <2>6 DEF Members, vars, cacheVars
  <2> QED BY <2>1, <2>2, <2>3, <2>4, <2>5, <2>6, VlanAssumption DEF Next, Store!StoreNext
<1> QED BY <1>1, <1>2, VlanInvariant, PTL DEF Spec, ImplementsStore, Store!StoreSpec

=============================================================================
