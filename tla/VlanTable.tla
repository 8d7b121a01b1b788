------------------------------ MODULE VlanTable ------------------------------
(***************************************************************************)
(* VLANs (sal/salvlan.c, the VLAN part of sal/salflash.c) over the driver  *)
(* of the chip (api/vlan.c), as the pages of web/web_vlan.c use them.      *)
(*                                                                         *)
(* Three tables describe the VLANs: the configuration in the cache (static *)
(* entries in slots, an index of them sorted by VID, a PVID per port), the *)
(* chip (a table of all VIDs, a few member configurations, and per port    *)
(* the number of the member configuration that its PVID stands for), and   *)
(* the driver's own copy of which member configuration has which VID.      *)
(*                                                                         *)
(* The main loop runs a page to its end, so an operation is one step.  A   *)
(* page that changes several ports or removes several VLANs does so one    *)
(* after the other and stops at the first error: several steps here.       *)
(* ConfigStore has the saving of the cache; here a restart finds the       *)
(* configuration in force saved, as every configuration in force is at     *)
(* some restart.  Trunks are left out: a logic port is a port.  Names and  *)
(* priorities are left out, and the tag mode, which the pages never change.*)
(***************************************************************************)
EXTENDS Integers, FiniteSets, FiniteSetsExt

CONSTANTS
    MAX,            \* SAL_MAX_STATIC_VLAN
    CvidxNo,        \* RTL8367C_CVIDXNO, member configurations
    Vid,            \* the VIDs of the pages, 1 .. 4094
    Port,           \* the ports below SAL_PORT_ID_CPU
    PagePort,       \* those that the pages show
    CpuPort,        \* SAL_PORT_ID_CPU
    Membership,     \* what the page of static VLANs can ask for
    FrameType, AllFrames

AllPorts == Port \cup {CpuPort}

ASSUME VlanAssumption ==
    /\ MAX \in Nat \ {0} /\ CvidxNo \in Nat
    /\ Vid \subseteq Nat \ {0} /\ 1 \in Vid
    /\ IsFiniteSet(Port) /\ CpuPort \notin Port
    /\ PagePort \subseteq Port /\ PagePort # Port
    /\ Membership \subseteq [mbr : SUBSET Port, tag : SUBSET Port]
    /\ [mbr |-> Port, tag |-> {}] \in Membership
    /\ AllFrames \in FrameType

\* There are more member configurations than ports that can ask for one.
ASSUME RoomAssumption == Cardinality(PagePort) < CvidxNo

Slot == 0 .. MAX - 1
Idx == 0 .. CvidxNo - 1

VARIABLES
    sortedSlot, slotVid,    \* cache: the index (sal_flash_vlanDb_t)
    entry,                  \* cache: the static entries
    pvid, frameType,        \* cache: per port
    table,                  \* chip: members of each VID
    mbrCfg,                 \* chip: the member configurations
    pvidIdx, accept,        \* chip: per port
    vlan_mbrCfgVid,         \* driver: VIDs of the member configurations, 0 for
                            \* one that vlan_mbrCfgUsage says is unused
    restoring               \* ports whose part of a restart is still to do

cacheVars == <<sortedSlot, slotVid, entry, pvid, frameType>>
chipVars == <<table, mbrCfg, pvidIdx, accept, vlan_mbrCfgVid>>
vars == <<cacheVars, chipVars, restoring>>

NoEntry == [vlan_id |-> 0, members |-> [mbr |-> {}, tag |-> {}]]
NoVlan == [mbr |-> {}, untag |-> {}]
Unused == [evid |-> 0, mbr |-> {}]

\* The members of every VLAN include the CPU's port, tagged as asked for.
OnChip(m) == [mbr |-> m.mbr \cup {CpuPort}, untag |-> Port \ m.tag]

-----------------------------------------------------------------------------
(* sal_vlan_db_search, sal_vlan_db_insert, sal_vlan_db_del                 *)

\* Where the search stops: a VID not below v, the end of the list, or MAX
StopsAt(v) == {i \in Slot : sortedSlot[i] = -1 \/ slotVid[sortedSlot[i]] >= v}
SortedIdx(v) == Min(StopsAt(v) \cup {MAX})

Listed(v) ==
    /\ SortedIdx(v) # MAX
    /\ sortedSlot[SortedIdx(v)] # -1
    /\ slotVid[sortedSlot[SortedIdx(v)]] = v

\* The slot of v, or the first vacancy, which is MAX if there is none
SlotFor(v) ==
    IF Listed(v) THEN sortedSlot[SortedIdx(v)]
    ELSE Min({j \in Slot : slotVid[j] = -1} \cup {MAX})

\* Seeded bug: no vacancy is not noticed.
HasRoom_Unchecked(v) == SortedIdx(v) \in Nat

\* Not SAL_ERR_VLAN_FULL
HasRoom(v) == SlotFor(v) # MAX

\* Seeded bug: a new VID goes to the end of the index.
DbInsert_Appends(v) ==
    LET k == Min({i \in Slot : sortedSlot[i] = -1} \cup {MAX})
    IN  /\ sortedSlot' = [sortedSlot EXCEPT ![k] = SlotFor(v)]
        /\ slotVid' = [slotVid EXCEPT ![SlotFor(v)] = v]

DbInsert(v) ==
    LET k == SortedIdx(v)
    IN  /\ sortedSlot' = [i \in Slot |-> IF i < k THEN sortedSlot[i]
                                         ELSE IF i = k THEN SlotFor(v)
                                         ELSE sortedSlot[i - 1]]
        /\ slotVid' = [slotVid EXCEPT ![SlotFor(v)] = v]

DbDel(v) ==
    LET k == SortedIdx(v)
    IN  /\ sortedSlot' = [i \in Slot |-> IF i < k THEN sortedSlot[i]
                                         ELSE IF i = MAX - 1 THEN -1
                                         ELSE sortedSlot[i + 1]]
        /\ slotVid' = [slotVid EXCEPT ![sortedSlot[k]] = -1]

-----------------------------------------------------------------------------
(* The driver                                                              *)

\* c is the member configuration of VID v according to vids
First(c, vids, v) == vids[c] = v /\ \A d \in Idx : d < c => vids[d] # v
Has(vids, v) == \E c \in Idx : vids[c] = v

\* rtk_vlan_set: the table, and the member configuration if there is one,
\* which is given up with the last member.
VlanSet(v, vlan) ==
    /\ table' = [table EXCEPT ![v] = vlan]
    /\ mbrCfg' = [c \in Idx |->
                    IF First(c, vlan_mbrCfgVid, v)
                    THEN IF vlan.mbr = {} THEN Unused ELSE [evid |-> v, mbr |-> vlan.mbr]
                    ELSE mbrCfg[c]]
    /\ vlan_mbrCfgVid' = [c \in Idx |->
                    IF First(c, vlan_mbrCfgVid, v) /\ vlan.mbr = {} THEN 0
                    ELSE vlan_mbrCfgVid[c]]

\* What the driver reads back before it takes a member configuration for free
ReadBack == [c \in Idx |-> mbrCfg[c].evid]

\* rtk_vlan_checkAndCreateMbr gives c for VID v.
CreateMbr(v, c) ==
    IF Has(vlan_mbrCfgVid, v)
    THEN First(c, vlan_mbrCfgVid, v) /\ UNCHANGED <<mbrCfg, vlan_mbrCfgVid>>
    ELSE IF Has(ReadBack, v)
    THEN First(c, ReadBack, v) /\ vlan_mbrCfgVid' = ReadBack /\ UNCHANGED mbrCfg
    ELSE /\ First(c, ReadBack, 0)
         /\ vlan_mbrCfgVid' = [ReadBack EXCEPT ![c] = v]
         /\ mbrCfg' = [mbrCfg EXCEPT ![c] = [evid |-> v, mbr |-> table[v].mbr]]

\* RT_ERR_TBL_FULL
TableFull(v) ==
    /\ ~Has(vlan_mbrCfgVid, v) /\ ~Has(ReadBack, v) /\ ~Has(ReadBack, 0)
    /\ vlan_mbrCfgVid' = ReadBack
    /\ UNCHANGED <<mbrCfg, pvidIdx>>

\* rtk_vlan_portPvid_set
PvidSet(p, v) ==
    \E c \in Idx : CreateMbr(v, c) /\ pvidIdx' = [pvidIdx EXCEPT ![p] = c]

\* rtk_vlan_portPvid_get
PvidGet(p) == mbrCfg[pvidIdx[p]].evid

-----------------------------------------------------------------------------
(* Configuration                                                           *)

\* The static entries, in the order of the index
Members ==
    [v \in {entry[sortedSlot[i]].vlan_id : i \in {j \in Slot : sortedSlot[j] # -1}} |->
        entry[CHOOSE s \in Slot : entry[s].vlan_id = v
                                  /\ \E i \in Slot : sortedSlot[i] = s].members]

\* Seeded bug: the driver's copy survives.
Restored_KeepsCopy(members) ==
    /\ table' = [v \in Vid |-> IF v \in DOMAIN members THEN OnChip(members[v])
                               ELSE IF v = 1 THEN [mbr |-> AllPorts, untag |-> AllPorts]
                               ELSE NoVlan]
    /\ mbrCfg' = [c \in Idx |-> IF c = 0 THEN [evid |-> 1, mbr |-> table'[1].mbr]
                                ELSE Unused]
    /\ pvidIdx' = [p \in AllPorts |-> 0]
    /\ UNCHANGED vlan_mbrCfgVid

\* rtk_vlan_init, on a chip that was reset, after which config_restore adds
\* the static entries: only VLAN 1 has a member configuration then.
Restored(members) ==
    /\ table' = [v \in Vid |-> IF v \in DOMAIN members THEN OnChip(members[v])
                               ELSE IF v = 1 THEN [mbr |-> AllPorts, untag |-> AllPorts]
                               ELSE NoVlan]
    /\ mbrCfg' = [c \in Idx |-> IF c = 0 THEN [evid |-> 1, mbr |-> table'[1].mbr]
                                ELSE Unused]
    /\ vlan_mbrCfgVid' = [c \in Idx |-> IF c = 0 THEN 1 ELSE 0]
    /\ pvidIdx' = [p \in AllPorts |-> 0]

\* sal_flash_vlan_init: VLAN 1 has all ports, untagged.
Default == [mbr |-> Port, tag |-> {}]

\* A switch with the factory defaults (sal_flash_vlan_init) that has started
Init ==
    /\ sortedSlot = [i \in Slot |-> IF i = 0 THEN 0 ELSE -1]
    /\ slotVid = [s \in Slot |-> IF s = 0 THEN 1 ELSE -1]
    /\ entry = [s \in Slot |-> IF s = 0 THEN [vlan_id |-> 1, members |-> Default] ELSE NoEntry]
    /\ pvid = [p \in Port |-> 1] /\ frameType = [p \in Port |-> AllFrames]
    /\ table = [v \in Vid |-> IF v = 1 THEN OnChip(Default) ELSE NoVlan]
    /\ mbrCfg = [c \in Idx |-> IF c = 0 THEN [evid |-> 1, mbr |-> AllPorts] ELSE Unused]
    /\ vlan_mbrCfgVid = [c \in Idx |-> IF c = 0 THEN 1 ELSE 0]
    /\ pvidIdx = [p \in AllPorts |-> 0] /\ accept = [p \in Port |-> AllFrames]
    /\ restoring = {}

\* post_vlan_static, sal_vlan_sttcEntry_add
Add(v, m) ==
    /\ restoring = {} /\ HasRoom(v)
    /\ VlanSet(v, OnChip(m))
    /\ entry' = [entry EXCEPT ![SlotFor(v)] = [vlan_id |-> v, members |-> m]]
    /\ IF Listed(v) THEN UNCHANGED <<sortedSlot, slotVid>> ELSE DbInsert(v)
    /\ UNCHANGED <<pvid, frameType, pvidIdx, accept, restoring>>

\* Seeded bug: only the ports of the pages are asked.
PvidExists_PagePorts(v) == \E p \in PagePort : PvidGet(p) = v

\* Seeded bug: only the VLAN's members are asked, as the code seems to mean to.
PvidExists_Members(v) == \E p \in Port \cap table[v].mbr : PvidGet(p) = v

\* _sal_vlan_pvid_exist.  The test that should skip ports that are no members,
\* !SAL_ERR_SUCCESS == ..., is never true: all ports are asked.
PvidExists(v) == \E p \in Port : PvidGet(p) = v

\* post_vlanstaticDelEntry, sal_vlan_sttcEntry_remove
Remove(v) ==
    /\ restoring = {}
    /\ ~PvidExists(v) /\ Listed(v)
    /\ VlanSet(v, NoVlan)
    /\ DbDel(v)
    /\ entry' = [entry EXCEPT ![SlotFor(v)] = NoEntry]
    /\ UNCHANGED <<pvid, frameType, pvidIdx, accept, restoring>>

\* post_vlan_portbased for one port: sal_vlan_portPvid_set, and unless that
\* fails sal_vlan_port_AcceptFrameType_set.  Nothing asks whether there is a
\* VLAN v.
SetPort(p, v, t) ==
    /\ restoring = {}
    /\ \/ /\ PvidSet(p, v)
          /\ pvid' = [pvid EXCEPT ![p] = v]
          /\ frameType' = [frameType EXCEPT ![p] = t]
          /\ accept' = [accept EXCEPT ![p] = t]
       \/ TableFull(v) /\ UNCHANGED <<pvid, frameType, accept>>
    /\ UNCHANGED <<sortedSlot, slotVid, entry, table, restoring>>

\* Power comes back or a page asks for a restart: config_restore begins.
Restart ==
    /\ Restored(Members)
    /\ accept' = [p \in Port |-> AllFrames]
    /\ restoring' = Port
    /\ UNCHANGED cacheVars

\* config_restore for the next port; it ignores that a call fails.
RestorePort ==
    \E p \in restoring :
        /\ \A q \in restoring : p <= q
        /\ PvidSet(p, pvid[p]) \/ TableFull(pvid[p])
        /\ accept' = [accept EXCEPT ![p] = frameType[p]]
        /\ restoring' = restoring \ {p}
        /\ UNCHANGED <<cacheVars, table>>

Next ==
    \/ \E v \in Vid, m \in Membership : Add(v, m)
    \/ \E v \in Vid : Remove(v)
    \/ \E p \in PagePort, v \in Vid, t \in FrameType : SetPort(p, v, t)
    \/ Restart
    \/ RestorePort

Spec == Init /\ [][Next]_vars

-----------------------------------------------------------------------------
TypeOK ==
    /\ sortedSlot \in [Slot -> Slot \cup {-1}] /\ slotVid \in [Slot -> Vid \cup {-1}]
    /\ entry \in [Slot -> [vlan_id : Vid, members : Membership] \cup {NoEntry}]
    /\ pvid \in [Port -> Vid] /\ frameType \in [Port -> FrameType]
    /\ table \in [Vid -> [mbr : SUBSET AllPorts, untag : SUBSET AllPorts]]
    /\ mbrCfg \in [Idx -> [evid : Vid \cup {0}, mbr : SUBSET AllPorts]]
    /\ pvidIdx \in [AllPorts -> Idx] /\ accept \in [Port -> FrameType]
    /\ vlan_mbrCfgVid \in [Idx -> Vid \cup {0}]
    /\ restoring \subseteq Port

\* The index lists each slot in use once, in the order of the VIDs, without a
\* gap, and each slot in use has the entry of its VID.
IndexIsSorted ==
    /\ \A i, j \in Slot : i < j /\ sortedSlot[j] # -1 =>
            sortedSlot[i] # -1 /\ slotVid[sortedSlot[i]] < slotVid[sortedSlot[j]]
    /\ \A s \in Slot : slotVid[s] # -1 <=> \E i \in Slot : sortedSlot[i] = s
    /\ \A s \in Slot : slotVid[s] # -1 => entry[s].vlan_id = slotVid[s]

\* The driver's copy, the member configurations and the table agree, no VID
\* has two member configurations, and no port's PVID stands for one that was
\* given up or given to another VLAN.
MemberConfigsAgree ==
    /\ \A c \in Idx : vlan_mbrCfgVid[c] = mbrCfg[c].evid
    /\ \A c, d \in Idx : mbrCfg[c].evid # 0 /\ mbrCfg[c].evid = mbrCfg[d].evid => c = d
    /\ \A c \in Idx : mbrCfg[c] # Unused =>
            mbrCfg[c].evid \in Vid /\ mbrCfg[c].mbr = table[mbrCfg[c].evid].mbr
    /\ \A p \in AllPorts : mbrCfg[pvidIdx[p]] # Unused

\* The chip does what the configuration says, whatever came before and also
\* after a restart, which gives the member configurations out anew: a frame
\* with a VID goes to the members, and one without gets the port's PVID.
ChipFollowsConfig ==
    /\ \A v \in Vid : table[v] = IF v \in DOMAIN Members THEN OnChip(Members[v]) ELSE NoVlan
    /\ \A p \in Port \ restoring : PvidGet(p) = pvid[p] /\ accept[p] = frameType[p]
    /\ PvidGet(CpuPort) = 1

\* The pages keep what VlanStore promises.
Store == INSTANCE VlanStore WITH MaxVlans <- MAX, vlans <- Members, default <- pvid

ImplementsStore == Store!StoreSpec

=============================================================================
