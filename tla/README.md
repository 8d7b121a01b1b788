# Models, checks and proofs for the RTL8367 web-managed switch firmware

The repository holds the firmware of a web-managed switch built on Realtek's RTL8367C: an 8051 core in the
switch chip and one SPI flash. Two programs share that flash. The *runtime*
(`rtl8367c/src`, `common/src`, project files in `rtl8367c/a_set`) manages the switch: web pages, DHCP,
SNMP, IGMP snooping, a reset button. The *loader* (`rtl8367c/loader`) starts the runtime if its image is
whole, and otherwise, or when asked, serves one web page by which a new image is uploaded.

Paths below leave out the prefix `src/stable_28_08_2025/final_8367_27_08_2025/2_8367_V1SB/`; line numbers
refer to the files under it.

The project has eleven modules that model parts of this firmware (`ConnTable` and `VlanStore` are abstract
specifications that others implement), instances of them for TLC where more than constants is needed, and
eight modules of proofs.

| module | models | checked by | proofs |
|---|---|---|---|
| `TcpSocket` | `lwps/tcp.c`, TCP half of `lwps/lwps_api.c` | `httpd` | `Httpd_proofs` |
| `ConnTable` | what the TCP server promises a remote end (abstract) | `httpd` (refinement) | `Httpd_proofs` |
| `Httpd` | sessions of `app/web/httpd.c`, on `TcpSocket` | `httpd`, `httpd_reject` | `Httpd_proofs` |
| `DhcpClient` | `app/dhcpc/dhcpc.c` and the switch's address | `dhcp`, `dhcp_bound` | `DhcpClient_proofs` |
| `EventLoop` | `timer_0_isr`, `event_dispatch`, the reset button (`src/isr.c`) | `event_loop` | `EventLoop_proofs` |
| `IgmpGroupDb` | `lwps/igmp_group_db.c`, `igmp_snooping.c`, link status, trunk | `igmp`, `igmp_live` | `IgmpGroupDb_proofs` |
| `VlanTable` | static VLANs, PVIDs, member configurations (`sal/salvlan.c`, `api/vlan.c`, `web/web_vlan.c`) | `vlan` | `VlanTable_proofs` |
| `VlanStore` | what the VLAN pages promise (abstract) | `vlan` (refinement) | `VlanTable_proofs` |
| `ArpTable` | `lwps/etharp.c` | `arp` | `ArpTable_proofs` |
| `Upgrade` | loader, start modes, upload, flash (`sal/salfwug.c`, `loader/src`) | `upgrade`, `upgrade_address` | `Upgrade_proofs` |
| `ConfigStore` | configuration, its sector, start, resets, restore (`sal/salflash.c`, `salsys.c`, `web/web_cfg.c`) | `config_store` | `ConfigStore_proofs` |

`MC<module>.tla` instantiates a module for TLC, `<run>.cfg` gives the constants. `PROJECT.json` lists the
runs with their properties, for each property a seeded bug that breaks it (the operators named
`<definition>_<what>` in the modules, e.g. `More_TakesLast`), the source lines of every definition, the
hazards and the findings.

    tlc -config Upgrade.cfg MCUpgrade.tla        tlapm Upgrade_proofs.tla

# Inventory

## How the program runs

There is one thread and one interrupt that matters. `main` initialises the chip and calls
`event_dispatch` for ever (`src/main.c:171`). A pass of `event_dispatch` (`src/isr.c:750`) handles, in
this order, the event of one second (`timer_sec_dsr`: the timers of TCP, ARP, DHCP and IGMP, link status),
received frames (`nic_rx_dsr`), the event of 100 ms (`timer_100ms_dsr`: the button), the serial console and
`dhcpc_routine`. `timer_0_isr` raises the events as bits of `event_list`.

A frame is handled from the Ethernet header to the application and back within one call of `nic_rx_dsr`;
applications are called back synchronously, and a callback may not close the connection it is called
for: `lwps_close` leaves a note that `lwps_event_handler` acts on after the frame. Nothing is preempted
but by the interrupt, so the hard behaviours are not data races between threads. They are

- the order of events in a pass and the frames' order, which the peers choose;
- state that a callback, a flag or a number left behind for a later step (deferred close, cookies,
  static variables of an upload, a lease stored before its message is understood);
- the interrupt against the loop's read-modify-write of `event_list`;
- peers that fall silent, lost and repeated datagrams, and timers that must notice;
- fixed tables that run full;
- power cuts and restarts between two flash operations;
- loops over linked lists that do not do what their comments say.

## Components

| component | state | operations | who it works with | hard behaviour | what makes it correct | here |
|---|---|---|---|---|---|---|
| TCP and sockets (`lwps/tcp.c`, `lwps/lwps_api.c`) | PCB table, socket table, one deferred close | frame in, close, timer | IP below, web server above (callbacks) | SYN/FIN/data in any state, close deferred over the frame, silence | one PCB per remote end, sockets and PCBs in step, PCBs come back | `TcpSocket`; byte stream left out |
| Web server (`app/web/httpd.c`) | client records, cookies, one request buffer | connect, receive, disconnect | sockets, pages | more sessions than records, buffer's owner vanishes | each session its own record, nothing leaks | `Httpd` |
| DHCP client (`app/dhcpc/dhcpc.c`) | slot: state, timers, lease, addresses | second, datagram, routine, on/off | UDP, web page, address of the switch | stray, late and repeated replies, deadline against acknowledgement | address only under a lease, negotiations end | `DhcpClient` |
| Event loop and button (`src/isr.c`) | `event_list`, button state | interrupt, pass | everything | lost events, late passes | no interval twice, no accidental wipe | `EventLoop` |
| IGMP snooping (`lwps/igmp_*.c`, `sal/saligmp.c`) | group list, free pool, router ports, chip table | report, leave, query, timers, link change, trunk | link status, trunk page, chip | link goes down with frames queued, pool full | list, pool, timers and chip agree | `IgmpGroupDb` |
| Loader and upgrade (`loader/src`, `sal/salfwug.c`) | flash, start mode registers, statics of the upload | upload piece, restart, enter loader, boot | web server, configuration | broken uploads, power cuts, any cut into packets | what was uploaded is what boots | `Upgrade` |
| ARP cache (`lwps/etharp.c`) | 8 entries with age, entry 0 for the gateway | update, find, timer | IP output | moved hosts, full table | no frame to an address long unheard, the gateway keeps its entry | `ArpTable` |
| Configuration store and restore (`sal/salflash.c`, `web/web_cfg.c`) | `configCache`, its flash sector, upload flags | set, save, reset, restore, start | every page | power cut between erase and write, broken restore, two restores | what a start takes for a configuration is what was saved, a reset is final, a restored file is stored | `ConfigStore` |
| VLANs (`sal/salvlan.c`, `api/vlan.c`, `web/web_vlan.c`, part of `sal/salflash.c`) | static entries, sorted index, PVIDs; chip's table, member configurations, driver's copy of them | add, remove, set a port, restart | pages, configuration, chip | three tables that must agree, full tables, a VLAN removed under a port, a copy older than the chip | the chip does what the configuration says, before and after a restart | `VlanTable` |
| UDP (`lwps/udp.c`) | 4 ports, fixed after start | datagram in/out | DHCP, SNMP | - | - | no state worth a model |
| IP, ICMP, Ethernet, NIC | one frame | up, down | all protocols | - | - | pure I/O |
| Web pages (`web/*.c`, `app/web/web_api.c`) | - (forms) | get, post | SAL | partly applied forms | - | effects as actions of the other modules |
| SNMP, traps (`app/snmp`) | community, trap address | request, trap | UDP, SAL | - | - | conversion of data |
| Switch abstraction, chip driver (`sal`, `api`, `asicdrv`) | the chip's registers | set, get | pages | - | - | vendor code, external |
| TFTP client (`app/tftp`) | transfer slot | - | - | retry that is never made | - | `UPGRADE_TFTP` undefined: never called |
| Syslog (`app/syslog`) | log in `configCache` | entry | pages, links, configuration | each entry saves the configuration | - | its saves in `ConfigStore`; text and datagrams left out |
| Loop detection, RRCP | | | | | | libraries without source |
| Serial console, PoE line (`src/utilies_flash.c`) | one line of text | character | page, MIB | waits in the main loop | - | see "Not modelled" |
| `update.c`, `firmware_upgrade.c`, `spi_flash_api.c`, `8367_fmd.c` | | | | | | in no build |

# Plan

Most important behaviour first; finished parts are marked *done*.

1. `TcpSocket`, refining `ConnTable` - *done*, proved.
2. `Httpd` composed with `TcpSocket` - *done*, safety proved.
3. `DhcpClient` - *done*, safety proved.
4. `EventLoop` - *done*, safety proved.
5. `IgmpGroupDb` - *done*, safety proved. Its loops are recursive functions on numbers, not folds, so that what
   they compute can be reached from one round to the next.
6. `Upgrade` - *done*, proved.
7. `ConfigStore` - *done*, proved.
8. `VlanTable`, refining `VlanStore` - *done*, proved.
9. `ArpTable` - *done*, proved.
10. `TcpStream`, left: one connection's bytes in both directions with sequence numbers of 2^w, segments lost,
    repeated and overtaken. What the application received is a prefix of what was sent, unless the first
    segment after the SYN was overtaken (see "Not modelled").

# Modules and runs

## `TcpSocket`, `ConnTable`

State: `pcb` is `tcp_pcb_entry`, `valid` the slots of `lwps_socket_entry`, `close_req` the pair
`lwps_events`/`lwps_events_parm0`, `at` whether `lwps_event_handler` has still to run for the frame of some
remote end. Actions: `Rx` (the whole of `tcp_up_handle_ip`, one disjunct for each way through it, with the
callbacks of `lwps_api.c` in the same step), `EventHandler` (`lwps_event_handler` and `tcp_close`), `Timer`
(`tcp_timer`). A four-tuple is a remote end; a segment has its flags and whether its sequence number is the
expected one; the application closes whenever it likes. Active opens are left out (no caller).

`ConnTable` says what a remote end may see: none, half-open, open, closing, none, and any number of
connections dropped at once for silence. `TcpSocket` maps each remote end to the stage that its PCB's state
stands for (`connOfRemote`) and implements it.

The run `httpd` checks `TcpSocket` below the web server, where the application closes when `httpd.c` does
(`HttpdUsesSockets` proves that nothing else is left out): that no remote end has two PCBs (`tcp_findPCB`
ignores states), that slots are open exactly on ESTABLISHED PCBs, that the listener survives and that no PCB
is in use without a running timer (together `TablesInStep`), that a deferred close still names its
connection, that PCBs change hands only through the pool, the refinement, and that a silent remote end loses
its PCB.

Fairness: weak fairness of the event handler (it runs in the same call of `nic_rx_dsr`) and strong fairness
of the timer: the main loop never stops, and a pass handles the second's event before any frame, so frames
cannot keep it from running. `SilenceFreesPcb` is conditional on silence, which no fairness is assumed to
bring.

Proved for every table size, set of remote ends and pair of time-outs: the type invariant, `TablesInStep`
(`TablesAgree`), `DeferredCloseIsSafe`, `NeverChangesHands`, `SilenceRunsOut` (each second brings a silent
connection nearer to its end, and only a frame of its own remote end sets its timer back) and `Implements`. The
invariant `IInv` is the
conjunction of all of them, for none is inductive alone: the pending close is for an ESTABLISHED PCB only
because slots follow PCBs, `tcp_timer` frees the right PCBs only because those in use have timers and the
listener has none.

## `Httpd`

State added: `client` (the `socket_id` of each record), `cookie` (of each socket), `http_request_sid`,
`rejected` (history: was a session ever rejected). Each action is one of `TcpSocket` with the callbacks that
`httpd.c` makes of it, and settles when the application closes. A request is abstracted to what
`http_packet_check` says of the bytes so far.

- `httpd`: three remote ends, a listener and two child PCBs, one record, time-outs of 3 and 1 ticks. Two
  child PCBs are the smallest table in which a look-up may find the wrong one, the third remote end fills it;
  the fast time-out differs from the slow one by two ticks, so a counter may be past one and below the other;
  one record for two sessions makes rejections happen. Beside the properties of `TcpSocket`: until a session
  is rejected, each open session works on a record of its own (`SessionOwnsRecord`); no record and no request
  buffer outlives its session, however many sessions are rejected (`NothingLeaked`). That
  a silent owner loses the request buffer needs no property of its own: its PCB is freed (`SilenceFreesPcb`)
  and the buffer never belongs to a closed session.
- `httpd_reject` (finding): with fewer records than sessions, `lwps_httpd_connect` closes a rejected session
  ("REJECT: connection is full -> close this session", `httpd.c:420`) but leaves the cookie that the socket
  had from its last session; the callback of the close frees the record of the cookie, which by then belongs
  to another open session. `httpd` shows that this loses no record for good.

Proved, for any number of records, also too few: `HttpdTypeCorrect`, `RecordsAreOwned`, `NothingLeaks`, and
`HttpdUsesSockets` (every behaviour is one of `TcpSocket`, so its theorems hold here). The strengthening
(`HInv`): the record bound to a session is the one its cookie names (`RecordKnown`), and every session that is
not about to be closed has a cookie (`ServedHasCookie`).

## `DhcpClient`

State: the fields of `dhcpc_slot` that matter, the address of the switch, the requests that may still be
answered, and whether the pass is at its start or has handled frames. Actions: the second (`dhcpc_timer`),
each kind of datagram, `dhcpc_routine` (`dhcpc_state_update` with all it calls), switching DHCP on and off.
Replies are lost, repeated, late and reordered by what servers choose to send.

Run `dhcp`: two servers and a host that is none; lease times of 2 and 8 seconds (one below, one above the
deadline of 5), retry time-out 2. With two servers every mixing of offers and acknowledgements occurs.
Checks: no address while asking; no fall back to the default address while a lease is held; every
negotiation, renewal and rebinding ends. Fairness: weak fairness of the routine, which ends every pass, and
strong fairness of the second, which a pass handles before frames (frames may come between two seconds, but
not keep the next from being handled); nothing is assumed of servers.

`dhcp_bound` (finding): the struct groups address, mask, gateway and lease time under `/* Bound */`
(`dhcpc.c:67`), but they are stored from every reply of the current transaction, so a second server's offer
that follows the acknowledgement in one pass is what gets configured.

Proved for any servers, leases and time-outs: `DhcpTypeCorrect` (above all, `left_time` is never decremented
at zero), `NoAddressTooEarly`, `LeaseIsKept`, and `DeadlineOnlyShrinks`: within a negotiation no retry and no
reply adds to the deadline, and from the first DISCOVER on each second is taken off it. (Before, it may not be: a
lease that ran out leaves the time-out disabled until `dhcpc_routine` has sent the DISCOVER.) The heart of the invariant is the deadline: it runs exactly
while the time-out does, is looked at in every pass before the next second is counted, and stands above zero
for a client that holds a lease.

Also seen, no run kept: `server_ip` is overwritten by any datagram on the client's port (`dhcpc.c:438`), so
the renewal half a lease later may go to a stray sender; the rebinding by broadcast makes up for it.

## `EventLoop`

State: `event_list`, where the loop is (before and after each read of it), the button's variables, the level
of the input; `age` and `sec_due` are clocks of the model and appear in no guard. `Isr` may come between any
two accesses of the loop. Times are in units of 100 ms: debounce 2, reboot 2, reset 4 instead of 5, 10 and
30, enough to pass through every combination of debounced and counted samples.

Run `event_loop`: the configuration is wiped only when the button was seen down for the reset time
(`ResetMeansLongPress`), no second is handled twice (`EachSecondOnce`), a held button always resets
(`HeldButtonResets`: lost events are not all lost). Fairness: weak fairness of the interrupt, of
the loop's steps and of the restart.

Proved: `ButtonTypeCorrect` (the unsigned `pressedTime` never wraps), `ResetIsDeliberate`,
`SecondsNotInvented`. The invariant counts: the button's time with the intervals still owed is at most one
ahead of the clock (`CountedOnce`), and what the loop writes back is still set, because interrupts only add
(`ReadStillSet`).

Also seen: the opposite bound does not hold. The time counts handled events, so a press of several seconds
that falls into one long pass (a page, a flash erase) counts as under one second and restarts the switch
(`isr.c:250`).

## `IgmpGroupDb`

State: `db` (list, free pool with the timers left in it, router timers, the chip's table), static routers,
the second counter, trunk, links and what the loop has seen of them, ports with a frame still queued.
Actions: reports, leaves and queries of a port, the second (`PASS_TIME`), the link change, the trunk, the web
page's switch. A group is an address in a VLAN; fast leave is on, and nothing turns it off. The linked lists
are sequences; what a loop over them does is a recursive function of the round (`SettleAll` over the groups,
`LinksUp` over the ports), and `Settle` is what all of them do with an entry that has changed.

- `igmp`: three groups, two of which share an address of the chip, on a pool of two, two ports that may be a
  trunk. List, pool and timers (`PoolIsKept`) and the chip (`ChipAgrees`) agree in every state; two entries force
  reuse of an entry with old timers and a full pool. Two properties are of steps: whoever leaves is struck out in
  the chip at once (`ChipFollowsMembers`), and a port that is down only loses memberships (`DownPortOnlyLoses`).
- `igmp_live`: a port that stays down, and a router that went away, are in the end forwarded nothing,
  although the chip is not told when a router port expires and a late report may bring a port back. Fairness:
  seconds pass and the loop sees links.

Proved for any ports, groups, addresses, pool size, intervals and trunks:

- `DbTypeCorrect`: no timer runs below zero or above its interval;
- `PoolIsKeptHolds`: list and pool together have all entries, no group is listed twice or without a member, and
  each member has a running timer, also one that a trunk brought in or that got an entry with old timers;
- `ChipAgreesHolds`: the chip forwards a listed group to its members and has nothing of a group that is gone;
- `DownPortJoinsNothing` (`DownPortOnlyLoses`): a port that is down, with no frame in the queue, joins no group
  and keeps none longer, whatever reports and links of its trunk's other ports bring. `DownPortLeaves` rests on
  it: without link the timers can only run out;
- `ChipStrikesOut` (`ChipFollowsMembers`): who leaves a group, by a leave, a timer, a link or the end of snooping,
  is struck out in the chip in the same step, also where groups share an address; only a port that is a router
  port at that moment may be left over (`Strangers`). These are what `OldRoutersLeave` waits for.

The argument: an operation changes one entry of a sound data base (`Sound`). Until the chip has been told,
the data base is sound but for that group (`SoundBut`), and there are two ways out: an entry that has members,
each with a timer, is written to the chip (`WriteSound`), or the entry is deleted (`DropSound`). So every
handler ends sound whatever it computed in between, and the loops do because each round does; which entries
`LinksDown` reaches does not matter, which is why its slip (below) breaks none of these. The prover has
no induction over data; the loops go by the least round that fails (`Upto`), which is a fact about natural
numbers. `Concerns` and `NoMore` say in the same lemmas what an operation leaves alone and what it takes away,
from which `DownPortOnlyLoses` follows; `Follows` says what the chip goes on forwarding, composes over the
rounds of a loop, and gives `ChipFollowsMembers`.

Also seen: the loop for a link that goes down ("remove timers & queryPort", `igmp_group_db.c:643-650`) stops at the
first group that loses no port, for its `continue` leaves the pointer where it is; the groups behind keep the
dead port until its timer ends, which `igmp_live` shows it does (`Reached`). The loop for a link that comes up
(`igmp_group_db.c:573`) never advances, so only the first group
takes in a trunk port although lines 592 and 596 speak of all; two groups whose addresses agree in the low 23
bits share one entry of the chip (`saligmp.c:151`), so the end of one takes the entry from the other.
The first half of `ChipAgrees` is therefore about groups with an entry of their own (`OwnMac`); the second,
that no entry outlives its last group, is about all.

## `VlanTable`, `VlanStore`

Three tables describe the VLANs. State: in `configCache` the static entries (`entry`), the index of them
sorted by VID (`sortedSlot`, `slotVid`), PVID and accepted frames of each port; in the chip `table` (the
members of all VIDs), `mbrCfg` (a few member configurations) and `pvidIdx` (the number of the one that a
port's PVID stands for); in the driver `vlan_mbrCfgVid`, its own copy of who has which; and `restoring`, the
ports whose part of `sal_vlan_config_restore` is still to do. Actions: `Add`, `Remove`, `SetPort` as the
pages make them, one port or VLAN at a time (a page goes through several and stops at the first error),
`Restart` (`rtk_vlan_init` on a reset chip, then the static entries) and `RestorePort`, port by port.
`ConfigStore` has the saving of `configCache`; here a restart finds saved what is in force, which is the case
that the agreement of the tables is about.

`VlanStore` says what the pages promise: a set of at most so many VLANs with their members and a default for
each port; VLAN 1 and a VLAN that is a default cannot be removed. `VlanTable` implements it, with the list in
the order of the index (`Members`) and the PVIDs; a restart changes neither.

Run `vlan`: 4 VIDs, 3 slots, 3 member configurations, so that both tables run full; two ports on the pages and
one that they do not show. Checked and, for any numbers, proved:

- `IndexIsSorted` (`IndexStaysSorted`): search, insertion and removal keep the index sorted, without a gap,
  each slot in use in it once;
- `MemberConfigsAgree` (`MemberConfigsStay`): driver's copy, member configurations and table agree; no VID has
  two member configurations, and no PVID stands for one that was given up;
- `ChipFollowsConfig` (`ChipFollows`): the chip has the members and the PVIDs that the configuration has, before
  and after a restart, which gives the member configurations out anew and always finds one;
- `ImplementsStore` (`VlansAreStored`) and `TypeOK` (`VlanTypeCorrect`).

The argument (`VInv`): if a slot is vacant, so is the end of the index, for its entries are different slots
(`RoomAtEnd`, a pigeonhole), so an insertion pushes nothing out. A member configuration that is given up had
a VID that is no port's PVID, because `_sal_vlan_pvid_exist` asks all ports. It does so by a slip:
`!SAL_ERR_SUCCESS == ...` (`salvlan.c:144`) is never true, so the test that should skip ports that are no
members skips none; with that test (the seeded bug of `MemberConfigsAgree`) a PVID could be left behind. A
port that no page shows keeps the PVID 1, which is why VLAN 1 is never removed (`DefaultStays`), and while a
restart is going on only VLAN 1 and PVIDs of ports have taken member configurations (`RoomLeft`), so that, by
the pigeonhole principle, one is free for each port as long as there are more of them than ports on the
pages. Both are assumptions on the constants (`VlanAssumption`, `RoomAssumption`; the switch has 32 member
configurations).

Also seen: a PVID may name a VLAN that does not exist (nothing asks), and takes a member configuration that
nothing but a restart gives back, although the comment of `rtk_vlan_portPvid_set` lists
`RT_ERR_VLAN_ENTRY_NOT_FOUND` among what it returns.

## `ArpTable`

State: `arp_table`, whether a frame for another subnet is waiting for the gateway (`gw_mac_need`), the
gateway's address, the two counters of `etharp_timer`; as history one host that is watched, how long ago it
was heard, and whether the gateway has answered in time. Actions: a frame heard from a host (ARP or IP; any
may be lost or late), frames sent to an address of the subnet or to another subnet, the ping page, a new
gateway, the second.

Run `arp`: two addresses of two MAC addresses each on three entries, so that a host changes its MAC address
and the table overflows; ages 3 and 4, the gateway is asked for every 2 ticks. The MAC addresses are
interchangeable, hence the symmetry. Checked and, for any sizes and times, proved:

- `FoundWasHeard` (`NoStaleAddress`): no frame goes to a MAC address that was not heard with the IP address
  within the life of an entry. An update looks for IP and MAC together (`etharp.c:257`), so a host with a new
  MAC has two entries and the older one is found, but look-ups do not keep it alive;
- `GatewayStays` (`GatewayKept`): a gateway in entry 0 that answers in time stays there. It needs that the
  period of the requests is below the life of an entry (`PeriodAssumption`: 60 and 128), and no other entry
  with the gateway's address, for then the request is not sent (`etharp.c:480`) and the update refreshes that
  entry instead of entry 0.

`TypeOK` (`ArpTypeCorrect`: no entry in use is as old as the limit) is proved only. Both properties are safety
properties; no fairness is assumed, hosts may be silent for ever.

## `Upgrade`

State: `flash` (what each cell of the payload's place holds), what runs, the registers that survive a restart
(`mode`, `handed`), the address in use and the saved one, `fw` (the statics of `salfwug.c`), the status of
the page, the transfer that owns the request buffer. Flash can only be written where it is erased: writing
over something else leaves scrap. `Files` are what people upload: images, images cut short, and other files;
behind each come the bytes of the form's end. Actions: the pieces of an upload (`UploadBegins`, `More`,
`Last`, and `ShortUpload` for a request in one packet, which may hit another session's upload), broken
uploads (`Drop`), power cuts at any time and before, in or after any flash operation of a piece, from the first
to the last (`PowerFailsWriting`; the three erasures of the IROM section count as one), the start modes, the escape key, booting, and the runtime's ways into the loader.

Run `upgrade`: an IROM section of 3 cells and 2 blocks of 3, packets of 1 or 2 cells, images of 6 and 7 cells
(one ends with a block, one within), one cut short, a header without an image, two files that are none. All
cuts of a file into packets occur, so pieces end before, at and after the end of the section and of a block,
on flash that earlier uploads and power cuts left in any condition. Checked and, for any sizes, proved:

- `UploadedImageIsWhole`: a complete image uploaded undisturbed stands in the flash cell by cell when the
  switch restarts;
- `OnlyImagesRestart`: a file without header never restarts the switch, whatever was uploaded before;
- `TypeOK`: the upload's count never leaves the area.

Run `upgrade_address` (finding, `LoaderKeepsAddress`): "set loader ip" (`src/sal/salsys.c:1808`) hands the
runtime's address over in registers, and the page that confirms the loader mode reloads itself from that address
(`web_fwug.c:49`). But `main` clears the warm-start flag (`loader/src/main.c:190`) before `loader_init` asks for
it (`init.c:710`), so nothing reads the registers. `loader_init` calls the loader's own `sal_flash_config_init`
instead (`ConfigInit`), which reads the signature where it wants the mark of initialisation (`salflash.c:21`) and
never finds it; and because `main` has not yet looked at the runtime, hence not found it broken
(`sal_sys_runtime_crc_set`, `main.c:231`), it keeps the default address. That the runtime saves its configuration
first does not help. Only a loader entered by the escape key, or because nothing boots, restores what is saved.

The argument of the proof (`UInv`): while an image is being stored, all that was sent stands in front of
`writeLen`; behind it, everything up to the end of the IROM section, or of the block that has been begun, is
erased (`Prepared`); the count is what has come less the header (`Storing`). A piece is shorter than a block,
so it ends in the block in which it starts or in the next (`BlockStep`), and the two erasures of
`sal_fwug_image_write` cover the next (`PieceErased`). Arithmetic on `\div` and `%` comes from `Euclid` and
`Quotient`. Assumed of the constants (`UpgradeAssumption`): a packet is shorter than a block and the IROM
section (a request holds at most 1560 bytes, a block 4 KB), and a file with its form's end and one packet fits the area.

Also seen: the length in an image's header is that of its payload, so `image_length` (`salfwug.c:204`) is 20
bytes too small, but nothing reads it. And a second, one-packet upload
during an upload resets the statics of the first: the properties except the disturbed upload (`alone`),
whose mixture `check_boot` refuses.

## `ConfigStore`

State: `cache` (`configCache`), `sector` (its only copy in the flash), `nv` (the sector with address and
serial number), `result` (`http_upload_result`), `upload` (the file that is coming in pieces and how much of
it has been handled), `page` (what its last piece was answered), and a history: what was last to be saved,
which address was last given, whether anything was set since the last reset, whether power was cut within a
flash operation. A configuration is a row of parts in the order of their addresses (`flash_config.h:45-160`):
the signature first, the mark of initialisation before the end, the log last. A part is a setting, the
default, zeros, junk or erased; a part programmed without an erase is scrap. `http_upload_last_block` is set
and cleared in one call and needs no variable.

Actions: `Start` (`sal_flash_config_init`, which believes the mark, and the two places that rewrite the
address), pages that set a part or save, log entries, which also save when entries are sent to a server, the
reboot page, the way into the loader, `set_mac`, `Reset` (the page, its log entry being a `LogEntry` before
it, and the button), the restore in pieces (`RestoreBegins`, `Piece`, `ShortRestore` for a request that needs
no buffer, `Drop`), power cuts between actions (`PowerFails`) and between any two parts that an action
programs (`...Breaks`).

Run `config_store`: 4 parts with the mark third, so that there is a part that pages set before the mark, and
the log behind it; packets of 1 or 2 parts; files that are a configuration, one part longer, two cut short and
one without signature; two addresses, one with the manufacturer's prefix. All cuts of a file into packets
occur, in any order with everything else. Checked and, for any sizes, proved:

- `MarkedIsSaved`: what a start takes for a configuration is, part by part, what was last to be saved, zeros
  of a reset that was cut off, or, behind the mark, erased flash;
- `ResetIsFinal`: after a reset no old setting comes back, even if the power fails within it, once the mark
  is cleared;
- `NothingIsLost`: as long as no power cut hits a flash operation and what is restored is a configuration
  (whole or broken off), the address, the serial number and the saved configuration survive everything;
- `RestoreIsStored`: the upload of a whole file, in whatever pieces it came, ends with a page that says so and
  with the file in the flash, unless something else changed the configuration meanwhile;
- `UnsignedChangesNothing`: no piece of a file without signature changes anything;
- `TypeOK`: among others, nothing is programmed twice.

The argument of the proofs: an action changes the sector in one of four ways: not at all, to the whole of
what is to be saved, to a front of it, or its own front is cleared (`StoreStep`); `TypeOK` and `MarkedIsSaved`
follow. `FinalInv` adds to `ResetIsFinal` that a sector which the next start would use holds no old setting;
`KeptInv` adds to `NothingIsLost` that `configCache` has its mark and an upload that is copied is whole;
`UploadInv` says what the pieces so far have left: their parts in the cache, the result, and the file in the
flash once more was sent than a configuration has. Assumed (`ConfigAssumption`): the mark is in neither the
first nor the last part, a packet is shorter than a configuration, the names of contents differ.

The exceptions in these properties are what the code does, found by TLC as counterexamples of the properties
without them. The mark is not the last part (`flash_config.h:57`): a save that is cut off behind it leaves a
sector that counts as initialised and whose tail is erased. A reset writes zeros first (`salflash.c:2386`): cut
off before the mark, it leaves a configuration with a valid mark and a cleared front. A save that is cut off
before the mark makes the next start a first start, and `SalFlshInit` also stores the default MAC address
(`sal_flash_sys_init`), which the start then replaces by the identification address. Every start erases and
rewrites the sector of address and serial number (`salsys.c:284`), so a power cut there loses both. `set_mac`
takes addresses that `main` forgets at the next start (`main.c:145`). A restore that breaks off or a file too
short leaves a mixture in `configCache`, which the next save, even that of a log entry, stores; and a second,
one-packet restore resets the result of the first (`web_cfg.c:166`), which is why the last two properties say
"alone". Outside the model, the VLAN page stores an ID in a sector of its own before it checks it
(`web_vlan.c:1128-1131`).

# Bounds

Every bound is a constant of a module, none is hidden in a definition: table sizes, time-outs, ages (`AgeMax`
only stops a clock of the model above the largest value any property asks for), packet and block sizes. No
run uses a state constraint. The runs' instances are the smallest in which each guard of the modelled code
goes both ways; the proofs remove the bounds for all safety properties.

# What is proved, and what is not

| theorem | of | states |
|---|---|---|
| `TypeCorrect`, `TablesAgree`, `DeferredCloseIsSafe`, `NeverChangesHands`, `SilenceRunsOut`, `Implements` | `TcpSocket` | the safety properties of `httpd` about PCBs and sockets, that silence is counted, and the refinement |
| `HttpdUsesSockets`, `HttpdTypeCorrect`, `RecordsAreOwned`, `NothingLeaks` | `Httpd` | refinement of `TcpSocket`; the invariants of `httpd` about sessions |
| `VlanTypeCorrect`, `IndexStaysSorted`, `MemberConfigsStay`, `ChipFollows`, `VlansAreStored` | `VlanTable` | all properties of `vlan`, among them the refinement of `VlanStore` |
| `ArpTypeCorrect`, `NoStaleAddress`, `GatewayKept` | `ArpTable` | all properties of `arp` |
| `DhcpTypeCorrect`, `NoAddressTooEarly`, `LeaseIsKept`, `DeadlineOnlyShrinks` | `DhcpClient` | the safety properties of `dhcp`, and that nothing prolongs a negotiation |
| `ButtonTypeCorrect`, `ResetIsDeliberate`, `SecondsNotInvented` | `EventLoop` | the safety properties of `event_loop` |
| `DbTypeCorrect`, `PoolIsKeptHolds`, `ChipAgreesHolds`, `DownPortJoinsNothing`, `ChipStrikesOut` | `IgmpGroupDb` | all properties of `igmp` |
| `TypeCorrect`, `UploadedImageStored`, `ImagesRestart` | `Upgrade` | all properties of `upgrade` |
| `TypeCorrect`, `MarkedSectorIsSaved`, `ResetStaysFinal`, `NothingGetsLost`, `RestoredFileIsStored`, `RefusedFileChangesNothing` | `ConfigStore` | all properties of `config_store` |

The assumptions are the named `ASSUME`s of the modules: sizes are natural numbers, names differ, the fast
time-out is not above the slow one, an address of the chip for each group, and those of `Upgrade`,
`ConfigStore`, `VlanTable` and `ArpTable` above.

Only model-checked: liveness (`SilenceFreesPcb`, `NegotiationEnds`, `LeaseRunsOut`,
`HeldButtonResets`, `DownPortLeaves`, `OldRoutersLeave`), which the prover does not do under fairness. For
some of them the part that is safety, that nothing sets back what every round brings nearer to its end, is
stated as an action property and proved: `SilenceIsCounted`, `DeadlineIsCounted`, `DownPortOnlyLoses`,
`ChipFollowsMembers`. The run `igmp` checks the last two; no run lists the first two, which TLC checks on the
instances of `httpd` and `dhcp` when they are put under `PROPERTIES`. What remains for TLC is that the rounds come, which is the fairness. The
three findings are counterexamples.

# Not modelled

- The payload of TCP (plan, 10): the segment that ends the handshake sets `remote_seq` to its own number
  (`tcp.c:516`), so when a data segment overtakes both the ACK and the segment before it, the latter is
  acknowledged and lost; the length test counts headers (`tcp.c:546`), so an empty segment is passed on too.
- VLANs: the VID 0, which a request that lacks the field `pvid` sets (no form of the pages sends one); names,
  priorities and the tag mode, which nothing in the other tables depends on; trunks as logic
  ports; the page that gives a VLAN an address and an ACL rule, and the driver's ACL actions for it, which no
  caller sets.
- The ping page, beyond what it does to the ARP table: static variables of one form.
- Of the configuration store: the sectors of the device type and the VLAN page's own, the download of the
  configuration (it only reads), power cuts within an erase.
- The address page changes the DHCP state before it checks the addresses of the same form (`web_ip.c:159`);
  `DhcpClient` allows DHCP to go off at any time.
- The serial console: `cliGetMacAddr` waits for input inside the main loop and its time-out only prints
  (`utilies_flash.c:164-170`), so all timers stand still meanwhile. The fairness of the models excludes it.
  The line buffer has 50 bytes, its counter a limit of 100.
- The TFTP client is compiled but no transfer is ever started; its timer gives up at the first time-out, so
  the retry of its state machine is never made.
- SNMP, UDP, IP, web pages: conversions of one frame into another, or setters in a row. SAL wrappers and
  chip drivers: the vendor's code, external to the models where they depend on it. Loop detection and
  RRCP are in libraries without source. Of syslog, `syslog_init` is compiled out (`LWPS_SYSLOG` is 0); the
  entries that pages, links and the cold start make are in `ConfigStore` as what they do to the configuration.
- Most of the repository's lines are no program of this kind: the register header of the chip has 22819, the
  drivers of its ports and tables some tens of thousands, once for the runtime and once more for the loader,
  and several files at the root are in no build. They read and write registers field by field and keep no
  state of their own, so the share of lines that the definitions stand for stays small.
