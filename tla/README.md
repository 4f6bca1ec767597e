# A TLA+ verification of the gaming traffic prioritizer

The program is a router for a Raspberry Pi 4. It receives Ethernet frames on a
LAN and a WAN interface, translates addresses, sorts the traffic into two lanes,
shapes the slower one and sends the frames on. It also serves DHCP on the LAN,
keeps the LAN interface aligned with the DHCP pool, and has a Qt user interface.
This directory holds specifications of its parts, configurations to check them
with TLC, and proofs that TLAPS checks. Paths below are relative to `src/`.

## 1. The system

Threads and cores:

- Core 2 (WAN to LAN) and core 3 (LAN to WAN) each run two SCHED_FIFO threads of
  one priority. The receive thread copies frames from a packet socket to
  `frame_q`. The process thread takes them through the packet pipeline and then
  serves the shaper (`src/App.cpp`).
- Cores 0 and 1 run the rest at normal priority: the GUI thread, five watchdog
  services (telemetry, L2 refresh, WAN tracker, DHCP worker, QoS), the NAT ticker
  and the control thread that applies new DHCP settings (`src/ControlPlane.cpp`).

Almost nothing is locked. Parts exchange data through single-producer rings,
event descriptors, dirty flags, double buffers and sequence numbers. Most of the
project is about these.

| part | state | operations | what is hard | what should hold |
|---|---|---|---|---|
| SPSC ring, `include/Headers_util.hpp` | slots, head, tail | push, pop | slots are copied without a lock | it is a FIFO queue; no slot is used by both sides |
| DHCP engine, `src/DhcpEngine.cpp` | leases, pool, duration, gateway, request queue | intercept, serve a batch, reconfigure, set gateway | lost answers, expiry, returning clients, reconfiguration | one lease per client, one client per address, renewals acknowledged |
| Shaper, `src/Scheduler_util.cpp` | ring of packets, token bucket | enqueue, process, set rate | congestion, refunds, rate change in flight | order, rate, nothing stuck |
| QoS controller, `src/ParameterServices.cpp` | pending values, dirty flags | GUI handlers, 1 Hz tick | flag and value are separate stores | the last choice reaches the shaper |
| Forwarding engine and packet socket, `src/App.cpp`, `src/RawSocket_util.cpp` | threads, event descriptors, queue, ring shared with the kernel | receive, process, stop | wake-ups, two indices on one ring, poll errors, shutdown | each frame once and in order or counted, stop returns |
| Control plane, `src/ControlPlane.cpp` | threads, stop semaphore, DHCP event | services, apply, stop | settings read while they are assigned; one semaphore for seven threads | settings arrive, stop returns |
| NAT, `src/NatEngine.cpp` | session tables, port and id index, cursors, tick | outbound, inbound, tick | a lock-free reader against a writer that replaces sessions | replies reach the right host; the index is exact |
| Checksums, `src/NatEngine.cpp` | none | 16 and 32 bit updates | carries, the two zeros | an accepted checksum stays accepted |
| LAN configuration and WAN tracker, `src/NetworkConfig.cpp`, `src/ParameterServices.cpp` | pool, file, the kernel's two addresses, gateway, NAT address | sync, worker refresh, apply, restart, tracker tick | ioctls fail; two threads write the gateway; addresses change between read and store | gateway inside the pool's subnet, file equals service, NAT has the WAN address |
| L2 state, `src/ForwardingState_util.cpp` | two snapshots, active index | refresh, two rewrite steps | stale fields in a reused buffer | addresses of a frame belong together |
| Pipeline and counters, `src/App.cpp` | batch and shared counters | on_packet_event, commit, GUI timer | counters move between loads | no byte lost or doubled, no wrapped rate |
| Device table, `src/ParameterServices.cpp` | entries, count, revision, the page's cards | ARP scan, page refresh | entries are rewritten in place under the reader | the page never settles on a stale or torn entry |
| Shutdown and file, `src/main.cpp`, `src/Config.cpp` | file, flags, dialog, threads | load, save, dialog, stop, tail of main, crash and restart | three threads may save; a save is not atomic | no save cut off, choices kept, the program ends |
| telemetry collector, GUI widgets, self test, optimizer | | | | not modelled, see section 8 |

## 2. Modules

Each component is a module of its own; `MC*` modules and `.cfg` files instantiate
it for TLC, and `*Proofs` modules hold the theorems. Names of variables and
actions follow the code. A program counter stands for a position in a function,
one step for one access to something another thread can see. `PROJECT.json` maps
definitions to source lines. Definitions that change another one slightly and
stand right before it (`PopCheckAnyItem` before `PopCheck`, say) are deliberately
wrong variants. They are used by no specification; substituting one must break
the property it is meant for.

- **SpscRing**, **BoundedFifo**. `push` and `pop` as check, copy and publish.
  BoundedFifo says what the ring promises. SpscRing implements it through the
  mapping `Contents`: an item enters when `tail` is stored and leaves when it has
  been copied out, while its slot stays reserved until `head` is stored.
- **DhcpEngine**. The request ring, batches of the worker under `mutex_`, the
  search for a lease, the answers, `reconfigure` and `set_router_ip`. An answer
  may be lost; the history variable `bound` is what each client has received.
- **Shaper**, **QosHandoff**, **Shaping**. Shaper has the token bucket and the
  packet ring of a direction, with the send between two locked sections and its
  three results. QosHandoff has the way of a cap from the GUI to the QoS tick.
  Shaping composes the two: they share the call of `set_rate_limit`.
- **ForwardEngine**. The loops of both threads of a worker, `frame_efd`,
  `stop_efd`, and `stop`. In front of them the socket's ring: the kernel fills
  slots at `head`, the receive thread reads at `rx_idx`, and only the status word
  in each slot says whose it is. `peek_frame` skips frames this machine sent. The
  shaper is reduced to a counted backlog and bucket.
- **ControlPlane**. All services are instances of one loop, with
  `wait_watchdog_period`; the control thread polls both descriptors. The GUI
  assigns the three DHCP settings one at a time. A string read while it is being
  assigned may parse as anything or not at all.
- **NatEngine**, **EchoTable**, **NatIcmp**, **NatMap**, **NatTables**, **Nat**. The
  writer on core 3 takes over a session field by field between an odd and an even
  sequence number. The reader on core 2 loads the fields one by one and compares
  sequence numbers. The constant `LoadsSink` says whether the reader's plain loads may
  pass the second load of the sequence number (section 6). Both pipelines call
  `process_inbound`, but core 3 does so in turn with its own writes, so one concurrent
  reader is enough. Checks that only skip a packet (no WAN address, fragments, protocol)
  are not told apart from packets that never come. Sequence numbers do not wrap in the
  model: a reader would have to be suspended for 2^31 takeovers of one slot. The state
  of the echo table and its properties are in EchoTable, the workers' steps on it in
  NatIcmp. NatTables has both tables side by side and what is promised of them. Nat has
  the steps of both, under their one clock; a core has one packet in hand, of one
  protocol. NatMap says what either table promises: sessions open and close, and a
  packet is translated in one instant by a session the map has. In the mapping a session
  is established while it is active with an even sequence number, and a packet is
  translated at the second load of the sequence number, provided that the comparisons
  after it succeed. Identifiers are exclusive; ports are not (section 7).
- **Checksum**. The RFC 1624 updates as operators over words `0..B-1`.
- **LanConfig**. `NetworkConfig::sync` ioctl by ioctl with failures, foreign
  changes of the interface and the DHCP worker's refresh of the gateway. `on_apply`
  assigns the two strings of the pool one after the other and then signals; the control
  thread parses them one after the other in `applyDhcpConfig` and again in `sync`, and
  a string read during its assignment is any of `Garbled`. `save_config` may fail to
  open the file or to write either line of the pool; the program may die at any step,
  and a restart takes `Default` for a line that the file lacks. Then the WAN address, which `App::init` demands when NAT
  is on and `NatWanTracker` follows. `infer_prefix_covering_pool` is arithmetic on
  bits.
- **L2Forward**. `refresh_l2` lookup by lookup, each of which may fail and then
  leaves old bytes in the buffer, against the two rewrite steps. A MAC address is
  the number of the refresh that obtained it. `Quiet` is a timing assumption:
  refreshes are five seconds apart, a frame is rewritten in microseconds on a core
  of its own, so no core still uses the buffer a refresh starts to fill.
- **Pipeline**, **DeviceTable**, **Dashboard**. Pipeline has interception of DHCP,
  classification, routing by lane and mode, batch statistics and `commit_batch` of
  both cores, and the GUI timer's loads for the rates. DeviceTable has
  `refreshDevices` store by store (a MAC that is being assigned is `Torn`) against
  `DevicePage::refresh` load by load. Dashboard composes them along `timerEvent`.
- **Shutdown**. `load_config`, `save_config` (open, two settings, close) by every
  thread that calls it, the shutdown dialog and its detached saver, the QoS tick
  that takes the flag down, loads the chosen mode and stores it, `stop`, the completion notifier and the tail of `main`. The
  process may die at any point and start again from what the file then holds; a
  line that a cut save did not write is `Missing`. The pool is one line here and two
  in LanConfig. `lost` records a pool that changed after its line was written, `early`
  a mode whose line was written while a tick still had to apply the user's choice.

## 3. What the runs check

| run | module and cfg | properties | what it shows |
|---|---|---|---|
| `spsc_ring` | MCSpscRing | NoSlotRace, IsFifo | The two sides never copy to and from one slot at once. The ring is the queue of BoundedFifo, after any number of wraps. |
| `dhcp_engine` | MCDhcpEngine | OneLeasePerMac, NoDoubleLease, RenewalsAcked | A client that returns late gets no second lease. Within one configuration no two clients hold one address, whichever answers are lost. A renewal in time is acknowledged. |
| `shaping` | MCShaping | DeliveredInOrder, RateCapped, FrontAffordable, CapsApplied | Congestion neither loses nor reorders packets, refunds and refills never exceed rate and burst, no packet is dearer than a full bucket, and no chosen cap is lost on its way. |
| `forward` | MCForwardEngine | NoLostWakeup, NoStrandedFrame, FramesOnceInOrder, StopReturns, FramesProcessed | The receive thread and the kernel stay in step on the ring. Each received frame is processed once and in order, or counted as dropped; none of our own comes back. A frame pushed while the process thread goes to sleep wakes it. `stop` returns also when a thread has left on a poll error. |
| `control` | MCControlPlane | StopReadNeverBlocks, DescriptorsOutliveThreads, ConfigApplied, StopReturns, ConfigEventuallyApplied | The blocking read of the stop semaphore always finds a token. Descriptors close after the joins. Half-written settings may be read, but never stay in force. |
| `nat` | MCNat | IndexIsLatestHolder, DnatExact, IdsUnique, IndexExact, EchoDnatExact, TranslatesAtomically | The port index leads to the latest holder even after the cursor wraps. With loads in program order a reply only reaches a flow that was given the port. The same for echo identifiers, which in addition are never shared; index and sessions are inverse to each other. Both tables implement NatMap, so no packet is translated by a half-written, an inactive or a replaced session. The module's ASSUMEs evaluate the checksum updates over all words of size 6. |
| `lan` | MCLanConfig | SubnetCoversPool, PublishedInPool, ServedIsSaved, GatewayFollowsKernel, NatAddressUsable, WanFollowsKernel | The inferred prefix is the longest that covers the pool. `sync` publishes only a gateway inside it. When GUI and control thread rest, the configured pool is served, and a restart would load it unless the last save failed. NAT never runs without a usable address. A stale gateway or WAN address is repaired. |
| `l2_forward` | MCL2Forward | RewriteFromOneRefresh | Source and destination of a rewritten frame come from one refresh, although failed lookups leave old addresses in the buffers. |
| `shutdown` | MCShutdown | SavesFinishBeforeExit, TailSaveExact, ChoicesSaved, RestartKeepsSaved, ShutdownCompletes | No save is cut off by the exit, except one whose dialog was dismissed meanwhile. After a save and a clean exit the file has what the user chose. After a crash at any point a restart keeps each setting whose line was written. A confirmed shutdown ends the process. |
| `dashboard` | MCDashboard | CountersConserve, RatesNeverWrap, SettledPageIsCurrent | Batch and shared counters add up to what was routed. The unsigned differences the GUI shows never wrap. A device page that sees no reason to rebuild shows the table as it is. |
| `nat_sunk_loads` | MCNatEngine, MCNatSink | DnatExact, violated | With plain loads that pass the second load of the sequence number, a torn session is taken for a good one (section 6). |
| `nat_flow_moves` | MCNatEngine, MCNatMoves | OneSessionPerFlow, violated | A live flow is given a second session and another port (section 6). |

Run one with `tlc -config MCShaping.cfg MCShaping`; each takes about two minutes or less.
Deadlock checking is off where the bounds or a finished shutdown let the model
stop; it is on for the ring, the DHCP engine and L2Forward.

### Bounds, and why they are enough

- SpscRing: three items, four slots; the indices wrap in all relative positions.
- DhcpEngine: two clients (symmetric), three addresses, lease array of two,
  durations 1 and 2, clock to 3, queue of one, batch of two. A lease can expire
  and pass to the other client, a pool can be exhausted, cut, or rejected.
- Shaping: ring of two, rates 1 and 4 (below and above the burst floor of 3),
  sizes 1 to 3 with 3 oversized, four packets, two cap changes. `Horizon` stops
  the clock once five bytes have been allowed since the last change of rate.
- ForwardEngine: one worker, since two share only `running_` and the order of
  `stop`; a socket ring of three slots, a queue of two frames, a backlog of two and
  five arrivals, so that ring and queue wrap, and each of the three is found full.
- ControlPlane: two services stand for six, since the argument is one token per
  thread and the proof is for any number; two edits, so that the second can fall
  into the first one's handling; six initial configurations.
- Nat: two slots, two ports, two probes, expiry after 1 of 3 ticks, four
  sessions. The cursor wraps, slots are replaced while read, both reader attempts
  can fail. `TickMod` is larger than the ticks, so subtraction wraps only where
  the code's does. For ICMP: three slots, two ids, two tries, so allocation can fail;
  four sessions over two ticks or three over three. The tables share only the clock,
  so a behaviour fills one of them. The two flows of one hash are symmetric.
- LanConfig: three-bit addresses, pools at, across and beside powers of two, a
  pool of one address, a refused one, a file without one line; an address or no
  address read from a half-assigned string; two edits, a foreign change, a restart;
  failing ioctls and saves; two changes of the WAN address, so that one can fall
  between the tracker's read and its store; NAT on or off, with no, a loopback or a usable address. LAN and WAN
  share only the start and the restart of the program, so `OneInterface` lets a
  behaviour with NAT change the WAN side and one without NAT the LAN side.
- L2Forward: three refreshes, so that a buffer is filled a second time; the
  gateway and an on-link host.
- Shutdown: two pools, two changes, two openings of the dialog, one restart, which
  may fall between any two steps; any file, with or without either line, to start.
- Dashboard: batches of two, four frames, any number of timer events, so that each
  core may commit twice around one; two devices, scans of up to three rows, so that
  the table overflows; two scans, so that the second rewrites what the page reads.
  The data plane and the telemetry service share no variable, so a behaviour runs
  the timer event against one of them. Addresses and MACs are symmetric.

### Fairness

Weak fairness of each thread whose steps a liveness property needs. Threads on
cores 0 and 1 are scheduled normally. The receive and process threads share a core
at one SCHED_FIFO priority, where neither preempts the other; the process thread
runs because the receive thread blocks in `poll` once the frames have been taken,
and arrivals are finite in the model. Under an endless flood the ring overflows
and frames are dropped, which is outside these properties. In LanConfig the
reads of an interface address by the worker and by the tracker may fail any number
of times, but not for ever. Nothing obliges a
frame to arrive, a user to act, a poll to fail or a socket to be congested.

## 4. What is proved

Eight modules hold theorems, each about one component or a few related ones. The
theorems hold for all values of the constants allowed by the named assumptions (sets
of any size, capacities of at least the value the code needs). They cover every safety
property, action property and refinement of the passing runs. Hardly any of the
invariants is inductive as it stands; each proof first strengthens it, by what is said
in the following.

- **HandoverProofs**, of SpscRing and ControlPlane.
  - RingTypeCorrect, SlotRaceFree, RingIsFifo. `RingInv` adds to the type that a push
    between check and publish still has room (PushHasRoom), a pop has an item
    (PopHasItem), and a copied slot holds the pushed item (PushCopied). RingIsFifo is
    the refinement of BoundedFifo: initial states map to the empty queue, PushPublish
    to a push, PopCopy to a pop, all other steps to stuttering.
  - TypeCorrect, TokenForEveryThread, ClosedAfterJoin, NoChangeLost. `IInv` counts: once
    `wake_watchdog` has run, the semaphore holds as many tokens as live threads need
    (Tokens); and it follows an edit through the dialog (Drafted), the event and the
    control thread's reads (InStep, ReadParsed).
- **LanProofs**, of LanConfig and DhcpEngine.
  - PrefixCoversPool, for every `Width`. The loop of `infer_prefix_covering_pool` stops at
    the first bit in which the ends of the pool differ. Addresses with equal leading bits
    have equal leading parts (SharedPrefix), by induction over the number of bits, and a
    shift keeps the order (ShiftMonotone), so all addresses between the ends share the
    prefix and no longer one serves both ends. ClientsReachGateway combines this with
    GatewayInPool into an action property: when `sync` publishes a gateway, every address
    of the pool it parsed is on one link with it.
  - GatewayInPool, PoolServedAndSaved, NatAddressAlwaysUsable. ServedIsSaved speaks of
    the GUI and the control thread at rest. GuiInv says how much of the dialog's pool
    has been assigned at each position of `on_apply`. An event is pending from the signal
    on, so whatever the control thread read before it is read again; Agreed says, while
    no event is pending and nothing is being assigned, which copies of the pool may
    still lag behind at each position of the control thread, and StartInv says the same
    of `App::init`. Tracked says that the WAN tracker is only ever about
    to store a usable address.
  - TypeCorrect, OneLeaseEach, NoAddressTwice, RenewalsSucceed. `IInv` adds
    HoldersBacked (what a client was promised is backed by an active lease that lasts
    as long) and PromisesWithinDuration (no promise outlasts the current duration, so
    a renewal never shortens one). Without them NoDoubleLease says nothing about the
    table from which the next lease is taken. RenewalsSucceed is the action property:
    the lease that backs a promise is the client's only one, so the search finds it.
- **ForwardEngineProofs**: NoFrameStranded, NoWakeupLost, FramesOnce. NoStrandedFrame
  does not say that the slot the receive thread gives back held the oldest frame.
  InStep does: the occupied slots are exactly those from `rx_idx` up to `head`, around
  the end of the ring. NoLostWakeup speaks of a thread in `poll`; WakeOwed extends it
  back to the moment the queue was found empty. FramesOnceInOrder needs both the order
  of what is still in the ring, seen from `rx_idx` (Ordered), and a count of where each
  frame is (Counted), in which a frame that is in the queue while its slot has not been
  given back counts once.
- **EgressProofs**, of L2Forward and Shaping.
  - OneRefreshPerFrame. The property speaks of the last frame out. `L2Inv` says that
    every snapshot a core may use is complete and of one refresh (Complete), how far
    the other one is filled and that no core uses it (Filling), and that a frame under
    way belongs to its snapshot (Held).
  - PacketsInOrder, RateIsCapped, NoPacketBlocks. Queued and Departed say that the ring
    holds the packets accepted last, consecutively, and that each earlier one is sent
    or lost. Metered counts a packet that is being sent, the tokens in the bucket and
    the time not yet credited as spent, so that a refund gives nothing away.
  - NoCapLost. HandoffInv says where a cap is on its way from the GUI to the shaper.
    ServedShaperIsShaper shows that the composition's steps are the shaper's.
- **DashboardProofs**: NoByteLost, NoRateWraps, PageSettlesCurrent, and DashboardShows
  for the composition, whose steps are steps of Pipeline or of DeviceTable
  (DashboardIsBoth). CountersConserve speaks of a core between two frames; Ledger
  adds what each shared counter still lacks while `commit_batch` is half done.
  ByteLoads and LaneLoads bound what the timer event has loaded from below by its last
  base and from above by the counters, which only grow. PageReads follows the page
  through its loads: what it has read is in the table, unless the scan under way has
  changed an entry and will end with a revision the page has not seen.
- **ShutdownProofs**: SavesFinish, TailSavesExactly, ChoicesAreSaved, RestartKeeps. The
  properties speak of the end of a run. Threads and DialogInv say which threads may
  save at each position of the GUI thread, TailInv and ChoicesInv what the file holds
  while `main` or another thread writes it, KeptInv what `load_config` would make of
  the file at any moment. RestartKeeps is an action property and follows from KeptInv.
- **NatIcmpProofs**, of NatIcmp and Checksum.
  - TypeCorrect, NoSharedId, TablesInverse, for either value of `LoadsSink`, from the
    explicit hypothesis IcmpConstants. `IInv` says that index and sessions are linked
    both ways except for the slot being taken over, for which Phase says how far the
    writer is. RepliesReachTheirPing, under `~LoadsSink`, is the sequence lock (see
    NatProofs); here a failed allocation is a third place that ends a takeover.
    EchoesTranslateAtomically is the refinement of NatMap with exclusive identifiers: a
    session opens when it is activated, and by then the index entry of its identifier
    leads to it, so no other active session can have it.
  - IpChecksumSound, TcpUdpChecksumSound, IcmpChecksumSound, for every word size
    `B >= 4`. Two folds suffice for three words (Folded); an update changes the sum by
    the difference of the words modulo `B - 1` (UpdateSum), and the remaining case is
    the one where the sum may land on the other zero.
- **NatProofs**, of NatEngine and Nat.
  - LatestHolderIndexed, RepliesReachTheirFlow, from the explicit hypothesis
    NatConstants. Indexed says what the port index is at each stage of a takeover: old
    port linked, unlinked, new port not linked yet. The second theorem is the
    correctness of the sequence lock: the number of a slot is odd exactly while its
    fields change (Parity), outside of that the fields belong together (Paired), so a
    reader that still sees the number it started from has read them as they are
    (Reading). It needs `~LoadsSink`; the first does not.
  - PortsTranslateAtomically is the refinement of NatMap, also under `~LoadsSink`: the
    store that makes the number odd closes a session, the later of the stores that make
    it even and set `active` opens one, the reader's second load of the number
    translates or is invisible, and the end of the call is NatMap's Done. At that second
    load Reading says that what was loaded before is in the table now, so the session
    exists.
  - NatPortsIndexed, NatIdsUnique, NatIdsIndexed, NatRepliesExact, NatEchoesExact and
    NatTranslatesAtomically, of the engine whole: a step of it is a step of one table or
    leaves that table alone (BothEngines), so the theorems about NatEngine and, through
    an instance of NatIcmpProofs (`EE!`), those about NatIcmp hold of it. The module
    extends NatTables, where the properties are defined, and instantiates Nat (`N!`):
    the provers become too slow when the definitions of both engines are in scope. Both
    tables may fill at once; run `nat` fills one of them per behaviour (OneTable).

Only model-checked:

- all liveness properties (StopReturns, FramesProcessed, ConfigEventuallyApplied,
  GatewayFollowsKernel, WanFollowsKernel, ShutdownCompletes): TLAPS does not handle
  fairness and ENABLED.

Two remarks on the induction in LanProofs. The library's induction theorems take an
operator as parameter, which the provers cannot instantiate; SetInduction states
induction for a set of numbers instead and follows from the well-foundedness of `<`.
And tlapm accepts the equation of a recursive function whether or not a function
satisfies it. For Pow2, the only recursive function in a module with theorems, the
existence of a solution is therefore proved first (DoublingExists), and the step that
unfolds Pow2 cites it.

## 5. What the proofs assume

SpscRing: a capacity of at least two and some item. DhcpEngine: addresses and durations
are numbers, the lease array is not empty. ControlPlane: a finite set of services.
ForwardEngine: a finite set of workers, ring, queue, backlog and bucket not empty.
Pipeline: frames have a size, a batch has a frame. Dashboard: the device table has a
row, and no address is the value for none or for a torn one. NatEngine and NatIcmp:
tables and ranges are not empty, the probe window fits into the table. Checksum: `B >=
4`. Shaper: the ring is not empty and the largest frame costs no more than the smallest
burst, as in the code (2048 and 15000 bytes). LanConfig: pools and addresses of `Width`
bits; a pool from the GUI has its start below its end, as `on_apply` demands; the
defaults are addresses; a half-assigned string reads as an address or as no address. L2Forward:
the gateway is a unicast destination; the timing assumption Quiet is part of the model
(section 2). Shutdown: the values that stand for a missing line and for a mixed file are
not settings. TLC evaluates these assumptions in every run that extends the module
(those of NatEngine and NatIcmp as parts of the assumption of Nat).

The memory model is sequential consistency except where a module says otherwise.
For the ring, the dirty flags and the event descriptors the acquire and release
operations of the code justify it. For the NAT reader they do not; see next.

## 6. The disagreements

`src/NatEngine.cpp:296-300` reads a session between two loads of `seq`. The second
one is an acquire load, which keeps later accesses below it but lets the plain
loads of `internal_key` and `external_port` before it sink past it. The comparison
of the two sequence numbers then says nothing about them. With `LoadsSink = TRUE`
(what the C++ memory model and a Cortex-A72 allow) run `nat_sunk_loads` finds a
lookup that passes the comparison with a key and a port of different sessions, so
a reply goes to a host that was never given the port. README.md:20 promises
"User-space NAT with SNAT, DNAT, ICMP mapping and session expiry." An acquire
fence between the plain loads and the second load would give the reader the order
of the passing run `nat` (`LoadsSink = FALSE`). The echo lookup at line 153 has
the same form.

`src/NatEngine.cpp:218-247` probes a window of slots and takes the first one that
is free or expired; only slots before that are compared with the flow. A session is
put into the first free slot of its window, so it may lie behind another one. When
that one expires, the flow's next packet takes it over and is sent from a new port,
although its own session is live: run `nat_flow_moves` finds the flow with two
sessions, both used within the expiry time. The same README line speaks of "session
expiry": a mapping should last until its session expires. A connection that is moved
in this way breaks, because the remote end knows it by its old port. Looking for the
flow in the whole window before taking a slot would keep it. `process_outbound_icmp`
(lines 73-113) has the same form.

## 7. Other observations

Met while modelling; the models contain this behaviour. Where a property of a passing
run has to except it, the item says so.

- `src/App.cpp:542`: the process thread polls without timeout after serving the
  shaper, so a backlog left for want of tokens waits for the next frame.
- `src/NatEngine.cpp:231`: a new session takes the next port without asking whether
  a live session holds it; after a wrap the older session gets no more replies.
  `alloc_external_icmp_id` does ask.
- `src/NatEngine.cpp:221`: the tick is loaded once per packet. A session refreshed
  by a reply after that load is newer than `now`, the unsigned difference wraps,
  and the session counts as expired.
- `src/NatEngine.cpp:252`: an update may produce zero, which the next translation
  takes for "no checksum".
- `src/DhcpEngine.cpp:226`: a successful `reconfigure` forgets running leases; a
  rejected one has already changed the duration. NoDoubleLease is therefore about
  one configuration.
- `src/App.cpp:148`: if `sync` cannot bring the interface into the subnet of a new
  pool, the pool is served and saved all the same, with a gateway outside it.
- `src/GUI/Dashboard.cpp:1154`: the dialog can be dismissed from the keyboard while
  its thread saves; the process may then end during that save. This is the
  exception in SavesFinishBeforeExit.
- `src/App.cpp:150`: a save that cannot open the file is only logged, and a `dprintf`
  that fails is not noticed at all. The pool is then served but a restart loads an older
  one or the default. This is the exception `unsaved` in ServedIsSaved.
- `src/GUI/Dashboard.cpp:1159`: acceleration toggled less than a tick before the
  dialog saves is not in the file, because the QoS tick has not copied it yet or is
  between its exchange and its store (`src/ParameterServices.cpp:146`), and
  the dialog clears `SAVE_ON_EXIT`. This is the exception `early` in ChoicesSaved.
- `src/Config.cpp:101`: a crash between the truncation and the last line leaves a
  file without the rest, and the next start takes the defaults for it without a
  message. RestartKeepsSaved says that it does not reach beyond those lines. Between
  the two lines of the pool it leaves a new start with the default end, which
  `App::init` refuses if it lies below the start.
- `src/App.cpp:150`: the control thread's save and the dialog's may overlap; the file
  is then a mixture until the next save. This is the exception `Mixed` in
  ChoicesSaved; the save of `main` itself never ends so.
- `src/GUI/Dashboard.cpp:1201`: the elapsed time is clamped to at least 20 ms while
  the timer fires every 16 ms, so the rates shown are a fifth too low; and 25 ticks
  are 0.4 s, not the second of the comment at line 1229.
- `src/GUI/Dashboard.cpp:1240`: what a core commits between the loads for the rates
  and the loads for the next base appears in no rate.
- `include/Processor.hpp:69`: small frames that are not IPv4, ARP among them, are
  shaped like large ones.
- `include/Scheduler_util.hpp:33`: each change of rate starts with a full bucket.
- `enable_nat` is never stored after `load_config`, and caps set in the GUI are
  never saved; no code answers `config/config.txt:29` on toggling services.

## 8. Not modelled

- NAT across a change of the WAN address: the tracker's store is modelled, but
  sessions that outlive the address are not; the code keeps them and translates
  their packets with the new address.
- NAT's writer on a weakly ordered processor: its stores are in program order here,
  while the plain ones may become visible before the sequence number is odd.
- Packet socket: opening and mapping it, POLLERR, and the use of one direction's
  receive socket as the other's send socket after a poll error. `do_poll` has no
  caller.
- Scheduling classes: the receive and the process thread of a direction share a core
  at one SCHED_FIFO priority; section 3 says how fairness stands in for this.
- Telemetry collector: CPU load, temperature and memory are read from `/proc` and
  `/sys` into atomics for display. Its device scan is in DeviceTable.
- GUI widgets and style: only handlers that touch shared state are modelled.
- `Network_util`: parsing of `/proc` and `/sys` files; their results are the lookups
  of L2Forward.
- Self test, system optimizer, types and units: no concurrent state.

## 9. Plan

Done, in this order: ring, DHCP engine, shaper, forwarding engine, control plane,
NAT and checksums, LAN configuration, L2 state, QoS hand-off and its composition
with the shaper, pipeline, shutdown; proofs for ring, DHCP, control plane, ICMP
NAT and checksums. Then: the socket ring, the WAN tracker, the device table and the
GUI timer over both, both NAT tables under one clock, crash and restart; proofs for
forwarding engine, pipeline, TCP and UDP NAT and the two sequence locks. Then proofs
for the shaper and its composition, L2 state, LAN configuration and WAN tracker,
shutdown and restart, the device table, each frame once and in order, renewals, and
the NAT engine whole. Then the abstract NAT and the proofs that both tables implement
it, and the subnet arithmetic for addresses of any width.

Next, modelling: the writer's stores in NAT out of program order; a change of the
WAN address under live sessions; POLLERR and the shared socket.

Next, proving: that the shaper implements an abstract specification, a lossy FIFO with a
rate.
