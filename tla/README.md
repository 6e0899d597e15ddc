# Verification of OLSRd2 / OONF

TLA+ models of the mesh routing daemon in `src/` (OONF framework, NHDP,
OLSRv2, DLEP), the TLC runs that check them and the TLAPS proofs about them.

`PROJECT.json` lists the components, the runs, the mutants that show each
property can fail, the map from definitions to source lines, the findings and
the hazards the properties are aimed at.

## The system

OLSRd2 is one process with one thread. `_handle_scheduling` (`oonf_socket.c`)
is its loop: walk the timers that are due, wait for events until the next timer,
call the handlers of the sockets. Every handler and callback runs to its end
before the next one starts, so the models have one action per handler. What is
concurrent is *which* handler runs next: packets of many routers, timers,
kernel (netlink) answers, configuration and interface changes interleave
freely, and each of them leaves state behind that the next one finds. Between
routers everything is asynchronous and lossy.

### Inventory

| component | state | operations | interacts with | hard part | what makes it correct |
|---|---|---|---|---|---|
| Timer scheduler `oonf_timer` | tree of timers by clock, class flags | add/remove class, start, stop, set, walk | everything: callbacks | a callback stops, restarts or frees its own timer | no freed timer touched, timers run as asked, each walk ends |
| Duplicate set `oonf_duplicate_set` | window of sequence numbers per originator | entry_add, test, expiry | forwarding and processing in `olsrv2.c` | wrap, reordering, restart of an originator | each message once, none lost, nobody locked out |
| NHDP database `nhdp_db` | neighbors, links, addresses, two-hop addresses, five kinds of timers | add/remove/move, status update, timer callbacks | reader, writer, domains, routing | cached status and counters, lost addresses | pointers valid, counters equal what they count, silence forgets all |
| NHDP reader `nhdp_reader` | static session `_current` | two passes over a HELLO, drop paths | RFC 5444 reader, database | addresses that move between neighbors, messages dropped half way | a HELLO leaves counters balanced and one owner per address |
| NHDP domains, MPR `nhdp_domain`, `mpr/` | metrics, willingness, MPR flags per link and domain, cached `_node_is_selected_as_mpr` | MPR calculation, HELLO TLVs | database, TC writer, forwarding | links that change without or after a calculation, caches | marks follow the neighborhood, every two-hop neighbor covered |
| OLSRv2 core, writer, originator | originator, old originators, ANSN, message sequence number, processed and forwarded sets | choice and expiry of originators, TC generation, processing and forwarding decision | NHDP, RFC 5444 writer | echoes, relays, overtaking, changes of the originator | every TC once to every database, none gets older |
| OLSRv2 topology `olsrv2_tc` | nodes, edges with inverse, attached endpoints | node/edge/endpoint add and remove, expiry | reader, routing | virtual nodes and edges | pairs and endpoints consistent, content is what was advertised |
| TC reader `olsrv2_reader` | static session `_current` | TC checks, addresses, end | RFC 5444 reader, topology | outdated and repeated TCs, ANSN wrap | only the latest answer set counts |
| OLSRv2 routing `olsrv2_routing` | working queue, routing entries, trigger, rate limit, kernel queue | Dijkstra, NHDP routes, set/remove, answers, shutdown | NHDP, topology, Linux routing | answers that arrive after the entry changed | routes are shortest, the kernel gets them |
| Linux routing and netlink `os_routing_linux`, `os_system_linux` | feedback tree, buffers, transit count, timer | set, interrupt, flush, answers, timeout | routing, kernel | lost and late answers | no double request, every request ends |
| DLEP `generic/dlep` | UDP discovery, one session per end, local neighbors, ack timers | handshake, heartbeats, destinations, termination | layer 2 database, stream sockets | both ends, broken connections, late acks | ends agree on the session, no metrics lost, no session hangs |
| Layer 2 database `oonf_layer2` | networks, neighbors, data with origins | set, commit, remove of an origin | DLEP, netlink listeners | data that outlives its origin | data goes with its source |
| RFC 5444 reader, writer, targets | consumer tree, messages and packets under construction | parse, aggregate, flush | NHDP, OLSRv2 | drop contexts, fragmentation | callbacks in order, nothing half-sent |
| Sockets, telnet, configuration, classes, interfaces, plugins | see `PROJECT.json` | | | | |

## Modules

| module | models | checked by | proofs |
|---|---|---|---|
| `OonfTimer` | `oonf_timer.c`, the loop of `oonf_socket.c`, `oonf_clock.c` | `MCOonfTimer` | `OonfTimerProofs` |
| `DuplicateSet` | `oonf_duplicate_set.c` | `MCDuplicateSet` | `DuplicateSetProofs` |
| `NhdpDb` | the operations of `nhdp_db.c`, as functions from database to database | through `Nhdp` | `NhdpProofs` |
| `Nhdp` | HELLO processing, timers and interface events on `NhdpDb` | `MCNhdp` | `NhdpProofs` |
| `MprSelection` | `selection-rfc7181.c`, a pure algorithm on a neighbor graph | through `NhdpMpr` | `NhdpMprProofs` |
| `NhdpMpr` | the flooding MPRs and MPR selectors of a router that follow its neighborhood (`mpr.c`, `nhdp_domain.c`, end of `nhdp_reader.c`) | `MCNhdpMpr` | `NhdpMprProofs` |
| `TcBroadcast` | abstract: what flooding promises, each TC at most once to every other router | implemented by `OlsrFlood` | `OlsrFloodProofs` |
| `OlsrFlood` | a mesh of routers that make, relay and process TCs (`olsrv2.c`, `olsrv2_writer.c`, `olsrv2_originator.c`, `olsrv2_reader.c`, `oonf_rfc5444.c`) | `MCOlsrFlood` | `OlsrFloodProofs` |
| `OlsrTc` | `olsrv2_tc.c` and `olsrv2_reader.c` | `MCOlsrTc` | `OlsrTcProofs` |
| `OlsrDijkstra` | `olsrv2_routing.c`: Dijkstra and the NHDP routes, on the database of `OlsrTc` | `MCOlsrTc` | `OlsrTcProofs` |
| `OlsrRouting` | `olsrv2_routing.c` from Dijkstra's result to the kernel, with `os_routing_linux.c` and `os_system_linux.c` | `MCOlsrRouting` | `OlsrRoutingProofs` |
| `Dlep` | a DLEP radio and a DLEP router: `dlep_session.c`, `dlep_interface.c`, `ext_base_proto/`, with what `oonf_layer2.c` and `oonf_stream_socket.c` do for them | `MCDlep` | `DlepProofs` |

How they fit together: `OonfTimer` justifies the fairness the others assume of
timers and sockets. `DuplicateSet` justifies that `OlsrFlood` has sets of
(originator, sequence number) for the processed and forwarded sets. `NhdpMpr`
is the condition `Covered` of `OlsrFlood!FloodReaches`. The content that
`OlsrFlood` numbers is the database of `OlsrTc`; `OlsrDijkstra` is computed in
every state of that database, and its result is the input `want` of
`OlsrRouting`.

### State and actions

**OonfTimer.** `tree`, `due` (`_clock` minus now), `period`, and per class
`usage`, `incb` (`_timer_in_callback`) and `stopflag` (`_timer_stopped`). Owners
call `StartExt`, `Stop`, class add and remove, and allocate and free the objects
a timer is part of, from handlers or from inside a callback (`OwnerRuns`). The
walk is split where the code calls out: `WalkFires` up to the callback,
`CallbackReturns` after it. Time is kept modulo the slice, so behaviours are
infinite without a bound on time. `Jitter` is any value up to `jitter_pct`.

**DuplicateSet.** One entry per originator with its bit history; messages carry
an unbounded number whose remainder is what is on the wire. `EntryAdd*` is
`oonf_duplicate_entry_add`, `DuplicateTest*` is `oonf_duplicate_test`, `Tick`
the validity timers, `SetRemove` the removal of the set. `seen`, `newest`,
`rejects` are history.

**NhdpDb, Nhdp.** The database is one record: neighbor and link slots (the
heap), link addresses per interface, neighbor addresses, two-hop addresses, all
with their timers. `Hello` is both passes of `nhdp_reader.c`; the three drop
paths are `HelloBadMessageTlv` (constraints fail before `_current` is reset),
`HelloBadAddressTlv` (an address of pass 1) and `HelloBadPass2Tlv` (an address
of pass 2, when those before it are processed). The use of a freed object sets
`undefined`, after which nothing happens.

**MprSelection, NhdpMpr.** The selection works on a graph [n1, will, d1, d2,
direct], step by step as `mpr_calculate_mpr_rfc7181` does: WILL_ALWAYS, the only
way to an address, then the best of the rest by willingness, reachability and
degree. A link of `NhdpMpr` has its cached status, its symmetry timer, and the
domain data a HELLO gives it. `ReceiveHello` is the end of pass 2 in the order
of the code: addresses and TLVs; for a HELLO that hears this router the symmetry
timer, with which `nhdp_db_link_set_symtime` updates the status of the link;
`nhdp_domain_neighbor_changed`, which calculates the MPRs; and the last update of
the status, which finds something to do only if the HELLO lost this router or
did not list it on a link whose timer an interface event has stopped.
`DropHello` (`_cleanup_error`), `InterfaceDown` (an interface without address)
and `HeardTimeout` change links without a calculation. The history variable
`unseen` says which of these came after the last calculation.

**OlsrFlood.** Every router has its originator and old originators, message
sequence number, ANSN, `dirty` (`neighbor_metric_changed`), processed and
forwarded sets, what its database holds of others, the queue of its multicast
target with the aggregation timer, and a socket buffer. `GenerateTc`, `Flush`,
`HearOwn` and `Receive` are the handlers; `InterfaceEvent`,
`NeighborMetricChanges` and `OldOriginatorExpires` change what they see. Packets
are lost at the routers `lossy`, and packets of different neighbors overtake
each other. A new TC moves the ANSN if metrics have changed, and also if a
HELLO that lists this router was received in between (`heard`), since every
such HELLO sets the flag.

**OlsrTc.** Nodes, edge matrix, attachments and endpoints. A TC is one action:
`TcOutdated`, `TcProcessed`, `TcIgnored`, or `TcWithoutTlv`, where the address
callbacks run although `_cb_messagetlvs` did not. `adv` remembers what a node
said under its ANSN.

**OlsrDijkstra.** Operators, no state: `Start` puts the usable neighbors into
the working queue, `Handle` takes one target out, `RunDijkstra` is the loop,
`NeighborEntries` adds the routes of NHDP. The surroundings of the router
(neighbors with links, metrics and two-hop addresses, its originators,
addresses and attached networks) are a constant. `WaysTo` is the reference:
all ways without a loop, by enumeration.

**OlsrRouting.** `want` is what Dijkstra would compute. `TimerFires` is
`_cb_trigger_dijkstra` with `olsrv2_routing_force_update`; `ReadAnswer` is
`_netlink_handler` with `_cb_route_finished`; `Flush` hands one netlink buffer
to the kernel (external), which answers each request. `Prompt` says whether the
kernel answers before the rate limitation timer ends, whose shortest time is
one slice of the timer scheduler (100 ms); without it answers are late or lost
and the netlink timeout fires.

**Dlep.** Two sessions, each with the only signal type it accepts
(`restrict_signal`), its heartbeat and its remote timeout; one queue per
direction for what the other end has generated and this end has not processed
(buffer of the writer, network and buffer of the reader in one); the layer 2
database of the radio, its `local_neighbor_tree` with the `changed` flags, ack
timers that survive their session (`orphan`), and what the router's database
has from DLEP. A discovery with its answer is one step. The network may break
and heal (`LinkChanges`), both processes may die and restart, and a late
acknowledgment kills the radio (`RadioDies`), as the code does. Signals that
were sent and not flushed may still be read after the other end closed. The
configuration is `not_proxied`: the radio reports its own neighbors, and both
ends accept one session.

## Runs

| run | shows | states |
|---|---|---|
| `MCOonfTimer` | freed timers are never touched, timers run exactly as asked, `usage` is right, no timer fires twice in a walk, every timer left running fires | 290 000 |
| `MCDuplicateSet` | exact window, no double accept, no lost message, no lockout, across the wrap | 57 000 |
| `MCNhdpStable` | one router on two interfaces, one of whose HELLOs has no local address: cached status, symmetric counter and order of timers agree, every neighbor has a link and every symmetric one a usable address, silence empties the database | 108 000 |
| `MCNhdpMixed` | addresses and originators that move between two routers, all kinds of dropped HELLOs, interface events: valid pointers, unique originators, running vtime timers; after a HELLO none of the old owners of its addresses is left; a link or neighbor in work is freed only by a HELLO that merges two neighbors | 148 000 |
| `MCNhdpMpr` | three neighbors with seven different HELLOs, dropped HELLOs, interface events: MPR marks stale only after a change of links that the code does not calculate for, each mark with a reason, and the cached answer about selectors never misses one | 183 000 |
| `MCNhdpMprCover` | violation: a two-hop address without MPR | |
| `MCOlsrFlood` | four routers in a ring, a line, and with one-way links; loss, changes of originator and metrics: flooding implements `TcBroadcast`, hops stay bounded, no database gets older, and without loss every TC reaches everyone | 118 000 |
| `MCOlsrTc` | TCs of three routers in any order with expiry, malformed and incomplete TCs: pointers consistent, the content is exactly what was advertised, silence empties the database; in each of these databases the routes of three surroundings are shortest | 26 000 |
| `MCOlsrRoutingPrompt` | all topologies of two destinations, a table change, a shutdown: the kernel gets exactly the computed routes, directly reached gateways first, and shutdown leaves only routes whose request was open | 70 000 |
| `MCOlsrRoutingSlow` | errors, lost answers, timeouts: the `assert` of `os_routing_linux_set` holds, `in_processing` is true, no topology change is forgotten | 2 420 000 |
| `MCDlep` | discovery, handshake, neighbors and metrics, broken network and crashes: the ends agree on the session, no metrics are lost, no session hangs | 101 000 |
| `MCDlepLost` | violation: a neighbor the radio lost stays known to the router | |

### Bounds

- `OonfTimer`: two timers of one periodic class (one with full jitter, so that
  any delay down to 0 occurs) and a one-shot timer; `Slice` 2 and steps of 0 or
  1 give early, exact and late walks. Starts with time 0 and with a first time
  longer than the interval are the edge cases of `_calc_clock`.
- `DuplicateSet`: a window of 3 in a space of 8, `MaxTooOld` 2, and messages
  numbered up to 9, so that the space wraps; the proofs cover every size.
- NHDP: `NeighSlots` and `LinkSlots` are one more than a message can need;
  `RoomForHello` guards allocation. `MaxCount` bounds `symmetric`, from which
  the code does not take a link that is removed while symmetric, and from which
  an interface event takes links twice, so that it can drift; two drifts are
  explored. `_process_count` needs no bound: pass 1 counts anew. Validity
  times 1 and 2 against a hold time of 1 or 2 give every order of the three
  link timers.
- `NhdpMpr`: three neighbors and three addresses, one of them a neighbor itself,
  are the least for a second choice among relays; the seven HELLOs differ in
  willingness, metrics and what they list. `MaxChanges` 3 is one for every
  neighbor, or a neighbor that changes what it says, or falls silent, beside
  another.
- `OlsrFlood`: four routers make a ring in which a TC and its echo meet at the
  far end, and a line of three hops; five meshes are the constants of one run.
  Two TCs (`MaxTcs`) can overtake each other; with `HopLimit` 5 the hop limit
  does not end a flood before the duplicate sets do. The guard `UnderWay`
  keeps an old originator as long as a TC with it is under way
  (O_HOLD_TIME is far longer than any packet lives).
- `OlsrTc`: `HalfAnsn` 2 makes the ANSN wrap after four TCs. Three nodes are
  needed for a virtual node with two advertisers. The TCs are fixed per
  originator and ANSN; they add, drop and change edges, metrics and prefixes.
- `OlsrDijkstra`: the surroundings have two neighbors with ways through each
  other that are cheaper than the direct link, a neighbor whose best link is
  not symmetric, one with an infinite incoming metric, and a router that has
  a former originator, own addresses and attached networks in the topology.
- `OlsrRouting`: two destinations are needed for a gateway; `PageRequests` 1
  makes two requests two buffers, `MaxPending` bounds requests under way and is
  large enough for a second change before the first answer. A gateway has in
  these topologies a direct route, or none if its address is not routable. One
  that is reached through another gateway (findings, `olsrv2_routing.c:615`)
  takes three destinations; `GatewayFirst` says nothing of either, and is proved
  for any of them.
- `Dlep`: one neighbor with two values of its metrics; three signals in flight
  (`MaxInFlight`) let an answer, a heartbeat and an update cross. The safety
  properties were also run once with 4 in flight (387 000 states) and with two
  neighbors (4.6 million states), with the same answers.

### Fairness

Timers (`TimerFires`, `Tick`, `NodeTimeout`, `SchedulerStep`, and the
aggregation timer's `Flush` of `OlsrFlood`) and the handlers of sockets with
data (`Flush` and `ReadAnswer` of netlink, `Reader` of `OlsrFlood`,
`RadioReceive` and `RouterReceive` of `Dlep`) are weakly fair: the loop walks
the timers and polls the sockets in every round, which `OonfTimer` itself checks
for timers. So is the timeout of each DLEP stream. Time goes on: `Wake` with a
positive step is strongly fair, as it is only enabled once per round. Nothing
is assumed about other routers, the network or users: HELLOs, TCs and topology
changes may stop at any time, and the liveness properties are about what
happens then (`silent`, `calm`). `FloodReaches` has its condition in the
property: no lossy router, and MPRs that cover.

## Proofs

All are proved for every value of the constants under the named assumptions of
the modules, which TLC evaluates on the runs' instances.

- `OonfTimerProofs`: `OnlyLiveTouched`, `AlwaysAsAsked`, `FiresOncePerWalk`,
  `UsageIsExact`, `TypeCorrect`. `OncePerWalk` rests on `NotDueAgain`: whatever
  fired in this walk and is in the tree is due in the future, except the
  periodic timer whose callback has not returned. That needs `_calc_clock` to
  round strictly up (`ClockAhead`, with `JitterBound` for a jitter of at most
  100 percent), and `KnowsRunning`, that a stop in a callback marks its timer.
  `UsageCounts` is inductive given the shape of the state, by the cardinality
  lemmas for finite sets.
- `DuplicateSetProofs`: `TypeCorrect`, `WindowIsExact`, `NoOriginatorLockedOut`,
  `NeverAcceptedTwice`, `FreshNeverRefused`. The signed difference of two wire
  numbers equals the difference of the messages when they are at most half a
  space apart (`DifferenceOfWire`). `WindowExact` alone is not inductive: a
  shift brings in zero bits, which is right only if nothing above the newest
  message was accepted (`KeyInv`).
- `NhdpProofs`: `DatabaseAlwaysSound`, `TimersInOrder`, `StatusStaysCached`,
  `OldOwnersGone`, `LinkStateAlwaysCached`, `NeighborsStayUsable`,
  `MergesAloneFree`, `TypesAlwaysOK`. Every operation of `NhdpDb` has one
  lemma for its value and one for what it keeps. There are three invariants,
  each on top of the one before.
  `DatabaseSound` is not inductive: in the middle of a HELLO the link in work
  has no timers yet, and a link may only be freed if the timers that outlast
  each other are in order. `DbInv` adds types, pointers in both directions, and
  for each link that its vtime runs, its timers are in order and, if no
  interface goes down (`Unstable = {}`, since `nhdp_db_link_set_unsymmetric`
  leaves the status), its status is cached; `Working` says the same in the
  middle of a HELLO, for all links but the one in work. The first three results
  hold for every HELLO, valid or dropped, and for every interface event.
  `OldOwnersGone` assumes of each HELLO that its addresses are distinct and that
  one is of its interface (`WellFormedHellos`), and nothing of dropped HELLOs or
  interfaces. Without it the counts are wrong: the second round of a repeated
  address finds it at the neighbor the first has moved it to, and the source
  address of a HELLO without THIS_IF address is processed but never counted. The
  loop invariant of pass 2 is `Balanced`: after k addresses, every neighbor, and
  every link of the interface, has as its count the number of later addresses of
  the HELLO that are still its own, and no old owner is left without one.
  `MergesAloneFree` assumes nothing of HELLOs: while the addresses of a HELLO
  belong to at most one neighbor, all of them are at the neighbor in work or
  at none (`OneOwner`), and a source address that pass 1 has not counted makes
  the count of its owner negative, not zero, so that no neighbor is removed; the
  loop invariant of pass 2 is `SoleSender`. A HELLO that merges neighbors can
  free the link in work (findings, `nhdp_reader.c:308`).
  `TypesAlwaysOK`, `LinkStateAlwaysCached` and `NeighborsStayUsable` assume
  `SteadyHellos`: every address belongs to one router,
  every address heard through one of our interfaces to one interface of that
  router, one address of which all HELLOs from there have, and each HELLO names
  its router by an originator that is none of its addresses. Other addresses
  come and go, an interface with a single address may leave it out of its
  HELLOs, validity times are arbitrary. `MCNhdpStable` satisfies it, which TLC evaluates
  (`StableAreSteady` in `MCNhdp`). The invariant is `Steady`: `DbInv`, counters
  and marks that agree with the links (`Usable`), every neighbor with an
  originator (`Named`), every address at the neighbor and link of its router
  (`Owned`), and every link with the address all HELLOs of its interface have in
  common (`Homed`). Hence a HELLO finds the link and neighbor it is from, or
  none, and moves nothing from another (`Ready`, `Walked`), so no link is freed
  while it is symmetric or in work. `Received` is what is left to show at the
  end of the HELLO, when the sender has no name yet. The condition on
  originators is needed: a neighbor's addresses can expire while its link is
  still heard, if the next HELLO takes longer than the hold time; a HELLO whose
  originator names nobody then creates a second neighbor, and the link stays
  with the first. So is the one on moving addresses: a link removed in pass 2
  while symmetric stays in the counter of its neighbor.
- `NhdpMprProofs`: `TypeCorrect`, `SelectorsAlwaysKnown`, `MarksFollowLinks`,
  `MarksAlwaysJustified`. The neighbor graph does not look at the marks
  (`GraphIgnoresMarks`), so setting them is accurate right after a calculation
  (`UpdateMprsAccurate`); every event ends with a calculation on the present
  links, except those that `unseen` notes: a status updated behind the
  calculation or without one, a dropped HELLO, an interface without address. The
  cached answer about selectors never misses one, as no event without a
  calculation makes this router chosen. That a
  mark has a reason is an induction over the rounds of `_process_remaining`
  (`RoundReason`), and that a marked neighbor is willing (`WillingOnly`) is
  inductive with the rest.
- `OlsrFloodProofs`: `TypeCorrect`, `FloodEnds`, `FloodingIsBroadcast` (the
  refinement of `TcBroadcast`), `DatabaseNeverRegresses`, for any number of
  routers, meshes and TCs. The invariant: a TC carries an address and a number
  of its maker, which the maker never notes as forwarded (`MadeInv`); copies
  under way were made, their maker still knows their originator as its own
  (`FlyingInv`), and their hop limit is at least `HopLimit` less the routers
  that noted them; numbers are bounded by the TCs made. For the database,
  `OrderInv`: of two TCs of a router the one with the higher ANSN has the
  newer metrics, which holds because `dirty` stays set until the ANSN has
  moved. The assumption is that no two routers share an address.
- `OlsrTcProofs`: `TypeCorrect`, `PointersAlwaysConsistent`,
  `AdvertisedAlwaysExactly`, `RoutesAlwaysShortest`. Edges are in pairs between present nodes, one of
  each pair real (`Paired`), endpoints have exactly their nodes (`Attached`), a
  running validity timer means a present node (`Timed`). These survive even a
  TC without mandatory TLV. As long as there was none, virtual nodes have
  neither real edges nor networks and exist exactly while edges to them do
  (`Needed`), and the database holds what each node said under its ANSN
  (`SaysOf`). `AdvertisedExactly` lacks that part and is not inductive. An
  operator of the model has one lemma for its value and one for what it keeps;
  `OthersKept` is the frame for the nodes it does not concern. A TC dropped as
  outdated keeps the node's ANSN because `IsSmaller` is irreflexive.
  `RoutesAlwaysShortest` takes the types, `Paired` and `Attached` of the
  database, and any finite sets of nodes and prefixes and any surroundings. The
  invariant of the working queue, `Searching`: what a target that is done leads
  to is queued or done at no higher cost (`Seen`); what is queued has a way of
  its cost, for nodes along targets that are done (`Queued`), so that one edge
  more makes no loop (`LongerPath`); what is done has an entry as good as its
  way, and nothing that waits is nearer (`Settled`), except endpoints of one
  node (`Alone`), which get their entry without the queue. Each turn is done
  with one target more, so the bound on the turns empties the queue; then no
  path is shorter than what is known of its end (`NoShorterPath`). An entry is
  never made up (`Honest`) and what is covered stays covered (`Covered`)
  through the entries that NHDP adds. What `SurroundingsAssumption` needs for
  it: metrics are numbers, neighbors have distinct originators, and nobody
  attaches what was an originator of this router and is not its own any more
  (`_insert_into_working_tree` refuses it as local, although there is a way).
- `OlsrRoutingProofs`: `AssertNeverFails`, `ProcessingIsTrue`, `FeedbackAgrees`,
  `TriggerNeverLost`, `TypeCorrect`, `KernelAlwaysAgrees`, `GatewayAlwaysFirst`,
  from four invariants, each with the one before it. `Inv` is types and flags:
  a request is sent only for entries that are not in processing, and those are
  not in the feedback tree. `FullInv` adds that a wanted request or answer is
  of a route in the feedback tree, so that the answer finds an entry in the
  routing tree (`TypeOK`). `PromptInv` is for a kernel that answers promptly and
  without errors (`Prompt = TRUE`, `SetErrors = FALSE`, as in
  `MCOlsrRoutingPrompt`; late or failing answers do refute `KernelAgrees`, see
  the findings): every open entry has exactly one request under way, for what
  the entry asks, and the kernel has done all others (`UnderWay`, `Follows`).
  `GatewayInv` adds that along the buffer a route through a gateway to which
  the last Dijkstra gave a direct route finds that route before it or in the
  kernel. Nothing is assumed of topologies: where the gateway itself has no
  direct route, as the code allows (findings, `olsrv2_routing.c:615`), there is
  no order to keep.
- `DlepProofs`: `TypeCorrect`, `SessionsAgree`, `MetricsArrive`, for any number
  of neighbors and signals in flight. `SessionAgreement` says that an initialized router has an
  initialized radio; the router becomes initialized by what is in its queue, so
  the invariant says of the queue what it may hold: an end that is closed or
  not accepted has left nothing (`Fresh`), and before the radio has processed
  PEER_INITIALIZATION no answer to it is in the queue, afterwards one is until
  the router has read it (`Handshake`).

- For `MetricsArrive`, `DeliveryInv` follows one neighbor (`Fine`): either the
  last signal about it in the router's queue, or what the router knows if there
  is none, is its present metrics, or an UP or its ack is still under way that
  makes the radio send them; and a neighbor in the state UP_SENT always has
  that ack to come.

Loops of the code are recursive functions in the models (`MprSelection`,
`NhdpDb`, `Nhdp`, `OlsrDijkstra`). The library's induction theorems take an operator as
a parameter and cannot be used here; `Induction` and `HasMinimum` state the same
of a *set* of numbers, from the well-foundedness of the natural numbers, and
`LoopRuns` and `LoopInvariant` say that a loop has a value after each round and
that what a round keeps holds after all of them.

Only model-checked:

- all liveness: `TimersFire`, `SilenceForgotten` of NHDP and of topology,
  `RoutesConverge`, `FloodReaches`, `SessionsResolve` (fairness and ENABLED are
  out of the prover's reach).

Every other property of a passing run is a theorem. Those of `NhdpProofs` from
`SteadyHellos` say nothing of routers that exchange addresses, where
`LinkStateCached` and `NeighborUsable` do not hold, nor of HELLOs dropped half
way (findings).

## Findings

Runs that refute a comment of the code:

- `MCNhdpMprCover`: the loop of the MPR selection stops after a unique
  candidate and leaves two-hop addresses without MPR; the comment of
  `_validate_mpr_set` states that each has one.
- `MCDlepLost`: DESTINATION_DOWN is never sent, because the condition of
  `_l2_neigh_removed` does not hold for any of its calls; the router keeps a
  lost neighbor until the session ends.

Further disagreements met while modelling. The models do what the code does.

Duplicate set and NHDP:

- `oonf_duplicate_set.c:317`: `oonf_duplicate_test` (no caller at present) moves
  `too_old_count`; line 293 says "false to leave the entry unchanged".
- `oonf_duplicate_set.c:313`: a number exactly 32 behind is too old; line 295
  says "more than 32 behind".
- `nhdp_db.c:551`: `nhdp_db_link_set_unsymmetric` changes the counter of
  symmetric links and not the cached status.
- `nhdp_reader.c:474` against 377: a HELLO dropped for its message TLVs, before
  `_current` is reset, removes the link and neighbor of the HELLO before.
- `nhdp_reader.c:906`: every HELLO restarts the timer of lost addresses, which
  therefore stay; `nhdp_db.h:311` says "will be removed soon".
- `nhdp_reader.c:262`: link and neighbor are chosen separately; a link of one
  neighbor can be updated with the addresses of another. Line 291 says "make sure
  neighbor addresses are added to the right neighbor".
- `nhdp_reader.c:308`: a HELLO that merges two neighbors removes the old one
  with its links while `_current.link` may be one of them, and goes on with it;
  line 309 says "remove old neighbor".
- `nhdp_reader.c:654-665`: the source address of a HELLO without THIS_IF address
  is processed without having been counted in pass 1, so the `_process_count`
  of its owner becomes negative instead of zero, and an old neighbor or link
  without address is kept until its timer; line 309 says "remove old neighbor".
  Each such HELLO gets a new link.
- `_cleanup_error`: a HELLO with bad address TLVs whose link is found while the
  addresses of its neighbor have expired removes only the link; the neighbor
  stays without link and timer for ever.

MPRs and metrics:

- `neighbor-graph-routing.c` walks the list of links as `nhdp_neighbor` objects,
  and `_process_will_always` uses a link that may be NULL; routing MPRs have no
  defined outcome and are not modelled.
- Flooding MPRs are only calculated if some domain uses the same handler;
  `nhdp_domain_mpr_add` (lines 251-271) never applies a handler loaded later; the
  removal of a handler or metric stops after the first domain.
- `nhdp_domain.c:677`: the willingness decoder takes the parity of the local index of the
  domain; a domain without metric (`_no_metric`) has an infinite outgoing
  metric after the first HELLO that lists the router.
- `nhdp_reader.c:974`: for a HELLO that lost this router the MPRs are calculated
  before the status of the link is updated (line 980), as line 937 only stops
  the timer; `local_is_mpr` is not reset by a HELLO that no longer lists us.
- `nhdp_reader.c:236-247`: `_cleanup_error` removes link and neighbor of a dropped
  HELLO and calculates nothing: the MPRs of the others stay as they were, and
  `_node_is_selected_as_mpr` stays set when the last selector has gone. The
  interface event (`nhdp_interfaces.c:549`) and `_cb_link_heard` do not calculate
  either. All of it lasts until the next HELLO or timeout that does.
- `nhdp_domain.c:917`: the best link of a neighbor need not be symmetric, and
  routes take their gateway and interface from it.

Flooding and TCs:

- `nhdp_reader.c:726` with `nhdp_domain.c:935`: every HELLO that lists us marks
  the neighbor metric as changed; the ANSN moves with nearly every TC, while
  changes of attached networks or selectors do not move it.
- `oonf_rfc5444.c:608`: an interface that is added re-randomises the message
  sequence number.
- `olsrv2.c:278`: a router that reboots with a lower random ANSN stays locked
  out, while its TCs keep its old node alive (`olsrv2_reader.c:295` extends the
  validity of a TC that is dropped as outdated; line 302 says "recent enough").
- `olsrv2_reader.c:244` against 92: the completeness of a TC is read from the
  type extension of the wrong entry; every TC, and so every fragment, counts as
  complete.
- `olsrv2_reader.c:514`: addresses of a TC without mandatory TLV are stored for
  the node of the TC dropped before it (variable `foreign`).

Routing:

- `olsrv2_routing.c:845`: the hop count of an endpoint that one node announces
  is 0: its own `path_hops` of 255 plus one, in 8 bits, in place of that of the
  path.
- `olsrv2_routing.c:615`: a gateway need not have a direct route itself, when a
  way round is cheaper than the direct link; line 880 says "make sure all
  addresses of the neighbor are better than our direct link". The requests are
  sent with `RTNH_F_ONLINK`.
- `olsrv2_routing.c:1109`: the kernel's answer is read with the present `set`
  flag, not that of the request.
- `olsrv2_routing.c:1101`: after a failed replacement the entry is gone while the
  old route is in the kernel; line 1100 says "revert attempted change".
- `olsrv2_routing.c:164`: at shutdown the routes with an open request stay; line
  160 says "remove all routes".
- `olsrv2_routing.c:994`: a filter's verdict has no effect, its `continue`
  belongs to the loop over filters; `olsrv2_routing.h:164` says "return false to
  drop route modification".
- `os_system_linux.c:584`: a late answer after a timeout counts for the next
  batch and may stop its timer.

DLEP:

- `proto_radio.c:602`: a DESTINATION_UP can get into the UDP buffer of the radio;
  the router drops the datagram of the offer that begins with it, and leaves
  `remote_socket` set (`dlep_interface.c:208` against 245): discovery stops for
  ever (variables `stray`, `locked`). The model has one address family; with
  both, the clean offer over the other one can still open a session and so undo
  the lock, and the model says more than the code does.
- `proto_radio.c:394`: an ack that arrives after the ack timeout has no local
  neighbor, and the radio dies. `dlep_session_remove` (194-221) does not stop
  the ack timers.
- `proto_radio.c:538`: PEER_INITIALIZATION_ACK carries the router's own heartbeat
  interval back, while the radio sends heartbeats by its own (`proto.c:445`).
- A neighbor that changes before PEER_INITIALIZATION is processed puts its
  DESTINATION_UP in front of the ACK, and the router drops the session.
- The UDP buffer accumulates PEER_DISCOVERY during a session;
  `dlep_session.c:1002` checks duplicates by the rules of the last signal; the
  end of a stream (`oonf_stream_socket.c` 776-785) does not end the session.

## Not modelled

Most of the repository's lines are configuration and schemas, text output and
telnet commands, wrappers around system calls, parsing and encoding, headers
with constants, and plugins that read or print data of other components; they
hold little state that several events could bring out of step, and their
results are what the models take as inputs. Of the components modelled these
are left out:

- failing allocations (except in the duplicate set), cleanup of subsystems,
  class events beyond the direct calls;
- NHDP: dualstack neighbors, the HELLO writer and the removal timer of own
  addresses, several metric domains, routing MPRs (above), hysteresis;
- TCs that advertise their own originator, validity time 0, source-specific
  prefixes and nodes, multi-topology TLVs, LAN sets, ACLs;
- RFC 5444: the consumer tree, fragmentation and address compression, the byte
  layout, reference counts of targets;
- netlink: multicast events, dumps, a failing `sendmsg`;
- DLEP: proxied destinations, several sessions, parsing of TLVs, peers that are
  not this code, shutdown of the plugins.

The reasons per component are in `PROJECT.json`.

## Plan

Done: all modules above. What is left, most valuable first:

1. NHDP for routers that exchange addresses: what remains of `LinkStateCached`
   (the counter of a neighbor never falls below the number of its symmetric
   links), and a weaker hypothesis on originators when HELLOs are frequent.
2. RFC 5444 reader: consumer order, constraints and drop contexts
   (`rfc5444_reader.c` 619-792, 1065-1272), as an abstract specification that
   the drop paths of `Nhdp` and `OlsrTc` rely on; fragmentation in the writer.
3. NHDP writer: two routers composed through lossy HELLOs; own addresses with
   their removal timer; hysteresis.
4. The other clients of the layer 2 database and its destinations; proxied
   destinations of DLEP and several sessions.
