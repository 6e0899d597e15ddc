------------------------------ MODULE NhdpMpr -------------------------------
(***************************************************************************)
(* The flooding MPRs of a router that follow its neighborhood: the end of  *)
(* a HELLO in nhdp_reader.c, the timers of links and two-hop addresses in  *)
(* nhdp_db.c, the data of a domain in nhdp_domain.c, and the recalculation *)
(* of MprSelection by mpr.c.  The router has one interface and one domain; *)
(* domain and flooding use the handler of mpr.c and a metric with default  *)
(* handling.  HEARD and LOST links are the same here; any HELLO may be     *)
(* lost, so that the timers may fire at any time, in their order.  The     *)
(* routing MPRs of mpr.c are left out (README).                            *)
(*                                                                         *)
(* says[n] is what neighbor n tells in its HELLOs, or Silent:              *)
(*   us    its link status for this router: "heard" (HEARD or SYMMETRIC),  *)
(*         "lost", or "none" when it does not list this router,            *)
(*   will  its flooding willingness,                                       *)
(*   out   the link metric it gives, Infinite without a TLV,               *)
(*   mpr   has it chosen this router as routing MPR?                       *)
(*   two   its metric for every two-hop address: NotListed, Infinite when  *)
(*         it lists the address without metric or as lost.                 *)
(***************************************************************************)
EXTENDS MprSelection

CONSTANTS
    Neighbors,     \* neighbors, numbers in the order of their originators
    TwoHops,       \* two-hop addresses, neighbors may be among them
    Hellos,        \* what a neighbor may say
    MaxChanges     \* bound: how often neighbors change what they say

NotListed == 0
Silent == [us |-> "silent"]
Metric == 1 .. Infinite
Hello == [us : {"heard", "lost", "none"}, will : 0 .. WillAlways, out : Metric,
          mpr : BOOLEAN, two : [TwoHops -> {NotListed} \cup Metric]]

ASSUME MprAssumption ==
    /\ Infinite \in Nat \ {0} /\ WillAlways \in Nat \ {0} /\ MaxChanges \in Nat
    /\ Neighbors \subseteq Nat /\ IsFiniteSet(Neighbors)
    /\ Hellos \subseteq Hello

VARIABLES
    says,          \* neighbor -> what it says
    link,          \* neighbor -> its link with the domain data, or NoLink
    nodeIsMpr,     \* _node_is_selected_as_mpr
    unseen,        \* history: what changed the links after the last calculation
    changes        \* bound: changes of says so far

vars == <<says, link, nodeIsMpr, unseen, changes>>

Unseen == {"status", "dropped", "interface"}

NoTwoHops == [y \in TwoHops |-> Infinite]
NoLink == [present |-> FALSE]
Link == [present : {TRUE},
         symmetric : BOOLEAN,      \* the cached status
         symtime : BOOLEAN,        \* is sym_time active?
         will : 0 .. WillAlways,   \* flooding_willingness
         out : Metric,             \* metric.out
         two : [TwoHops -> Metric],\* _2hop, Infinite without entry
         flooding : BOOLEAN,       \* neigh_is_flooding_mpr
         selector : BOOLEAN]       \* local_is_mpr
-----------------------------------------------------------------------------
Present(l) == {n \in Neighbors : l[n].present}

(* _is_allowed_link_tuple *)
Allowed(l) ==
    {n \in Present(l) : l[n].symmetric /\ l[n].out /= Infinite /\ l[n].will > 0}

(* mpr_calculate_neighbor_graph_flooding *)
Graph(l) ==
    [n1 |-> Allowed(l),
     will |-> [n \in Allowed(l) |-> l[n].will],
     d1 |-> [n \in Allowed(l) |-> l[n].out],
     d2 |-> [n \in Allowed(l) |-> l[n].two],
     direct |-> [y \in TwoHops |-> IF y \in Allowed(l) THEN l[y].out ELSE Infinite]]

Mprs(l) == MprsRfc7181(Graph(l))

(* _update_flooding_mpr: clear all marks, then set those of the MPRs.      *)
UpdateMprs(l) ==
    LET mprs == Mprs(l)
    IN  [n \in Neighbors |-> IF l[n].present
                             THEN [l[n] EXCEPT !.flooding = n \in mprs] ELSE l[n]]

(* Mutant: a router that was chosen once stays so.                         *)
NeighborChangedSticky(l) ==
    /\ link' = UpdateMprs(l)
    /\ nodeIsMpr' = (nodeIsMpr \/ \E n \in Present(l) : l[n].selector)
    /\ unseen' = {}

(* nhdp_domain_neighbor_changed, nhdp_domain_neighborhood_changed for the  *)
(* links l.                                                                *)
NeighborChanged(l) ==
    /\ link' = UpdateMprs(l)
    /\ nodeIsMpr' = \E n \in Present(l) : l[n].selector
    /\ unseen' = {}

(* nhdp_db_link_update_status: a link that is not symmetric any more loses *)
(* its two-hop addresses.                                                  *)
UpdateStatus(lnk) ==
    [lnk EXCEPT !.symmetric = lnk.symtime,
                !.two = IF lnk.symmetric /\ ~lnk.symtime THEN NoTwoHops ELSE @]
-----------------------------------------------------------------------------
(* The neighborhood changes: the neighbor says something else, or nothing. *)
Change(n, h) ==
    /\ changes < MaxChanges
    /\ h /= says[n]
    /\ h /= Silent /\ n \in TwoHops => h.two[n] = NotListed
    /\ says' = [says EXCEPT ![n] = h]
    /\ changes' = changes + 1
    /\ UNCHANGED <<link, nodeIsMpr, unseen>>

(* nhdp_db_link_add with nhdp_domain_init_link, nhdp_domain_init_neighbor  *)
NewLink ==
    [present |-> TRUE, symmetric |-> FALSE, symtime |-> FALSE, will |-> 0,
     out |-> Infinite, two |-> NoTwoHops, flooding |-> FALSE, selector |-> FALSE]

(* Mutant: an address that is not listed loses its metric at once.         *)
AfterAddressesAll(lnk, h) ==
    [lnk EXCEPT
       !.selector = IF h.us = "none" THEN @ ELSE h.mpr,
       !.out = IF h.us = "none" THEN @ ELSE h.out,
       !.two = h.two,
       !.symtime = IF h.us = "heard" THEN TRUE ELSE IF h.us = "lost" THEN FALSE ELSE @,
       !.will = h.will]

(* _cb_addr_pass2_block and _process_domainspecific_linkdata: the domain   *)
(* data is only touched by a HELLO that lists this router.  Then the link  *)
(* timers of _cb_msg_pass2_end.                                            *)
AfterAddresses(lnk, h) ==
    [lnk EXCEPT
       !.selector = IF h.us = "none" THEN @ ELSE h.mpr,
       !.out = IF h.us = "none" THEN @ ELSE h.out,
       !.two = [y \in TwoHops |-> IF h.two[y] = NotListed THEN @[y] ELSE h.two[y]],
       !.symtime = IF h.us = "heard" THEN TRUE ELSE IF h.us = "lost" THEN FALSE ELSE @,
       !.will = h.will]

(* A HELLO of neighbor n, _cb_msg_pass2_end.  nhdp_db_link_set_symtime     *)
(* updates the status of a link that is heard before the MPRs are          *)
(* calculated; otherwise it is only updated after that.                    *)
ReceiveHello(n) ==
    LET old == IF link[n].present THEN link[n] ELSE NewLink
        timed == AfterAddresses(old, says[n])
        new == IF says[n].us = "heard" THEN UpdateStatus(timed) ELSE timed
        calculated == UpdateMprs([link EXCEPT ![n] = new])
    IN  /\ says[n] /= Silent
        /\ link' = [calculated EXCEPT ![n] = UpdateStatus(@)]
        /\ nodeIsMpr' = \E m \in Present(calculated) : calculated[m].selector
        /\ unseen' = IF new.symmetric /= new.symtime THEN {"status"} ELSE {}
        /\ UNCHANGED <<says, changes>>

(* A HELLO of neighbor n that is dropped for one of its TLVs: link and     *)
(* neighbor go by _cleanup_error, and nothing is calculated.               *)
DropHello(n) ==
    /\ says[n] /= Silent
    /\ link[n].present
    /\ link' = [link EXCEPT ![n] = NoLink]
    /\ unseen' = unseen \cup {"dropped"}
    /\ UNCHANGED <<says, nodeIsMpr, changes>>

(* The interface has no address any more, _cb_interface_event with         *)
(* nhdp_db_link_set_unsymmetric for its links: the cached status stays.    *)
InterfaceDown ==
    /\ Present(link) /= {}
    /\ link' = [n \in Neighbors |->
                  IF link[n].present
                  THEN [link[n] EXCEPT !.symtime = FALSE, !.two = NoTwoHops] ELSE link[n]]
    /\ unseen' = unseen \cup {"interface"}
    /\ UNCHANGED <<says, nodeIsMpr, changes>>

(* _cb_link_symtime.                                                       *)
SymTimeout(n) ==
    /\ link[n].present /\ link[n].symtime
    /\ NeighborChanged([link EXCEPT ![n] = UpdateStatus([@ EXCEPT !.symtime = FALSE])])
    /\ UNCHANGED <<says, changes>>

(* _cb_link_heard, which comes after sym_time: it only finds a symmetric   *)
(* link if the interface event stopped that timer.                         *)
HeardTimeout(n) ==
    /\ link[n].present /\ link[n].symmetric /\ ~link[n].symtime
    /\ link' = [link EXCEPT ![n] = UpdateStatus(@)]
    /\ unseen' = unseen \cup {"status"}
    /\ UNCHANGED <<says, nodeIsMpr, changes>>

(* _cb_link_vtime, which comes after sym_time and heard_time: the only     *)
(* link of the neighbor goes, and the neighbor with it.                    *)
LinkTimeout(n) ==
    /\ link[n].present /\ ~link[n].symmetric
    /\ NeighborChanged([link EXCEPT ![n] = NoLink])
    /\ UNCHANGED <<says, changes>>

(* Mutant: a two-hop address goes without telling anybody.                 *)
TwoHopTimeoutQuiet(n, y) ==
    /\ link[n].present /\ link[n].two[y] /= Infinite
    /\ link' = [link EXCEPT ![n].two[y] = Infinite]
    /\ UNCHANGED <<says, changes, nodeIsMpr>>
    /\ unseen' = {}

(* _cb_l2hop_vtime.                                                        *)
TwoHopTimeout(n, y) ==
    /\ link[n].present /\ link[n].two[y] /= Infinite
    /\ NeighborChanged([link EXCEPT ![n].two[y] = Infinite])
    /\ UNCHANGED <<says, changes>>
-----------------------------------------------------------------------------
Init ==
    /\ says = [n \in Neighbors |-> Silent]
    /\ link = [n \in Neighbors |-> NoLink]
    /\ nodeIsMpr = FALSE
    /\ unseen = {}
    /\ changes = 0

Timeout(n) ==
    \/ SymTimeout(n)
    \/ HeardTimeout(n)
    \/ LinkTimeout(n)
    \/ \E y \in TwoHops : TwoHopTimeout(n, y)

Next ==
    \/ InterfaceDown
    \/ \E n \in Neighbors :
         \/ \E h \in Hellos \cup {Silent} : Change(n, h)
         \/ ReceiveHello(n)
         \/ DropHello(n)
         \/ Timeout(n)

Spec == Init /\ [][Next]_vars

-----------------------------------------------------------------------------
(* The types: the cached data of present links, the bound, the marks.      *)
TypeOK ==
    /\ says \in [Neighbors -> Hello \cup {Silent}]
    /\ link \in [Neighbors -> Link \cup {NoLink}]
    /\ nodeIsMpr \in BOOLEAN /\ unseen \subseteq Unseen
    /\ changes \in 0 .. MaxChanges

(* neigh_is_flooding_mpr, and whether it is what the selection would say   *)
(* of the links as they are now.                                           *)
Marked(l) == {n \in Present(l) : l[n].flooding}
UpToDate == \A n \in Present(link) : link[n].flooding <=> n \in Mprs(link)

(* The flooding MPRs follow the neighborhood: a HELLO that is heard, a     *)
(* link, a two-hop address or a symmetry that times out leave the marks as *)
(* the selection wants them.  They are stale only while the last           *)
(* calculation has not seen that a HELLO was dropped, that the interface   *)
(* lost its addresses, or that a status was updated without it: in         *)
(* _cb_msg_pass2_end nhdp_domain_neighbor_changed comes before the update  *)
(* for a HELLO that lost this router, and _cb_link_heard never calls it.   *)
StaleOnlyIfUnseen == ~UpToDate => unseen /= {}

(* _cb_generate_tc relies on the cached answer of nhdp_domain_node_is_mpr. *)
(* A router that a neighbor has chosen always knows it and sends TCs; it   *)
(* believes so for too long only after a dropped HELLO has removed the     *)
(* last neighbor that had, and only until the next calculation.            *)
SelectorsKnown ==
    LET chosen == \E n \in Present(link) : link[n].selector
    IN  /\ chosen => nodeIsMpr
        /\ nodeIsMpr /\ ~chosen => "dropped" \in unseen

(* A neighbor that does not want to relay, WILL_NEVER, is never asked to,  *)
(* not even by marks that are stale.                                       *)
WillingOnly == \A n \in Marked(link) : link[n].will > 0

(* The MPR set of the selection is no larger than it must be explained:    *)
(* every MPR is WILL_ALWAYS, the only way to an address, or on a shortest  *)
(* way to an address that needs one.                                       *)
ChosenForReason ==
    LET g == Graph(link)
        shortest(x) == \E y \in Needing(g) : Dist(g, x, y) = MinDist(g, y)
    IN  UpToDate => \A x \in Marked(link) :
                       x \in AlwaysWilling(g) \cup OnlyRelays(g) \/ shortest(x)

(* A neighbor bears the mark for a reason: it agreed and, if the marks are *)
(* those of the present links, something calls for it.                     *)
MarksJustified == WillingOnly /\ ChosenForReason

(* The property mpr.c states of an MPR set in _validate_mpr_set, line 290: *)
(* "For any y in N2 that does not have a defined d1(y), there is at least  *)
(* one element in M that is also in N1(y)."                                *)
TwoHopCovered ==
    LET g == Graph(link)
    IN  UpToDate =>
          \A y \in TwoHop(g) : g.direct[y] = Infinite =>
             \E x \in Marked(link) : x \in g.n1 /\ g.d2[x][y] /= Infinite
=============================================================================
