------------------------------- MODULE NhdpDb -------------------------------
(***************************************************************************)
(* The NHDP database (src-plugins/nhdp/nhdp/nhdp_db.c): neighbors, the     *)
(* links to them, the addresses of both and the two-hop addresses behind a *)
(* link, with the operations the HELLO reader, the timers and the          *)
(* interface events apply to it.  One address family, one link metric      *)
(* domain left out; the operations are functions from database to          *)
(* database, so that callers compose them in the order of the code.        *)
(*                                                                         *)
(* A database is a record of                                               *)
(*   nb  neighbor slot -> [used, originator, symmetric, process_count]     *)
(*   ln  link slot     -> [used, neigh, if, status, sym_time, heard_time,  *)
(*                         vtime, twohop, process_count]                   *)
(*   na  address       -> [neigh, lost]  the neighbor address tree         *)
(*   la  interface, address -> link slot the link addresses of interfaces  *)
(* Slots are the memory of the object classes: a freed slot may be handed  *)
(* out again.  NoSlot is the NULL pointer.                                 *)
(***************************************************************************)
EXTENDS Integers, FiniteSets

CONSTANTS
    Ifs,           \* local NHDP interfaces
    Addrs,         \* addresses of other routers
    Originators,   \* originator addresses of other routers
    NeighSlots,    \* bound: neighbors that exist at the same time
    LinkSlots,     \* bound: links that exist at the same time
    HoldTime       \* l_hold_time, n_hold_time: equal by _apply_settings

ASSUME NhdpDbAssumption ==
    /\ NeighSlots \subseteq Nat \ {0}
    /\ LinkSlots \subseteq Nat \ {0}
    /\ IsFiniteSet(LinkSlots)
    /\ HoldTime \in Nat \ {0}

NoSlot == 0
NoOriginator == "unspec"
-----------------------------------------------------------------------------
(* Timers: the time left, 0 when due and not yet fired, Off when stopped.  *)
Off == -1
Active(t) == t >= 0

(* oonf_timer_set: a time of zero stops the timer.                         *)
TimerSet(t) == IF t = 0 THEN Off ELSE t
Elapse(t) == IF t > 0 THEN t - 1 ELSE t

(* A two-hop address that is not in the tree of its link.                  *)
Absent == -2

Statuses == {"PENDING", "LOST", "HEARD", "SYMMETRIC"}

FreeNeigh == [used |-> FALSE, originator |-> NoOriginator, symmetric |-> 0,
              process_count |-> 0]
FreeLink == [used |-> FALSE, neigh |-> NoSlot, if |-> NoSlot,
             status |-> "LOST", sym_time |-> Off, heard_time |-> Off,
             vtime |-> Off, twohop |-> [a \in Addrs |-> Absent],
             process_count |-> 0]
NoNaddr == [neigh |-> NoSlot, lost |-> Off]

EmptyDb == [nb |-> [n \in NeighSlots |-> FreeNeigh],
            ln |-> [l \in LinkSlots |-> FreeLink],
            na |-> [a \in Addrs |-> NoNaddr],
            la |-> [i \in Ifs |-> [a \in Addrs |-> NoSlot]]]

Neighs(db) == {n \in NeighSlots : db.nb[n].used}
Links(db) == {l \in LinkSlots : db.ln[l].used}
LinksOf(db, n) == {l \in Links(db) : db.ln[l].neigh = n}
LinksOn(db, i) == {l \in Links(db) : db.ln[l].if = i}
NaddrsOf(db, n) == {a \in Addrs : db.na[a].neigh = n}

FreeNeighSlots(db) == NeighSlots \ Neighs(db)
FreeLinkSlots(db) == LinkSlots \ Links(db)
Smallest(S) == CHOOSE s \in S : \A r \in S : s <= r

(* nhdp_db_neighbor_get_by_originator                                      *)
NeighByOriginator(db, o) ==
    LET S == {n \in Neighs(db) : db.nb[n].originator = o /\ o /= NoOriginator}
    IN  IF S = {} THEN NoSlot ELSE Smallest(S)
-----------------------------------------------------------------------------
(* nhdp_db_neighbor_add, into slot n.                                      *)
NeighborAdd(db, n) == [db EXCEPT !.nb[n] = [FreeNeigh EXCEPT !.used = TRUE]]

(* nhdp_db_link_remove for every link in ls: the link leaves the tree of   *)
(* its interface with its addresses and two-hop addresses.  The symmetric  *)
(* counter of the neighbor is the business of the caller.                  *)
LinksRemove(db, ls) ==
    [db EXCEPT !.ln = [l \in LinkSlots |-> IF l \in ls THEN FreeLink ELSE @[l]],
               !.la = [i \in Ifs |-> [a \in Addrs |->
                         IF @[i][a] \in ls THEN NoSlot ELSE @[i][a]]]]

(* nhdp_db_neighbor_remove: with all its links and addresses.              *)
NeighborRemove(db, n) ==
    [LinksRemove(db, LinksOf(db, n)) EXCEPT
        !.nb[n] = FreeNeigh,
        !.na = [a \in Addrs |-> IF @[a].neigh = n THEN NoNaddr ELSE @[a]]]

(* Mutant: the previous owner of the originator keeps it.                  *)
SetOriginatorKeepsOther(db, n, o) == [db EXCEPT !.nb[n].originator = o]

(* nhdp_db_neighbor_set_originator: the originator is taken away from any  *)
(* other neighbor that has it.                                             *)
SetOriginator(db, n, o) ==
    LET other == NeighByOriginator(db, o) IN
    IF other \in {NoSlot, n} THEN [db EXCEPT !.nb[n].originator = o]
    ELSE [db EXCEPT !.nb[other].originator = NoOriginator,
                    !.nb[n].originator = o]

(* nhdp_db_link_add, into slot l.                                          *)
LinkAdd(db, l, n, i) ==
    [db EXCEPT !.ln[l] = [FreeLink EXCEPT !.used = TRUE, !.neigh = n, !.if = i]]

(* nhdp_db_neighbor_addr_set_lost / _not_lost for a set of addresses.      *)
SetLost(db, as) ==
    [db EXCEPT !.na = [a \in Addrs |->
        IF a \in as THEN [@[a] EXCEPT !.lost = TimerSet(HoldTime)] ELSE @[a]]]
NotLost(db, as) ==
    [db EXCEPT !.na = [a \in Addrs |->
        IF a \in as THEN [@[a] EXCEPT !.lost = Off] ELSE @[a]]]

(* nhdp_db_link_2hop_remove for every two-hop address of the link.         *)
TwoHopRemoveAll(db, l) == [db EXCEPT !.ln[l].twohop = [a \in Addrs |-> Absent]]

(* Mutant: the addresses are lost with the first link, not with the last.  *)
NotSymmetricAnymoreFirst(db, l) ==
    LET n == db.ln[l].neigh
        d == [TwoHopRemoveAll(db, l) EXCEPT !.nb[n].symmetric = @ - 1]
    IN  SetLost(d, NaddrsOf(d, n))

(* _link_status_not_symmetric_anymore                                      *)
NotSymmetricAnymore(db, l) ==
    LET n == db.ln[l].neigh
        d == [TwoHopRemoveAll(db, l) EXCEPT !.nb[n].symmetric = @ - 1]
    IN  IF d.nb[n].symmetric = 0 THEN SetLost(d, NaddrsOf(d, n)) ELSE d

(* _link_status_now_symmetric                                              *)
NowSymmetric(db, l) ==
    LET n == db.ln[l].neigh
        d == [db EXCEPT !.nb[n].symmetric = @ + 1]
    IN  IF d.nb[n].symmetric = 1 THEN NotLost(d, NaddrsOf(d, n)) ELSE d

(* _nhdp_db_link_calculate_status.  The default hysteresis handler is      *)
(* never pending and never lost.                                           *)
CalculateStatus(lnk) ==
    IF Active(lnk.sym_time) THEN "SYMMETRIC"
    ELSE IF Active(lnk.heard_time) THEN "HEARD" ELSE "LOST"

(* Mutant: the previous status is not compared with the new one.           *)
UpdateStatusNoOld(db, l) ==
    LET d == [db EXCEPT !.ln[l].status = CalculateStatus(db.ln[l])]
    IN  IF d.ln[l].status = "SYMMETRIC" THEN NowSymmetric(d, l)
        ELSE NotSymmetricAnymore(d, l)

(* nhdp_db_link_update_status                                              *)
UpdateStatus(db, l) ==
    LET was == db.ln[l].status = "SYMMETRIC"
        d == [db EXCEPT !.ln[l].status = CalculateStatus(db.ln[l])]
        is == d.ln[l].status = "SYMMETRIC"
    IN  IF was /\ ~is THEN NotSymmetricAnymore(d, l)
        ELSE IF ~was /\ is THEN NowSymmetric(d, l)
        ELSE d

(* nhdp_db_link_set_unsymmetric: the status of the link is not written.    *)
LinkSetUnsymmetric(db, l) ==
    LET d == IF db.ln[l].status = "SYMMETRIC" THEN NotSymmetricAnymore(db, l)
             ELSE db
    IN  [TwoHopRemoveAll(d, l) EXCEPT !.ln[l].sym_time = Off]
-----------------------------------------------------------------------------
(* The timer callbacks.  A timer is stopped before its callback runs.      *)

(* _cb_link_vtime *)
LinkVtimeExpired(db, l) ==
    LET n == db.ln[l].neigh
        d1 == [db EXCEPT !.ln[l].vtime = Off]
        d2 == IF d1.ln[l].status = "SYMMETRIC" THEN NotSymmetricAnymore(d1, l)
              ELSE d1
        d3 == LinksRemove(d2, {l})
    IN  IF LinksOf(d3, n) = {} THEN NeighborRemove(d3, n) ELSE d3

(* Mutant: the status is not updated when heard_time ends.                 *)
LinkHeardExpiredNoUpdate(db, l) == [db EXCEPT !.ln[l].heard_time = Off]

(* _cb_link_heard *)
LinkHeardExpired(db, l) == UpdateStatus([db EXCEPT !.ln[l].heard_time = Off], l)

(* _cb_link_symtime *)
LinkSymExpired(db, l) == UpdateStatus([db EXCEPT !.ln[l].sym_time = Off], l)

(* _cb_naddr_vtime *)
NaddrExpired(db, a) == [db EXCEPT !.na[a] = NoNaddr]

(* _cb_l2hop_vtime *)
TwoHopExpired(db, l, a) == [db EXCEPT !.ln[l].twohop[a] = Absent]

(* The passing of one time unit for every timer of the database.           *)
ElapseLink(lnk) ==
    [lnk EXCEPT !.sym_time = Elapse(@), !.heard_time = Elapse(@), !.vtime = Elapse(@),
                !.twohop = [a \in Addrs |-> Elapse(lnk.twohop[a])]]
ElapseNaddr(naddr) == [naddr EXCEPT !.lost = Elapse(@)]
ElapseDb(db) ==
    [db EXCEPT !.ln = [l \in LinkSlots |-> ElapseLink(db.ln[l])],
               !.na = [a \in Addrs |-> ElapseNaddr(db.na[a])]]

DueTimers(db) ==
    \/ \E l \in Links(db) :
         \/ 0 \in {db.ln[l].sym_time, db.ln[l].heard_time, db.ln[l].vtime}
         \/ \E a \in Addrs : db.ln[l].twohop[a] = 0
    \/ \E a \in Addrs : db.na[a].neigh /= NoSlot /\ db.na[a].lost = 0
=============================================================================
