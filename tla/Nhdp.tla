-------------------------------- MODULE Nhdp --------------------------------
(***************************************************************************)
(* NHDP of one router: HELLO processing (nhdp_reader.c) on the database of *)
(* NhdpDb, the timers of the database, and the events of the local         *)
(* interfaces (nhdp_interfaces.c).  A HELLO is processed to its end before *)
(* anything else runs, so it is one step; timers that are due and HELLOs   *)
(* that arrive interleave.                                                 *)
(*                                                                         *)
(* A HELLO is a record of                                                  *)
(*   if      the interface it came in through                              *)
(*   src     the sender's address (_protocol->input_address)               *)
(*   locals  the sequence of its LOCAL_IF addresses, each with its kind,   *)
(*           "THIS" (THIS_IF) or "OTHER" (OTHER_IF)                         *)
(*   us      what it says of our own address: "none", "heard" or "lost"    *)
(*   sym2    addresses reported symmetric; gone2: reported as anything else*)
(*   orig    the originator, or NoOriginator                               *)
(*   vtime   the validity time                                             *)
(* Messages that the code drops half way are the HELLOs of the Bad sets.   *)
(***************************************************************************)
EXTENDS NhdpDb, SequencesExt

CONSTANTS
    Hellos,        \* the HELLOs other routers may send
    BadMessageTlv, \* HELLOs that arrive without a valid VALIDITY_TIME TLV
    BadAddressTlv, \* HELLOs with an invalid TLV on one of their addresses
    Unstable,      \* interfaces that may lose their last address
    MaxCount       \* bound: how far neigh->symmetric may drift

(* What the RFC 5444 parser hands over: addresses, TLV values and an       *)
(* interface of ours, in any combination.                                  *)
HelloMessage ==
    [if: Ifs, src: Addrs, locals: Seq(Addrs \X {"THIS", "OTHER"}),
     us: {"none", "heard", "lost"}, sym2: SUBSET Addrs, gone2: SUBSET Addrs,
     orig: Originators \cup {NoOriginator}, vtime: Nat]

ASSUME NhdpAssumption ==
    /\ \A m \in Hellos \cup BadMessageTlv \cup BadAddressTlv : m \in HelloMessage
    /\ Unstable \subseteq Ifs
    /\ MaxCount \in Nat

VARIABLES
    db,            \* the NHDP database
    current,       \* the static _current of nhdp_reader.c: link and neighbor
    undefined,     \* a freed object was used: nothing is said from here on
    silent         \* history: no HELLO is sent any more

vars == <<db, current, undefined, silent>>

NoSession == [link |-> NoSlot, neigh |-> NoSlot]

LocalAddrs(m) == {m.locals[j][1] : j \in DOMAIN m.locals}
ThisIf(m) == {m.locals[j][1] : j \in {i \in DOMAIN m.locals : m.locals[i][2] = "THIS"}}
-----------------------------------------------------------------------------
(* The neighbors and links that own addresses of the message; _current     *)
(* keeps the only one, and NULL when there is none or a conflict.          *)
OwningNeighs(d, m) == {d.na[a].neigh : a \in LocalAddrs(m)} \ {NoSlot}
OwningLinks(d, m) == {d.la[m.if][a] : a \in ThisIf(m)} \ {NoSlot}
Unique(S) == IF Cardinality(S) = 1 THEN Smallest(S) ELSE NoSlot

(* _cb_messagetlvs clears the _process_count of all neighbors and of the   *)
(* links of the interface, _cb_addresstlvs_pass1 counts in them the        *)
(* addresses of the HELLO that they own.                                   *)
Counted(object, k) == [object EXCEPT !.process_count = k]
CountAddresses(d, m) ==
    [d EXCEPT
       !.nb = [n \in NeighSlots |-> Counted(d.nb[n],
                 Cardinality({j \in DOMAIN m.locals : d.na[m.locals[j][1]].neigh = n}))],
       !.ln = [l \in LinkSlots |->
                 IF l \notin LinksOn(d, m.if) THEN d.ln[l]
                 ELSE Counted(d.ln[l],
                        Cardinality({j \in DOMAIN m.locals :
                                       /\ m.locals[j][2] = "THIS"
                                       /\ d.la[m.if][m.locals[j][1]] = l}))]]

(* The context of a HELLO; the marks are the _might_be_removed flags.      *)
Pass1(d, m) ==
    [db |-> CountAddresses(d, m), bad |-> FALSE,
     neigh |-> Unique(OwningNeighs(d, m)),
     link |-> Unique(OwningLinks(d, m)),
     markN |-> {}, markL |-> {}]

(* _handle_originator; it does nothing if the originator is one of the     *)
(* addresses of the message.                                               *)
HandleOriginator(c, m) ==
    LET n == NeighByOriginator(c.db, m.orig) IN
    IF \/ n \in {NoSlot, c.neigh}
       \/ m.orig \in LocalAddrs(m) \cup m.sym2 \cup m.gone2
    THEN c
    ELSE IF c.neigh = NoSlot /\ Cardinality(OwningNeighs(c.db, m)) <= 1
    THEN [c EXCEPT !.neigh = n]
    ELSE IF c.db.nb[n].process_count > 0 THEN c
    ELSE [c EXCEPT !.db = SetOriginator(c.db, n, NoOriginator)]

(* _cb_addresstlvs_pass1_end: take or create the neighbor and mark its     *)
(* addresses, then the same for the link.                                  *)
TakeNeighbor(c) ==
    IF c.neigh = NoSlot
    THEN LET n == Smallest(FreeNeighSlots(c.db))
         IN  [c EXCEPT !.db = NeighborAdd(@, n), !.neigh = n]
    ELSE [c EXCEPT !.markN = NaddrsOf(c.db, c.neigh)]

TakeLink(c, m) ==
    IF c.link = NoSlot
    THEN LET l == Smallest(FreeLinkSlots(c.db))
         IN  [c EXCEPT !.db = LinkAdd(@, l, c.neigh, m.if), !.link = l]
    ELSE [c EXCEPT !.markL = {a \in Addrs : c.db.la[m.if][a] = c.link}]

(* _pass2_process_localif, first half: the link address.                   *)
ProcessLinkAddr(c, i, a) ==
    LET l == c.db.la[i][a]
        moved == [c.db EXCEPT !.la[i][a] = c.link]
        counted == [moved EXCEPT !.ln[l].process_count = @ - 1]
        done == counted.ln[l].process_count = 0 IN
    IF l = NoSlot THEN [c EXCEPT !.db = moved]
    ELSE [c EXCEPT !.markL = @ \ {a},
                   !.db = IF l /= c.link /\ done THEN LinksRemove(counted, {l})
                          ELSE counted]

(* Mutants: the old neighbor is kept; the neighbor of the session is not   *)
(* told from an old one.                                                   *)
ProcessNeighAddrKeepsOld(c, a) ==
    LET n == c.db.na[a].neigh
        moved == [c.db EXCEPT !.na[a] = [neigh |-> c.neigh, lost |-> Off]] IN
    [c EXCEPT !.markN = @ \ {a},
              !.db = IF n = NoSlot THEN moved
                     ELSE [moved EXCEPT !.nb[n].process_count = @ - 1]]
ProcessNeighAddrFreesOwn(c, a) ==
    LET n == c.db.na[a].neigh
        moved == [c.db EXCEPT !.na[a] = [neigh |-> c.neigh, lost |-> Off]]
        counted == [moved EXCEPT !.nb[n].process_count = @ - 1]
        freed == counted.nb[n].process_count = 0 IN
    IF n = NoSlot THEN [c EXCEPT !.db = moved]
    ELSE [c EXCEPT !.markN = @ \ {a},
                   !.db = IF freed THEN NeighborRemove(counted, n) ELSE counted,
                   !.bad = @ \/ (freed /\ c.link \in LinksOf(counted, n))]

(* _pass2_process_localif, second half: the neighbor address.  Removing    *)
(* the old neighbor frees its links, also the one that is being processed. *)
ProcessNeighAddr(c, a) ==
    LET n == c.db.na[a].neigh
        moved == [c.db EXCEPT !.na[a] = [neigh |-> c.neigh, lost |-> Off]]
        counted == [moved EXCEPT !.nb[n].process_count = @ - 1]
        freed == n /= c.neigh /\ counted.nb[n].process_count = 0 IN
    IF n = NoSlot THEN [c EXCEPT !.db = moved]
    ELSE [c EXCEPT !.markN = @ \ {a},
                   !.db = IF freed THEN NeighborRemove(counted, n) ELSE counted,
                   !.bad = @ \/ (freed /\ c.link \in LinksOf(counted, n))]

ProcessLocalIf(c, m, a, kind) ==
    IF c.bad THEN c
    ELSE ProcessNeighAddr(IF kind = "THIS" THEN ProcessLinkAddr(c, m.if, a) ELSE c, a)

(* A HELLO without THIS_IF address: its source address is used for one.    *)
DefaultThisIf(c, m) ==
    IF ThisIf(m) = {} THEN ProcessLocalIf(c, m, m.src, "THIS") ELSE c

(* _cb_addr_pass2_block for the first n LOCAL_IF addresses, one after the  *)
(* other.                                                                  *)
Pass2Until(c, m, n) ==
    LET done[k \in 0 .. n] ==
          IF k = 0 THEN c
          ELSE ProcessLocalIf(done[k - 1], m, m.locals[k][1], m.locals[k][2])
    IN  done[n]

(* For all of them, then for the two-hop addresses, which exist whatever   *)
(* the status of the link is.                                              *)
Pass2Locals(c, m) == Pass2Until(c, m, Len(m.locals))

Pass2TwoHop(c, m) ==
    IF c.bad THEN c
    ELSE [c EXCEPT !.db.ln[c.link].twohop =
            [a \in Addrs |-> IF a \in m.sym2 THEN TimerSet(m.vtime)
                             ELSE IF a \in m.gone2 THEN Absent ELSE @[a]]]

(* _cb_msg_pass2_end, addresses: the marked ones were not in the HELLO.    *)
DropLeftovers(c, m) ==
    LET d == [c.db EXCEPT
                !.la[m.if] = [a \in Addrs |-> IF a \in c.markL THEN NoSlot ELSE @[a]],
                !.ln[c.link].twohop =
                   [a \in Addrs |-> IF a \in c.markN THEN Absent ELSE @[a]]]
    IN  SetLost(d, c.markN)

(* _cb_msg_pass2_end, sym_time (RFC 6130 section 12.5.4).                  *)
UpdateSymTime(d, l, m) ==
    LET stopped == [d EXCEPT !.ln[l].sym_time = Off] IN
    IF m.us = "heard"
    THEN UpdateStatus([d EXCEPT !.ln[l].sym_time = TimerSet(m.vtime)], l)
    ELSE IF m.us = "lost" /\ Active(d.ln[l].sym_time)
    THEN IF CalculateStatus(stopped.ln[l]) = "HEARD"
         THEN [stopped EXCEPT !.ln[l].vtime = TimerSet(HoldTime)]
         ELSE stopped
    ELSE d

(* Mutant: vtime is prolonged but never started.                           *)
UpdateLinkTimesNoStart(d, l, m) ==
    [d EXCEPT !.ln[l].heard_time = TimerSet(m.vtime),
              !.ln[l].vtime = IF Active(@) THEN TimerSet(m.vtime + HoldTime) ELSE @]

(* _cb_msg_pass2_end, heard_time and vtime.  The status is the cached one. *)
UpdateLinkTimes(d, l, m) ==
    LET lnk == d.ln[l]
        t == IF ~Active(lnk.sym_time) \/ lnk.sym_time < m.vtime THEN m.vtime
             ELSE lnk.sym_time
        keep == IF lnk.status = "PENDING" THEN t ELSE t + HoldTime IN
    [d EXCEPT !.ln[l].heard_time = TimerSet(t),
              !.ln[l].vtime = IF ~Active(@) \/ keep > @ THEN TimerSet(keep) ELSE @]

(* _cb_msg_pass2_end                                                       *)
Pass2End(c, m) ==
    IF c.bad THEN c
    ELSE LET d1 == DropLeftovers(c, m)
             d2 == UpdateSymTime(d1, c.link, m)
             d3 == UpdateLinkTimes(d2, c.link, m)
             d4 == SetOriginator(d3, c.neigh, m.orig)
         IN  [c EXCEPT !.db = UpdateStatus(d4, c.link)]

(* Everything up to the end of pass 1, and the whole HELLO.                *)
AfterPass1(d, m) ==
    DefaultThisIf(TakeLink(TakeNeighbor(HandleOriginator(Pass1(d, m), m)), m), m)
Processed(d, m) == Pass2End(Pass2TwoHop(Pass2Locals(AfterPass1(d, m), m), m), m)

(* _cleanup_error: remove the link and the neighbor of the session.        *)
CleanupError(d, s) ==
    LET d1 == IF s.link = NoSlot THEN d ELSE LinksRemove(d, {s.link})
    IN  IF s.neigh = NoSlot THEN d1 ELSE NeighborRemove(d1, s.neigh)
DanglingSession(d, s) ==
    \/ s.link /= NoSlot /\ s.link \notin Links(d)
    \/ s.neigh /= NoSlot /\ s.neigh \notin Neighs(d)
-----------------------------------------------------------------------------
Init ==
    /\ db = EmptyDb
    /\ current = NoSession
    /\ undefined = FALSE
    /\ silent = FALSE

RoomForHello(d) == FreeNeighSlots(d) /= {} /\ FreeLinkSlots(d) /= {}

(* A link that is removed while it is symmetric, or one whose interface    *)
(* goes down twice, moves symmetric away from the number of links, every   *)
(* time a little further.                                                  *)
CountersBounded(d) == \A n \in Neighs(d) : d.nb[n].symmetric \in -MaxCount .. MaxCount

(* A HELLO that is processed to its end.                                   *)
Hello(m) ==
    LET c == Processed(db, m) IN
    /\ ~undefined /\ ~silent
    /\ RoomForHello(db)
    /\ CountersBounded(c.db)
    /\ db' = IF c.bad THEN db ELSE c.db
    /\ undefined' = c.bad
    /\ current' = [link |-> c.link, neigh |-> c.neigh]
    /\ UNCHANGED silent

(* A HELLO whose message TLVs fail their constraints: block_callback is    *)
(* not called, so _current is not reset before the end callback cleans up. *)
HelloBadMessageTlv(m) ==
    /\ ~undefined /\ ~silent
    /\ undefined' = DanglingSession(db, current)
    /\ db' = IF undefined' THEN db ELSE CleanupError(db, current)
    /\ current' = NoSession
    /\ UNCHANGED silent

(* A HELLO with an address whose TLVs fail their constraints in pass 1:    *)
(* the link and neighbor found so far are removed from the database.       *)
HelloBadAddressTlv(m) ==
    LET c == Pass1(db, m) IN
    /\ ~undefined /\ ~silent
    /\ db' = CleanupError(c.db, [link |-> c.link, neigh |-> c.neigh])
    /\ current' = NoSession
    /\ UNCHANGED <<undefined, silent>>

(* A HELLO with an address whose TLVs only fail the constraints of pass 2: *)
(* k of its LOCAL_IF addresses have been processed before that one.        *)
HelloBadPass2Tlv(m) ==
    /\ ~undefined /\ ~silent
    /\ RoomForHello(db)
    /\ \E k \in 0 .. Len(m.locals) :
         LET c == Pass2Until(AfterPass1(db, m), m, k) IN
         /\ undefined' = c.bad
         /\ db' = IF c.bad THEN db
                  ELSE CleanupError(c.db, [link |-> c.link, neigh |-> c.neigh])
    /\ current' = NoSession
    /\ UNCHANGED silent

LinkVtime(l) == l \in Links(db) /\ db.ln[l].vtime = 0 /\ db' = LinkVtimeExpired(db, l)
LinkHeard(l) == l \in Links(db) /\ db.ln[l].heard_time = 0 /\ db' = LinkHeardExpired(db, l)
LinkSym(l) == l \in Links(db) /\ db.ln[l].sym_time = 0 /\ db' = LinkSymExpired(db, l)
NaddrVtime(a) == db.na[a].neigh /= NoSlot /\ db.na[a].lost = 0 /\ db' = NaddrExpired(db, a)
TwoHopVtime(l, a) ==
    l \in Links(db) /\ db.ln[l].twohop[a] = 0 /\ db' = TwoHopExpired(db, l, a)

(* oonf_timer_walk reaches one of the timers that are due.                 *)
TimerFires ==
    /\ ~undefined
    /\ \/ \E l \in LinkSlots : \/ LinkVtime(l) \/ LinkHeard(l) \/ LinkSym(l)
                               \/ \E a \in Addrs : TwoHopVtime(l, a)
       \/ \E a \in Addrs : NaddrVtime(a)
    /\ UNCHANGED <<current, undefined, silent>>

(* Time passes once every timer that is due has fired.                     *)
Tick ==
    /\ ~undefined /\ ~DueTimers(db)
    /\ db' = ElapseDb(db)
    /\ db' /= db
    /\ UNCHANGED <<current, undefined, silent>>

(* _cb_interface_event of an interface without active addresses, for one   *)
(* link of the interface after the other.                                  *)
LinksSetUnsymmetric(d, links) ==
    LET done[k \in 0 .. Len(links)] ==
          IF k = 0 THEN d ELSE LinkSetUnsymmetric(done[k - 1], links[k])
    IN  done[Len(links)]

InterfaceInactive(i) ==
    /\ ~undefined
    /\ LinksOn(db, i) /= {}
    /\ db' = LinksSetUnsymmetric(db, SetToSeq(LinksOn(db, i)))
    /\ CountersBounded(db')
    /\ UNCHANGED <<current, undefined, silent>>

(* The other routers fall silent (environment).                            *)
FallSilent == ~undefined /\ ~silent /\ silent' = TRUE /\ UNCHANGED <<db, current, undefined>>

Next ==
    \/ \E m \in Hellos : Hello(m)
    \/ \E m \in BadMessageTlv : HelloBadMessageTlv(m)
    \/ \E m \in BadAddressTlv : HelloBadAddressTlv(m) \/ HelloBadPass2Tlv(m)
    \/ TimerFires
    \/ Tick
    \/ \E i \in Unstable : InterfaceInactive(i)
    \/ FallSilent

Spec == Init /\ [][Next]_vars

(* oonf_main calls oonf_timer_walk in every round of its loop, and time    *)
(* does not stop; nothing is assumed about HELLOs.                         *)
FairSpec == Spec /\ WF_vars(TimerFires) /\ WF_vars(Tick)
-----------------------------------------------------------------------------
(* HELLOs of routers that keep their addresses: every address belongs to   *)
(* one router (owner, told by its originator, which is none of its         *)
(* interface addresses), and every address heard on one of our interfaces  *)
(* to one interface of that router (home, told by an address of it that    *)
(* each of its HELLOs has).  Addresses may come and go, originators may    *)
(* not; no HELLO is dropped and our interfaces keep their addresses.       *)
TheseIf(m) == IF ThisIf(m) = {} THEN {m.src} ELSE ThisIf(m)
SteadyHello(m, owner, home) ==
    /\ m.orig /= NoOriginator
    /\ m.orig \notin LocalAddrs(m) \cup m.sym2 \cup m.gone2
    /\ \A a \in LocalAddrs(m) \cup TheseIf(m) : owner[a] = m.orig
    /\ \E h \in TheseIf(m) : \A a \in TheseIf(m) : home[m.if][a] = h
    /\ ThisIf(m) = {} => \A a \in Addrs : home[m.if][a] = m.src => a = m.src
SteadyHellos ==
    /\ BadMessageTlv = {} /\ BadAddressTlv = {} /\ Unstable = {}
    /\ \E owner \in [Addrs -> Originators], home \in [Ifs -> [Addrs -> Addrs]] :
         \A m \in Hellos : SteadyHello(m, owner, home)
-----------------------------------------------------------------------------
Timers == {t \in Int : t >= Absent}

(* The database and the session keep their types.                          *)
TypeOK ==
    /\ \A n \in NeighSlots :
         /\ db.nb[n].used \in BOOLEAN
         /\ db.nb[n].originator \in Originators \cup {NoOriginator}
         /\ db.nb[n].symmetric \in Int
         /\ db.nb[n].process_count \in Int
    /\ CountersBounded(db)
    /\ \A l \in LinkSlots :
         /\ db.ln[l].status \in Statuses
         /\ {db.ln[l].sym_time, db.ln[l].heard_time, db.ln[l].vtime}
              \subseteq Timers
         /\ db.ln[l].twohop \in [Addrs -> Timers]
         /\ db.ln[l].process_count \in Int
    /\ current.link \in LinkSlots \cup {NoSlot}
    /\ current.neigh \in NeighSlots \cup {NoSlot}
    /\ undefined \in BOOLEAN /\ silent \in BOOLEAN

(* The pointers between the objects of nhdp_db.c stay valid whatever HELLO *)
(* processing, timers and interface events do to the database: a link has  *)
(* a neighbor in the list, a link address a link of its interface, and a   *)
(* neighbor address a neighbor.                                            *)
PointersValid ==
    /\ \A l \in Links(db) : db.ln[l].neigh \in Neighs(db)
    /\ \A i \in Ifs, a \in Addrs :
         db.la[i][a] /= NoSlot => db.la[i][a] \in LinksOn(db, i)
    /\ \A a \in Addrs : db.na[a].neigh /= NoSlot => db.na[a].neigh \in Neighs(db)

(* At most one neighbor has an originator, as the tree of originators      *)
(* (nhdp_db_neighbor_set_originator) needs: it has no duplicate keys.      *)
OriginatorUnique ==
    \A n, p \in Neighs(db) :
      (n /= p /\ db.nb[n].originator /= NoOriginator)
      => db.nb[n].originator /= db.nb[p].originator

(* No link is immortal: every link in the database has a running vtime     *)
(* timer, which is what removes it when its neighbor falls silent.         *)
EveryLinkExpires == \A l \in Links(db) : Active(db.ln[l].vtime)

(* The trees and lists of the database hold valid objects with unique keys *)
(* and a running timer, whatever the HELLOs.                               *)
DatabaseSound == PointersValid /\ OriginatorUnique /\ EveryLinkExpires

(* link->status is the "cached status" of nhdp_db.h: it always equals what *)
(* _nhdp_db_link_calculate_status would return.                            *)
StatusCached == \A l \in Links(db) : db.ln[l].status = CalculateStatus(db.ln[l])

(* neigh->symmetric is the "number of links to this neighbor which are     *)
(* symmetric" (nhdp_db.h).                                                 *)
SymmetricCount ==
    \A n \in Neighs(db) :
      db.nb[n].symmetric =
        Cardinality({l \in LinksOf(db, n) : db.ln[l].status = "SYMMETRIC"})

(* A link is not removed while it is symmetric: its heard_time outlasts    *)
(* sym_time and its vtime outlasts heard_time, in whatever order HELLOs    *)
(* with longer and shorter validity times arrive.                          *)
SymmetricOutlived ==
    \A l \in Links(db) :
      LET lnk == db.ln[l] IN
      /\ lnk.sym_time > 0 => lnk.heard_time >= lnk.sym_time
      /\ Active(lnk.sym_time) => lnk.vtime > lnk.sym_time
      /\ Active(lnk.heard_time) => lnk.vtime > lnk.heard_time

(* What the database caches of the timers of a link agrees with them.      *)
LinkStateCached == StatusCached /\ SymmetricCount /\ SymmetricOutlived

(* A symmetric neighbor can be reached: one of its addresses is not lost,  *)
(* whatever addresses its HELLOs added and dropped.                        *)
SymmetricHasAddress ==
    \A n \in Neighs(db) :
      db.nb[n].symmetric > 0 => \E a \in NaddrsOf(db, n) : ~Active(db.na[a].lost)

(* A neighbor is in the database because of a link to it.                  *)
NeighborHasLink == \A n \in Neighs(db) : LinksOf(db, n) /= {}

(* Every neighbor in the database is there for a link, and every symmetric *)
(* one for an address.                                                     *)
NeighborUsable == NeighborHasLink /\ SymmetricHasAddress

(* nhdp_reader.c: an old neighbor, or link, that has "no address left to   *)
(* process" is removed.  After a HELLO its addresses belong to one         *)
(* neighbor and one link, and of the others that owned some none is left.  *)
OldOwnersRemoved ==
    [][\A m \in Hellos :
         Hello(m) => ( \/ undefined'
                       \/ /\ OwningNeighs(db, m) \cap Neighs(db') \subseteq {current'.neigh}
                          /\ OwningLinks(db, m) \cap Links(db') \subseteq {current'.link} )]_vars

(* nhdp_reader.c, 291 to 311: removing an old neighbor in the middle of a  *)
(* HELLO frees its links.  The link that is being processed is only among  *)
(* them if the HELLO merges neighbors: no process_count of a neighbor that *)
(* keeps its addresses to itself, the sender or another one, reaches zero  *)
(* at the wrong moment.                                                    *)
FreedOnlyByMerge ==
    [][\A m \in Hellos \cup BadAddressTlv :
         undefined' /\ (Hello(m) \/ HelloBadPass2Tlv(m))
         => Cardinality(OwningNeighs(db, m)) > 1]_vars

(* When no HELLO arrives any more the whole neighborhood is forgotten:     *)
(* the chain sym_time, heard_time, vtime ends with an empty database.      *)
SilenceForgotten ==
    silent ~> (Neighs(db) = {} /\ Links(db) = {} /\ \A a \in Addrs : db.na[a] = NoNaddr)
=============================================================================
