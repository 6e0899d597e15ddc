----------------------------- MODULE NhdpProofs -----------------------------
(***************************************************************************)
(* What holds of the NHDP database for every set of routers, addresses,    *)
(* interfaces and HELLOs: it is sound (pointers, originators, vtime        *)
(* timers), its timers expire in the order sym, heard, vtime, and without  *)
(* interface events the cached link status is the calculated one.  All     *)
(* three follow from the inductive invariant DbInv.  When the addresses of *)
(* each HELLO are distinct (WellFormedHellos) a HELLO leaves none of the   *)
(* old owners of its addresses: loop invariant Balanced.  When routers     *)
(* keep their addresses (SteadyHellos) the counters and lost marks agree   *)
(* with the links: invariant Steady.  A HELLO frees the link it is about   *)
(* only if its addresses had several owners: loop invariant SoleSender.    *)
(*                                                                         *)
(* First what each operation of nhdp_db.c returns (the Value lemmas), then *)
(* the structure each of them keeps, then the two passes over a HELLO,     *)
(* whose loops go through LoopInvariant, then the steps of Nhdp; the same  *)
(* order again for the process counts, for steady HELLOs, and for HELLOs   *)
(* with one owner.                                                         *)
(***************************************************************************)
EXTENDS Nhdp, FiniteSetTheorems, WellFoundedInduction, TLAPS

(* The types of neighbors, links, addresses and the database.              *)
NeighType == [used: BOOLEAN, originator: Originators \cup {NoOriginator},
              symmetric: Int, process_count: Int]
LinkStatus == {"LOST", "HEARD", "SYMMETRIC"}
LinkType == [used: BOOLEAN, neigh: NeighSlots \cup {NoSlot},
             if: Ifs \cup {NoSlot}, status: LinkStatus,
             sym_time: Timers, heard_time: Timers, vtime: Timers,
             twohop: [Addrs -> Timers], process_count: Int]
NaddrType == [neigh: NeighSlots \cup {NoSlot}, lost: Int]
DbType == [nb: [NeighSlots -> NeighType], ln: [LinkSlots -> LinkType],
           na: [Addrs -> NaddrType],
           la: [Ifs -> [Addrs -> LinkSlots \cup {NoSlot}]]]

(* The fields of a database have their types.                              *)
LEMMA DbFields ==
    ASSUME NEW d \in DbType
    PROVE  /\ d.nb \in [NeighSlots -> NeighType]
           /\ d.ln \in [LinkSlots -> LinkType]
           /\ d.na \in [Addrs -> NaddrType]
           /\ d.la \in [Ifs -> [Addrs -> LinkSlots \cup {NoSlot}]]
BY DEF DbType

(* Replacing one field of a database leaves a database.                    *)
LEMMA DbUpdates ==
    ASSUME NEW d \in DbType
    PROVE  /\ \A nb \in [NeighSlots -> NeighType] : [d EXCEPT !.nb = nb] \in DbType
           /\ \A ln \in [LinkSlots -> LinkType] : [d EXCEPT !.ln = ln] \in DbType
           /\ \A na \in [Addrs -> NaddrType] : [d EXCEPT !.na = na] \in DbType
           /\ \A la \in [Ifs -> [Addrs -> LinkSlots \cup {NoSlot}]] :
                [d EXCEPT !.la = la] \in DbType
<1> DEFINE NB == [NeighSlots -> NeighType]
           LN == [LinkSlots -> LinkType]
           NA == [Addrs -> NaddrType]
           LA == [Ifs -> [Addrs -> LinkSlots \cup {NoSlot}]]
<1>1. DbType = [nb: NB, ln: LN, na: NA, la: LA]
  BY DEF DbType
<1> HIDE DEF NB, LN, NA, LA
<1>3. /\ \A nb \in NB : [d EXCEPT !.nb = nb] \in DbType
      /\ \A ln \in LN : [d EXCEPT !.ln = ln] \in DbType
      /\ \A na \in NA : [d EXCEPT !.na = na] \in DbType
      /\ \A la \in LA : [d EXCEPT !.la = la] \in DbType
  BY <1>1
<1> QED
  BY <1>3 DEF NB, LN, NA, LA

(* Replacing one link leaves a database.                                   *)
LEMMA LinkUpdate ==
    ASSUME NEW d \in DbType, NEW l \in LinkSlots, NEW lnk \in LinkType
    PROVE  [d EXCEPT !.ln[l] = lnk] \in DbType
<1>1. [d.ln EXCEPT ![l] = lnk] \in [LinkSlots -> LinkType]
  BY DbFields
<1> QED
  BY <1>1, DbUpdates

(* Replacing one neighbor leaves a database.                               *)
LEMMA NeighUpdate ==
    ASSUME NEW d \in DbType, NEW n \in NeighSlots, NEW nei \in NeighType
    PROVE  [d EXCEPT !.nb[n] = nei] \in DbType
<1>1. [d.nb EXCEPT ![n] = nei] \in [NeighSlots -> NeighType]
  BY DbFields
<1> QED
  BY <1>1, DbUpdates

(* nhdp_db_link_2hop_remove for all two-hop addresses of a link.           *)
LEMMA TwoHopRemoveAllValue ==
    ASSUME NEW d \in DbType, NEW l \in LinkSlots
    PROVE  /\ TwoHopRemoveAll(d, l) \in DbType
           /\ TwoHopRemoveAll(d, l).nb = d.nb
           /\ TwoHopRemoveAll(d, l).ln =
                [d.ln EXCEPT ![l].twohop = [a \in Addrs |-> Absent]]
           /\ TwoHopRemoveAll(d, l).na = d.na
           /\ TwoHopRemoveAll(d, l).la = d.la
<1> DEFINE r == TwoHopRemoveAll(d, l)
<1>1. d.ln[l] \in LinkType
  BY DbFields
<1>2. [d.ln[l] EXCEPT !.twohop = [a \in Addrs |-> Absent]] \in LinkType
  BY <1>1 DEF LinkType, Absent, Timers
<1>3. r \in DbType
  BY <1>2, LinkUpdate DEF TwoHopRemoveAll
<1>4. r.nb = d.nb /\ r.na = d.na /\ r.la = d.la
      /\ r.ln = [d.ln EXCEPT ![l].twohop = [a \in Addrs |-> Absent]]
  BY DEF TwoHopRemoveAll, DbType
<1> QED BY <1>3, <1>4

(* nhdp_db_neighbor_addr_set_lost and _not_lost: only the lost timers.     *)
LEMMA SetLostValue ==
    ASSUME NEW d \in DbType, NEW as
    PROVE  /\ SetLost(d, as) \in DbType
           /\ SetLost(d, as).nb = d.nb
           /\ SetLost(d, as).ln = d.ln
           /\ SetLost(d, as).la = d.la
           /\ \A a \in Addrs :
                /\ SetLost(d, as).na[a].neigh = d.na[a].neigh
                /\ SetLost(d, as).na[a].lost = IF a \in as THEN HoldTime ELSE d.na[a].lost
<1> DEFINE r == SetLost(d, as)
           na == [a \in Addrs |-> IF a \in as
                    THEN [d.na[a] EXCEPT !.lost = TimerSet(HoldTime)] ELSE d.na[a]]
<1>0. TimerSet(HoldTime) = HoldTime /\ HoldTime \in Int
  BY NhdpDbAssumption DEF TimerSet, Off
<1>3. na \in [Addrs -> NaddrType]
  <2>1. ASSUME NEW a \in Addrs
        PROVE  /\ d.na[a] \in NaddrType
               /\ [d.na[a] EXCEPT !.lost = TimerSet(HoldTime)] \in NaddrType
    BY <1>0, DbFields DEF NaddrType
  <2> QED
    BY <2>1
<1>4. r = [d EXCEPT !.na = na]
  BY DEF SetLost
<1>1. r \in DbType
  <2> HIDE DEF r, na
  <2> QED
    BY <1>3, <1>4, DbUpdates
<1>2. r.la = d.la /\ r.ln = d.ln /\ r.nb = d.nb /\ r.na = na
  BY <1>4 DEF DbType
<1>5. ASSUME NEW a \in Addrs
      PROVE  /\ na[a].neigh = d.na[a].neigh
             /\ na[a].lost = IF a \in as THEN HoldTime ELSE d.na[a].lost
  BY <1>0, DbFields DEF NaddrType
<1> QED BY <1>1, <1>2, <1>5

(* The same for addresses that are taken back.                             *)
LEMMA NotLostValue ==
    ASSUME NEW d \in DbType, NEW as
    PROVE  /\ NotLost(d, as) \in DbType
           /\ NotLost(d, as).nb = d.nb
           /\ NotLost(d, as).ln = d.ln
           /\ NotLost(d, as).la = d.la
           /\ \A a \in Addrs :
                /\ NotLost(d, as).na[a].neigh = d.na[a].neigh
                /\ NotLost(d, as).na[a].lost = IF a \in as THEN Off ELSE d.na[a].lost
<1> DEFINE r == NotLost(d, as)
           na == [a \in Addrs |-> IF a \in as
                    THEN [d.na[a] EXCEPT !.lost = Off] ELSE d.na[a]]
<1>0. Off \in Int
  BY DEF Off
<1>3. na \in [Addrs -> NaddrType]
  <2>1. ASSUME NEW a \in Addrs
        PROVE  /\ d.na[a] \in NaddrType
               /\ [d.na[a] EXCEPT !.lost = Off] \in NaddrType
    BY <1>0, DbFields DEF NaddrType
  <2> QED
    BY <2>1
<1>4. r = [d EXCEPT !.na = na]
  BY DEF NotLost
<1>1. r \in DbType
  <2> HIDE DEF r, na
  <2> QED
    BY <1>3, <1>4, DbUpdates
<1>2. r.la = d.la /\ r.ln = d.ln /\ r.nb = d.nb /\ r.na = na
  BY <1>4 DEF DbType
<1>5. ASSUME NEW a \in Addrs
      PROVE  /\ na[a].neigh = d.na[a].neigh
             /\ na[a].lost = IF a \in as THEN Off ELSE d.na[a].lost
  BY <1>0, DbFields DEF NaddrType
<1> QED BY <1>1, <1>2, <1>5

(* Objects that keep everything, or everything but what a status update    *)
(* writes.                                                                 *)
SameNeigh(d, r, n) ==
    /\ r.nb[n].used = d.nb[n].used
    /\ r.nb[n].originator = d.nb[n].originator
    /\ r.nb[n].process_count = d.nb[n].process_count
SameEnds(d, r, l) ==
    /\ r.ln[l].used = d.ln[l].used
    /\ r.ln[l].neigh = d.ln[l].neigh
    /\ r.ln[l].if = d.ln[l].if
    /\ r.ln[l].process_count = d.ln[l].process_count
SameTimes(d, r, l) ==
    /\ r.ln[l].sym_time = d.ln[l].sym_time
    /\ r.ln[l].heard_time = d.ln[l].heard_time
    /\ r.ln[l].vtime = d.ln[l].vtime
(* All neighbors keep everything, but for the symmetric counter of one.    *)
Counts(d, r, n, by) ==
    \A p \in NeighSlots :
      /\ SameNeigh(d, r, p)
      /\ r.nb[p].symmetric = d.nb[p].symmetric + (IF p = n THEN by ELSE 0)

(* The symmetric counter of one neighbor changes, nothing else.            *)
LEMMA SymmetricUpdate ==
    ASSUME NEW d \in DbType, NEW n \in NeighSlots, NEW s \in Int
    PROVE  /\ [d EXCEPT !.nb[n].symmetric = s] \in DbType
           /\ [d EXCEPT !.nb[n].symmetric = s].nb = [d.nb EXCEPT ![n].symmetric = s]
           /\ [d EXCEPT !.nb[n].symmetric = s].nb[n].symmetric = s
           /\ [d EXCEPT !.nb[n].symmetric = s].ln = d.ln
           /\ [d EXCEPT !.nb[n].symmetric = s].na = d.na
           /\ [d EXCEPT !.nb[n].symmetric = s].la = d.la
<1>1. d.nb[n] \in NeighType
  BY DbFields
<1>2. [d.nb[n] EXCEPT !.symmetric = s] \in NeighType
  BY <1>1 DEF NeighType
<1>3. [d EXCEPT !.nb[n].symmetric = s] \in DbType
  BY <1>2, NeighUpdate
<1> QED
  BY <1>3 DEF DbType, NeighType

(* _link_status_not_symmetric_anymore: the two-hop addresses, the symmetric*)
(* counter and, with the last symmetric link, the lost timers.             *)
LEMMA NotSymmetricAnymoreValue ==
    ASSUME NEW d \in DbType, NEW l \in LinkSlots, d.ln[l].neigh \in NeighSlots
    PROVE  LET n == d.ln[l].neigh
               r == NotSymmetricAnymore(d, l)
           IN  /\ r \in DbType
               /\ Counts(d, r, n, -1)
               /\ r.ln = TwoHopRemoveAll(d, l).ln
               /\ r.la = d.la
               /\ \A a \in Addrs :
                    /\ r.na[a].neigh = d.na[a].neigh
                    /\ r.na[a].lost = IF d.nb[n].symmetric = 1 /\ d.na[a].neigh = n
                                      THEN HoldTime ELSE d.na[a].lost
<1> DEFINE n == d.ln[l].neigh
           r == NotSymmetricAnymore(d, l)
           e == TwoHopRemoveAll(d, l)
           s == e.nb[n].symmetric - 1
           f == [e EXCEPT !.nb[n].symmetric = s]
<1>1. /\ e \in DbType /\ e.nb = d.nb /\ e.na = d.na /\ e.la = d.la
      /\ e.ln = [d.ln EXCEPT ![l].twohop = [a \in Addrs |-> Absent]]
  BY TwoHopRemoveAllValue
<1>2. d.nb[n].symmetric \in Int
  BY DbFields DEF NeighType
<1>3. s \in Int /\ s = d.nb[n].symmetric - 1
  BY <1>1, <1>2
<1>4. /\ f \in DbType /\ f.nb = [d.nb EXCEPT ![n].symmetric = s] /\ f.na = d.na
      /\ f.la = d.la /\ f.ln = e.ln /\ f.nb[n].symmetric = s
  <2> HIDE DEF e, s
  <2> QED
    BY <1>1, <1>3, SymmetricUpdate
<1>5. r = IF f.nb[n].symmetric = 0 THEN SetLost(f, NaddrsOf(f, n)) ELSE f
  BY DEF NotSymmetricAnymore
<1>6. NaddrsOf(f, n) = {a \in Addrs : d.na[a].neigh = n}
  BY <1>4 DEF NaddrsOf
<1>8. \A x : x.nb = f.nb => Counts(d, x, n, -1)
  <2> SUFFICES ASSUME NEW x, x.nb = f.nb
               PROVE  Counts(d, x, n, -1)
    OBVIOUS
  <2>1. d.nb \in [NeighSlots -> NeighType] /\ n \in NeighSlots
    BY DbFields
  <2> HIDE DEF f, e, s
  <2>2. /\ \A p \in NeighSlots \ {n} : x.nb[p] = d.nb[p]
        /\ x.nb[n] = [d.nb[n] EXCEPT !.symmetric = s]
    BY <1>4, <2>1
  <2> QED
    BY <1>3, <2>1, <2>2 DEF Counts, SameNeigh, NeighType
<1> HIDE DEF r, e, s, f
<1>9. CASE s = 0
  <2>1. r = SetLost(f, NaddrsOf(f, n))
    BY <1>4, <1>5, <1>9
  <2>2. d.nb[n].symmetric = 1
    BY <1>2, <1>3, <1>9
  <2> QED
    <3>1. /\ r \in DbType /\ r.nb = f.nb /\ r.ln = f.ln /\ r.la = f.la
          /\ \A a \in Addrs :
               /\ r.na[a].neigh = f.na[a].neigh
               /\ r.na[a].lost = IF a \in NaddrsOf(f, n) THEN HoldTime ELSE f.na[a].lost
      BY <1>4, <2>1, SetLostValue
    <3> QED
      BY <1>1, <1>4, <1>6, <1>8, <2>2, <3>1 DEF r, e
<1>10. CASE s /= 0
  <2>1. r = f
    BY <1>4, <1>5, <1>10
  <2>2. d.nb[n].symmetric /= 1
    BY <1>2, <1>3, <1>10
  <2> QED
    BY <1>1, <1>4, <1>8, <2>1, <2>2 DEF r, e
<1> QED BY <1>9, <1>10

(* _link_status_now_symmetric: the symmetric counter and, with the first   *)
(* symmetric link, the lost timers.                                        *)
LEMMA NowSymmetricValue ==
    ASSUME NEW d \in DbType, NEW l \in LinkSlots, d.ln[l].neigh \in NeighSlots
    PROVE  LET n == d.ln[l].neigh
               r == NowSymmetric(d, l)
           IN  /\ r \in DbType
               /\ Counts(d, r, n, 1)
               /\ r.ln = d.ln
               /\ r.la = d.la
               /\ \A a \in Addrs :
                    /\ r.na[a].neigh = d.na[a].neigh
                    /\ r.na[a].lost = IF d.nb[n].symmetric = 0 /\ d.na[a].neigh = n
                                      THEN Off ELSE d.na[a].lost
<1> DEFINE n == d.ln[l].neigh
           r == NowSymmetric(d, l)
           s == d.nb[n].symmetric + 1
           f == [d EXCEPT !.nb[n].symmetric = s]
<1>2. d.nb[n].symmetric \in Int /\ s \in Int
  BY DbFields DEF NeighType
<1>4. /\ f \in DbType /\ f.nb = [d.nb EXCEPT ![n].symmetric = s] /\ f.na = d.na
      /\ f.la = d.la /\ f.ln = d.ln /\ f.nb[n].symmetric = s
  <2> HIDE DEF s
  <2> QED
    BY <1>2, SymmetricUpdate
<1>5. r = IF f.nb[n].symmetric = 1 THEN NotLost(f, NaddrsOf(f, n)) ELSE f
  BY DEF NowSymmetric
<1>6. NaddrsOf(f, n) = {a \in Addrs : d.na[a].neigh = n}
  BY <1>4 DEF NaddrsOf
<1>8. \A x : x.nb = f.nb => Counts(d, x, n, 1)
  <2> HIDE DEF f
  <2> QED
    BY <1>2, <1>4, DbFields DEF Counts, SameNeigh, NeighType
<1>9. s = 1 <=> d.nb[n].symmetric = 0
  BY <1>2
<1> HIDE DEF r, s, f
<1>10. CASE s = 1
  <2>1. r = NotLost(f, NaddrsOf(f, n))
    BY <1>4, <1>5, <1>10
  <2> QED
    <3>1. /\ r \in DbType /\ r.nb = f.nb /\ r.ln = f.ln /\ r.la = f.la
          /\ \A a \in Addrs :
               /\ r.na[a].neigh = f.na[a].neigh
               /\ r.na[a].lost = IF a \in NaddrsOf(f, n) THEN Off ELSE f.na[a].lost
      BY <1>4, <2>1, NotLostValue
    <3> QED
      BY <1>4, <1>6, <1>8, <1>9, <1>10, <3>1 DEF r
<1>11. CASE s /= 1
  <2>1. r = f
    BY <1>4, <1>5, <1>11
  <2> QED
    BY <1>4, <1>8, <1>9, <1>11, <2>1 DEF r
<1> QED BY <1>10, <1>11

One(b) == IF b THEN 1 ELSE 0
WasSymmetric(d, l) == d.ln[l].status = "SYMMETRIC"
IsSymmetric(d, l) == CalculateStatus(d.ln[l]) = "SYMMETRIC"

(* The lost timer of an address after the status of link l is updated: it  *)
(* starts with the end of the last symmetric link and stops with the first.*)
LostNow(d, l, a) ==
    LET n == d.ln[l].neigh IN
    IF d.na[a].neigh = n /\ d.nb[n].symmetric = 1 /\ WasSymmetric(d, l) /\ ~IsSymmetric(d, l)
    THEN HoldTime
    ELSE IF d.na[a].neigh = n /\ d.nb[n].symmetric = 0 /\ ~WasSymmetric(d, l) /\ IsSymmetric(d, l)
    THEN Off
    ELSE d.na[a].lost

(* _nhdp_db_link_calculate_status is never pending.                        *)
LEMMA CalculateStatusType ==
    ASSUME NEW lnk
    PROVE  CalculateStatus(lnk) \in LinkStatus
BY DEF CalculateStatus, LinkStatus

(* nhdp_db_link_update_status: the status, and what follows from its       *)
(* change.                                                                 *)
LEMMA UpdateStatusValue ==
    ASSUME NEW d \in DbType, NEW l \in LinkSlots, d.ln[l].neigh \in NeighSlots
    PROVE  LET n == d.ln[l].neigh
               r == UpdateStatus(d, l)
           IN  /\ r \in DbType
               /\ r.la = d.la
               /\ \A p \in NeighSlots :
                    /\ SameNeigh(d, r, p)
                    /\ r.nb[p].symmetric = d.nb[p].symmetric
                         + (IF p = n THEN One(IsSymmetric(d, l)) - One(WasSymmetric(d, l))
                            ELSE 0)
               /\ \A k \in LinkSlots : SameEnds(d, r, k) /\ SameTimes(d, r, k)
               /\ \A k \in LinkSlots \ {l} : r.ln[k] = d.ln[k]
               /\ r.ln[l].status = CalculateStatus(d.ln[l])
               /\ \A a \in Addrs : r.na[a].neigh = d.na[a].neigh
               /\ \A a \in Addrs : r.na[a].lost = LostNow(d, l, a)
<1> DEFINE n == d.ln[l].neigh
           r == UpdateStatus(d, l)
           st == CalculateStatus(d.ln[l])
           e == [d EXCEPT !.ln[l].status = st]
           was == WasSymmetric(d, l)
           is == IsSymmetric(d, l)
<1>1. d.ln[l] \in LinkType
  BY DbFields
<1>2. [d.ln[l] EXCEPT !.status = st] \in LinkType
  BY <1>1, CalculateStatusType DEF LinkType
<1>3. e \in DbType
  BY <1>2, LinkUpdate
<1>4. e.nb = d.nb /\ e.na = d.na /\ e.la = d.la
      /\ e.ln = [d.ln EXCEPT ![l].status = st]
  BY DEF DbType
<1>5. /\ e.ln[l].status = st
      /\ e.ln[l].neigh = n
      /\ \A k \in LinkSlots : SameEnds(d, e, k) /\ SameTimes(d, e, k)
      /\ \A k \in LinkSlots \ {l} : e.ln[k] = d.ln[k]
  BY <1>4, DbFields DEF LinkType, SameEnds, SameTimes
<1>6. r = IF was /\ ~is THEN NotSymmetricAnymore(e, l)
          ELSE IF ~was /\ is THEN NowSymmetric(e, l) ELSE e
  BY <1>5 DEF UpdateStatus, WasSymmetric, IsSymmetric
<1>7. \A p \in NeighSlots : /\ d.nb[p] \in NeighType
                            /\ d.nb[p].symmetric \in Int
  BY DbFields DEF NeighType
<1> HIDE DEF e, st, was, is, r
<1>8. CASE was /\ ~is
  <2>1. r = NotSymmetricAnymore(e, l)
    BY <1>6, <1>8
  <2>2. /\ r \in DbType
        /\ Counts(d, r, n, -1)
        /\ r.ln = [e.ln EXCEPT ![l].twohop = [a \in Addrs |-> Absent]]
        /\ r.la = d.la
        /\ \A a \in Addrs : r.na[a].neigh = d.na[a].neigh
        /\ \A a \in Addrs :
             r.na[a].lost = IF d.nb[n].symmetric = 1 /\ d.na[a].neigh = n THEN HoldTime
                            ELSE d.na[a].lost
    <3>1. e.ln[l].neigh = n /\ e.ln[l].neigh \in NeighSlots
      BY <1>5
    <3>2. /\ r \in DbType
          /\ Counts(e, r, n, -1)
          /\ r.la = e.la
      BY <1>3, <2>1, <3>1, NotSymmetricAnymoreValue
    <3>3. \A a \in Addrs :
            /\ r.na[a].neigh = e.na[a].neigh
            /\ r.na[a].lost = IF e.nb[n].symmetric = 1 /\ e.na[a].neigh = n THEN HoldTime
                              ELSE e.na[a].lost
      BY <1>3, <2>1, <3>1, NotSymmetricAnymoreValue
    <3>4. r.ln = TwoHopRemoveAll(e, l).ln
      BY <1>3, <2>1, <3>1, NotSymmetricAnymoreValue
    <3>5. r.ln = [e.ln EXCEPT ![l].twohop = [a \in Addrs |-> Absent]]
      BY <1>3, <3>4, TwoHopRemoveAllValue
    <3> QED
      BY <1>4, <3>1, <3>2, <3>3, <3>5 DEF Counts, SameNeigh
  <2>3. \A p \in NeighSlots :
          /\ SameNeigh(d, r, p)
          /\ r.nb[p].symmetric = d.nb[p].symmetric
               + (IF p = n THEN One(is) - One(was) ELSE 0)
    <3>1. One(is) - One(was) = -1
      BY <1>8 DEF One
    <3> QED
      BY <2>2, <3>1 DEF Counts
  <2>4. /\ \A k \in LinkSlots : SameEnds(d, r, k) /\ SameTimes(d, r, k)
        /\ \A k \in LinkSlots \ {l} : r.ln[k] = d.ln[k]
        /\ r.ln[l].status = st
    BY <1>3, <1>5, <2>2, DbFields DEF SameEnds, SameTimes, LinkType
  <2>5. \A a \in Addrs : r.na[a].lost = LostNow(d, l, a)
    BY <1>8, <2>2 DEF LostNow, was, is
  <2> QED
    BY <2>2, <2>3, <2>4, <2>5 DEF r, is, was, st
<1>9. CASE ~was /\ is
  <2>1. r = NowSymmetric(e, l)
    BY <1>6, <1>9
  <2>2. /\ r \in DbType
        /\ Counts(d, r, n, 1)
        /\ r.ln = e.ln
        /\ r.la = d.la
        /\ \A a \in Addrs : r.na[a].neigh = d.na[a].neigh
        /\ \A a \in Addrs :
             r.na[a].lost = IF d.nb[n].symmetric = 0 /\ d.na[a].neigh = n THEN Off
                            ELSE d.na[a].lost
    <3>1. e.ln[l].neigh = n /\ e.ln[l].neigh \in NeighSlots
      BY <1>5
    <3>2. /\ r \in DbType
          /\ Counts(e, r, n, 1)
          /\ r.ln = e.ln
          /\ r.la = e.la
      BY <1>3, <2>1, <3>1, NowSymmetricValue
    <3>3. \A a \in Addrs :
            /\ r.na[a].neigh = e.na[a].neigh
            /\ r.na[a].lost = IF e.nb[n].symmetric = 0 /\ e.na[a].neigh = n THEN Off
                              ELSE e.na[a].lost
      BY <1>3, <2>1, <3>1, NowSymmetricValue
    <3> QED
      BY <1>4, <3>1, <3>2, <3>3 DEF Counts, SameNeigh
  <2>3. \A p \in NeighSlots :
          /\ SameNeigh(d, r, p)
          /\ r.nb[p].symmetric = d.nb[p].symmetric
               + (IF p = n THEN One(is) - One(was) ELSE 0)
    <3>1. One(is) - One(was) = 1
      BY <1>9 DEF One
    <3> QED
      BY <2>2, <3>1 DEF Counts
  <2>4. /\ \A k \in LinkSlots : SameEnds(d, r, k) /\ SameTimes(d, r, k)
        /\ \A k \in LinkSlots \ {l} : r.ln[k] = d.ln[k]
        /\ r.ln[l].status = st
    BY <1>5, <2>2 DEF SameEnds, SameTimes
  <2>5. \A a \in Addrs : r.na[a].lost = LostNow(d, l, a)
    BY <1>9, <2>2 DEF LostNow, was, is
  <2> QED
    BY <2>2, <2>3, <2>4, <2>5 DEF r, is, was, st
<1>10. CASE (was /\ is) \/ (~was /\ ~is)
  <2>1. r = e
    BY <1>6, <1>10
  <2>2. \A p \in NeighSlots :
          /\ SameNeigh(d, r, p)
          /\ r.nb[p].symmetric = d.nb[p].symmetric
               + (IF p = n THEN One(is) - One(was) ELSE 0)
    BY <1>4, <1>7, <1>10, <2>1 DEF SameNeigh, One
  <2>3. /\ \A k \in LinkSlots : SameEnds(d, r, k) /\ SameTimes(d, r, k)
        /\ \A k \in LinkSlots \ {l} : r.ln[k] = d.ln[k]
        /\ r.ln[l].status = st
    BY <1>5, <2>1 DEF SameEnds, SameTimes
  <2>4. \A a \in Addrs : r.na[a].lost = LostNow(d, l, a)
    BY <1>4, <1>10, <2>1 DEF LostNow, was, is
  <2> QED
    BY <1>3, <1>4, <2>1, <2>2, <2>3, <2>4 DEF r, is, was, st
<1> QED BY <1>8, <1>9, <1>10

(* nhdp_db_link_set_unsymmetric: the status of the link stays.             *)
LEMMA LinkSetUnsymmetricValue ==
    ASSUME NEW d \in DbType, NEW l \in LinkSlots, d.ln[l].neigh \in NeighSlots
    PROVE  LET n == d.ln[l].neigh
               r == LinkSetUnsymmetric(d, l)
           IN  /\ r \in DbType
               /\ r.la = d.la
               /\ \A p \in NeighSlots : SameNeigh(d, r, p)
               /\ \A k \in LinkSlots : SameEnds(d, r, k)
               /\ \A k \in LinkSlots \ {l} : r.ln[k] = d.ln[k]
               /\ r.ln[l].status = d.ln[l].status
               /\ r.ln[l].sym_time = Off
               /\ r.ln[l].heard_time = d.ln[l].heard_time
               /\ r.ln[l].vtime = d.ln[l].vtime
               /\ \A a \in Addrs : r.na[a].neigh = d.na[a].neigh
<1> DEFINE n == d.ln[l].neigh
           r == LinkSetUnsymmetric(d, l)
           e == IF d.ln[l].status = "SYMMETRIC" THEN NotSymmetricAnymore(d, l) ELSE d
           f == TwoHopRemoveAll(e, l)
           lnk == [f.ln[l] EXCEPT !.sym_time = Off]
<1>1. /\ e \in DbType
      /\ e.la = d.la
      /\ \A p \in NeighSlots : SameNeigh(d, e, p)
      /\ \A a \in Addrs : e.na[a].neigh = d.na[a].neigh
      /\ e.ln = d.ln \/ e.ln = TwoHopRemoveAll(d, l).ln
  <2>1. CASE d.ln[l].status = "SYMMETRIC"
    <3>1. e = NotSymmetricAnymore(d, l)
      BY <2>1
    <3> HIDE DEF e
    <3>2. /\ e \in DbType
          /\ Counts(d, e, n, -1)
          /\ e.la = d.la
      BY <3>1, NotSymmetricAnymoreValue
    <3>3. e.ln = TwoHopRemoveAll(d, l).ln
      BY <3>1, NotSymmetricAnymoreValue
    <3>4. \A a \in Addrs : e.na[a].neigh = d.na[a].neigh
      BY <3>1, NotSymmetricAnymoreValue
    <3>5. \A p \in NeighSlots : SameNeigh(d, e, p)
      BY <3>2 DEF Counts
    <3> QED
      BY <3>2, <3>3, <3>4, <3>5
  <2>2. CASE d.ln[l].status /= "SYMMETRIC"
    BY <2>2 DEF SameNeigh
  <2> QED
    BY <2>1, <2>2
<1>2. /\ f \in DbType /\ f.nb = e.nb /\ f.na = e.na /\ f.la = e.la
      /\ f.ln = [e.ln EXCEPT ![l].twohop = [a \in Addrs |-> Absent]]
  <2> HIDE DEF e
  <2> QED
    BY <1>1, TwoHopRemoveAllValue
<1>3. f.ln[l] \in LinkType
  BY <1>2, DbFields
<1>4. lnk \in LinkType
  <2> HIDE DEF f
  <2> QED
    BY <1>3 DEF LinkType, Off, Absent, Timers
<1>5. r = [f EXCEPT !.ln[l] = lnk]
  BY DEF LinkSetUnsymmetric
<1>6. r \in DbType
  <2> HIDE DEF r, f, lnk
  <2> QED
    BY <1>2, <1>4, <1>5, LinkUpdate
<1>7. r.nb = f.nb /\ r.na = f.na /\ r.la = f.la /\ r.ln = [f.ln EXCEPT ![l] = lnk]
  <2> HIDE DEF f, lnk
  <2> QED
    BY <1>2, <1>5 DEF DbType
<1>8. /\ \A k \in LinkSlots \ {l} : e.ln[k] = d.ln[k]
      /\ SameEnds(d, e, l) /\ SameTimes(d, e, l) /\ e.ln[l].status = d.ln[l].status
  <2>1. CASE e.ln = d.ln
    BY <2>1 DEF SameEnds, SameTimes
  <2>2. CASE e.ln = TwoHopRemoveAll(d, l).ln
    <3> HIDE DEF e
    <3>1. e.ln = [d.ln EXCEPT ![l].twohop = [a \in Addrs |-> Absent]]
      BY <2>2, TwoHopRemoveAllValue
    <3> QED
      BY <3>1, DbFields DEF SameEnds, SameTimes, LinkType
  <2> QED
    BY <1>1, <2>1, <2>2
<1> HIDE DEF e, f
<1>9. /\ \A k \in LinkSlots \ {l} : f.ln[k] = d.ln[k]
      /\ SameEnds(d, f, l) /\ SameTimes(d, f, l) /\ f.ln[l].status = d.ln[l].status
  BY <1>1, <1>2, <1>8, DbFields DEF SameEnds, SameTimes, LinkType
<1>10. /\ lnk.used = f.ln[l].used /\ lnk.neigh = f.ln[l].neigh /\ lnk.if = f.ln[l].if
       /\ lnk.process_count = f.ln[l].process_count
       /\ lnk.status = f.ln[l].status /\ lnk.sym_time = Off
       /\ lnk.heard_time = f.ln[l].heard_time /\ lnk.vtime = f.ln[l].vtime
  BY <1>3 DEF LinkType
<1> HIDE DEF lnk, r
<1>11. r.ln[l] = lnk /\ \A k \in LinkSlots \ {l} : r.ln[k] = d.ln[k]
  BY <1>2, <1>7, <1>9, DbFields
<1>12. \A k \in LinkSlots : SameEnds(d, r, k)
  BY <1>9, <1>10, <1>11 DEF SameEnds
<1>13. \A p \in NeighSlots : SameNeigh(d, r, p)
  BY <1>1, <1>2, <1>7 DEF SameNeigh
<1> QED
  BY <1>1, <1>2, <1>6, <1>7, <1>9, <1>10, <1>11, <1>12, <1>13 DEF r, SameTimes
-----------------------------------------------------------------------------
(* Freed objects have the type of objects.                                 *)
LEMMA FreeObjects ==
    FreeLink \in LinkType /\ FreeNeigh \in NeighType /\ NoNaddr \in NaddrType
BY DEF FreeLink, FreeNeigh, NoNaddr, LinkType, NeighType, NaddrType, LinkStatus, Timers,
       Off, Absent, NoSlot

(* nhdp_db_link_remove: the links are gone, and no address points at them. *)
LEMMA LinksRemoveValue ==
    ASSUME NEW d \in DbType, NEW ls
    PROVE  LET r == LinksRemove(d, ls)
           IN  /\ r \in DbType
               /\ r.nb = d.nb
               /\ r.na = d.na
               /\ \A l \in LinkSlots :
                    r.ln[l] = IF l \in ls THEN FreeLink ELSE d.ln[l]
               /\ \A i \in Ifs, a \in Addrs :
                    r.la[i][a] = IF d.la[i][a] \in ls THEN NoSlot ELSE d.la[i][a]
<1> DEFINE r == LinksRemove(d, ls)
           ln == [l \in LinkSlots |-> IF l \in ls THEN FreeLink ELSE d.ln[l]]
           la == [i \in Ifs |-> [a \in Addrs |->
                    IF d.la[i][a] \in ls THEN NoSlot ELSE d.la[i][a]]]
           e == [d EXCEPT !.ln = ln]
<1>1. ln \in [LinkSlots -> LinkType]
  BY FreeObjects, DbFields
<1>2. la \in [Ifs -> [Addrs -> LinkSlots \cup {NoSlot}]]
  BY DbFields
<1>3. r = [e EXCEPT !.la = la]
  BY DEF LinksRemove, DbType
<1>4. e \in DbType /\ e.nb = d.nb /\ e.na = d.na /\ e.ln = ln /\ e.la = d.la
  <2>1. e \in DbType
    <3> HIDE DEF ln
    <3> QED
      BY <1>1, DbUpdates
  <2> QED
    BY <2>1 DEF DbType
<1>5. r \in DbType /\ r.nb = e.nb /\ r.na = e.na /\ r.ln = e.ln /\ r.la = la
  <2>1. r \in DbType
    <3> HIDE DEF r, e, la
    <3> QED
      BY <1>2, <1>3, <1>4, DbUpdates
  <2> QED
    BY <1>3, <1>4, <2>1 DEF DbType
<1>6. /\ \A l \in LinkSlots : r.ln[l] = IF l \in ls THEN FreeLink ELSE d.ln[l]
      /\ \A i \in Ifs, a \in Addrs :
           r.la[i][a] = IF d.la[i][a] \in ls THEN NoSlot ELSE d.la[i][a]
  BY <1>4, <1>5
<1> QED
  BY <1>4, <1>5, <1>6

(* nhdp_db_neighbor_remove: the neighbor is gone with its links, and no    *)
(* address points at it.                                                   *)
LEMMA NeighborRemoveValue ==
    ASSUME NEW d \in DbType, NEW n \in NeighSlots
    PROVE  LET r == NeighborRemove(d, n)
           IN  /\ r \in DbType
               /\ r.nb = [d.nb EXCEPT ![n] = FreeNeigh]
               /\ \A l \in LinkSlots :
                    r.ln[l] = IF l \in LinksOf(d, n) THEN FreeLink ELSE d.ln[l]
               /\ \A i \in Ifs, a \in Addrs :
                    r.la[i][a] = IF d.la[i][a] \in LinksOf(d, n) THEN NoSlot
                                 ELSE d.la[i][a]
               /\ \A a \in Addrs :
                    r.na[a] = IF d.na[a].neigh = n THEN NoNaddr ELSE d.na[a]
<1> DEFINE r == NeighborRemove(d, n)
           e == LinksRemove(d, LinksOf(d, n))
           f == [e EXCEPT !.nb[n] = FreeNeigh]
           na == [a \in Addrs |-> IF d.na[a].neigh = n THEN NoNaddr ELSE d.na[a]]
<1>1. /\ e \in DbType /\ e.nb = d.nb /\ e.na = d.na
      /\ \A l \in LinkSlots :
           e.ln[l] = IF l \in LinksOf(d, n) THEN FreeLink ELSE d.ln[l]
      /\ \A i \in Ifs, a \in Addrs :
           e.la[i][a] = IF d.la[i][a] \in LinksOf(d, n) THEN NoSlot ELSE d.la[i][a]
  BY LinksRemoveValue
<1> HIDE DEF e
<1>2. /\ f \in DbType /\ f.nb = [d.nb EXCEPT ![n] = FreeNeigh]
      /\ f.ln = e.ln /\ f.na = e.na /\ f.la = e.la
  <2>1. f \in DbType
    BY <1>1, FreeObjects, NeighUpdate
  <2> QED
    BY <1>1, <2>1 DEF DbType
<1>3. r = [f EXCEPT !.na = na]
  BY <1>1, <1>2 DEF NeighborRemove, e, DbType
<1>4. na \in [Addrs -> NaddrType]
  BY FreeObjects, DbFields
<1>5. r \in DbType /\ r.nb = f.nb /\ r.ln = f.ln /\ r.la = f.la /\ r.na = na
  <2> HIDE DEF r, f, na
  <2>1. r \in DbType
    BY <1>2, <1>3, <1>4, DbUpdates
  <2> QED
    BY <1>2, <1>3, <2>1 DEF DbType
<1>6. \A a \in Addrs : r.na[a] = IF d.na[a].neigh = n THEN NoNaddr ELSE d.na[a]
  BY <1>5
<1> HIDE DEF r, f
<1> QED
  BY <1>1, <1>2, <1>5, <1>6 DEF r
-----------------------------------------------------------------------------
(* PointersValid and OriginatorUnique of any database, and the type of it. *)
Pointers(d) ==
    /\ \A l \in Links(d) : d.ln[l].neigh \in Neighs(d)
    /\ \A i \in Ifs, a \in Addrs :
         d.la[i][a] /= NoSlot => d.la[i][a] \in LinksOn(d, i)
    /\ \A a \in Addrs : d.na[a].neigh /= NoSlot => d.na[a].neigh \in Neighs(d)
OwnOriginators(d) ==
    \A n, p \in Neighs(d) :
      (n /= p /\ d.nb[n].originator /= NoOriginator)
      => d.nb[n].originator /= d.nb[p].originator
Structure(d) == d \in DbType /\ Pointers(d) /\ OwnOriginators(d)

(* Two databases with the same objects and the same pointers between them. *)
Shape(d, r) ==
    /\ \A n \in NeighSlots : /\ r.nb[n].used = d.nb[n].used
                             /\ r.nb[n].originator = d.nb[n].originator
    /\ \A l \in LinkSlots : /\ r.ln[l].used = d.ln[l].used
                            /\ r.ln[l].neigh = d.ln[l].neigh
                            /\ r.ln[l].if = d.ln[l].if
    /\ \A a \in Addrs : r.na[a].neigh = d.na[a].neigh
    /\ r.la = d.la

(* They have the same sets of objects.                                     *)
LEMMA ShapeSets ==
    ASSUME NEW d, NEW r, Shape(d, r)
    PROVE  /\ Neighs(r) = Neighs(d) /\ Links(r) = Links(d)
           /\ \A i : LinksOn(r, i) = LinksOn(d, i)
           /\ \A n : LinksOf(r, n) = LinksOf(d, n) /\ NaddrsOf(r, n) = NaddrsOf(d, n)
BY DEF Shape, Neighs, Links, LinksOn, LinksOf, NaddrsOf

(* And if the one is sound so is the other.                                *)
LEMMA ShapeStructure ==
    ASSUME NEW d, NEW r, Structure(d), r \in DbType, Shape(d, r)
    PROVE  Structure(r)
<1>1. Pointers(r)
  BY ShapeSets DEF Structure, Shape, Pointers, Links
<1>2. OwnOriginators(r)
  BY ShapeSets DEF Structure, Shape, OwnOriginators, Neighs
<1> QED
  BY <1>1, <1>2 DEF Structure

(* Shape is transitive.                                                    *)
LEMMA ShapeTrans ==
    ASSUME NEW d, NEW e, NEW r, Shape(d, e), Shape(e, r)
    PROVE  Shape(d, r)
BY DEF Shape

(* NoSlot is no slot.                                                      *)
LEMMA NoSlotFree == NoSlot \notin NeighSlots /\ NoSlot \notin LinkSlots
BY NhdpDbAssumption DEF NoSlot

(* Removing links leaves the pointers valid.                               *)
LEMMA LinksRemoveStructure ==
    ASSUME NEW d, Structure(d), NEW ls
    PROVE  /\ Structure(LinksRemove(d, ls))
           /\ Neighs(LinksRemove(d, ls)) = Neighs(d)
           /\ Links(LinksRemove(d, ls)) = Links(d) \ ls
<1> DEFINE r == LinksRemove(d, ls)
<1>0. d \in DbType
  BY DEF Structure
<1>1. /\ r \in DbType /\ r.nb = d.nb /\ r.na = d.na
      /\ \A l \in LinkSlots : r.ln[l] = IF l \in ls THEN FreeLink ELSE d.ln[l]
      /\ \A i \in Ifs, a \in Addrs :
           r.la[i][a] = IF d.la[i][a] \in ls THEN NoSlot ELSE d.la[i][a]
  BY <1>0, LinksRemoveValue
<1> HIDE DEF r
<1>2. Neighs(r) = Neighs(d)
  BY <1>1 DEF Neighs
<1>3. Links(r) = Links(d) \ ls
  BY <1>1 DEF Links, FreeLink
<1>4. \A l \in Links(r) : r.ln[l] = d.ln[l] /\ l \in Links(d)
  BY <1>1, <1>3 DEF Links
<1>5. \A i \in Ifs, a \in Addrs : r.la[i][a] /= NoSlot => r.la[i][a] \in LinksOn(r, i)
  <2> SUFFICES ASSUME NEW i \in Ifs, NEW a \in Addrs, r.la[i][a] /= NoSlot
               PROVE  r.la[i][a] \in LinksOn(r, i)
    OBVIOUS
  <2>1. r.la[i][a] = d.la[i][a] /\ d.la[i][a] \notin ls
    BY <1>1
  <2>2. d.la[i][a] \in LinksOn(d, i)
    BY <2>1 DEF Structure, Pointers
  <2> QED
    BY <1>3, <1>4, <2>1, <2>2 DEF LinksOn
<1>6. Pointers(r)
  BY <1>1, <1>2, <1>4, <1>5 DEF Structure, Pointers
<1>7. OwnOriginators(r)
  BY <1>1, <1>2 DEF Structure, OwnOriginators
<1> QED
  BY <1>1, <1>2, <1>3, <1>6, <1>7 DEF r, Structure

(* So does removing a neighbor.                                            *)
LEMMA NeighborRemoveStructure ==
    ASSUME NEW d, Structure(d), NEW n \in NeighSlots
    PROVE  /\ Structure(NeighborRemove(d, n))
           /\ Neighs(NeighborRemove(d, n)) = Neighs(d) \ {n}
           /\ Links(NeighborRemove(d, n)) = Links(d) \ LinksOf(d, n)
<1> DEFINE r == NeighborRemove(d, n)
<1>0. d \in DbType
  BY DEF Structure
<1>1. /\ r \in DbType /\ r.nb = [d.nb EXCEPT ![n] = FreeNeigh]
      /\ \A l \in LinkSlots :
           r.ln[l] = IF l \in LinksOf(d, n) THEN FreeLink ELSE d.ln[l]
  BY <1>0, NeighborRemoveValue
<1>11. \A i \in Ifs, a \in Addrs :
         r.la[i][a] = IF d.la[i][a] \in LinksOf(d, n) THEN NoSlot ELSE d.la[i][a]
  BY <1>0, NeighborRemoveValue
<1>12. \A a \in Addrs : r.na[a] = IF d.na[a].neigh = n THEN NoNaddr ELSE d.na[a]
  BY <1>0, NeighborRemoveValue
<1> HIDE DEF r
<1>2. Neighs(r) = Neighs(d) \ {n} /\ \A p \in Neighs(r) : r.nb[p] = d.nb[p]
  BY <1>0, <1>1, DbFields DEF Neighs, FreeNeigh
<1>3. Links(r) = Links(d) \ LinksOf(d, n)
  BY <1>1 DEF Links, FreeLink
<1>4. \A l \in Links(r) : r.ln[l] = d.ln[l] /\ l \in Links(d) /\ l \notin LinksOf(d, n)
  BY <1>1, <1>3 DEF Links
<1>5. \A i \in Ifs, a \in Addrs : r.la[i][a] /= NoSlot => r.la[i][a] \in LinksOn(r, i)
  <2> SUFFICES ASSUME NEW i \in Ifs, NEW a \in Addrs, r.la[i][a] /= NoSlot
               PROVE  r.la[i][a] \in LinksOn(r, i)
    OBVIOUS
  <2>1. r.la[i][a] = d.la[i][a] /\ d.la[i][a] \notin LinksOf(d, n)
    BY <1>11
  <2>2. d.la[i][a] \in LinksOn(d, i)
    BY <2>1 DEF Structure, Pointers
  <2> QED
    BY <1>3, <1>4, <2>1, <2>2 DEF LinksOn
<1>6. \A l \in Links(r) : r.ln[l].neigh \in Neighs(r)
  BY <1>2, <1>4 DEF Structure, Pointers, LinksOf
<1>7. \A a \in Addrs : r.na[a].neigh /= NoSlot => r.na[a].neigh \in Neighs(r)
  BY <1>2, <1>12 DEF Structure, Pointers, NoNaddr
<1>8. OwnOriginators(r)
  BY <1>2 DEF Structure, OwnOriginators
<1> QED
  BY <1>1, <1>2, <1>3, <1>5, <1>6, <1>7, <1>8 DEF r, Structure, Pointers

(* Every set of natural numbers has a least element.                       *)
LEMMA HasMinimum ==
    ASSUME NEW S, S \subseteq Nat, S /= {}
    PROVE  \E x \in S : \A y \in S : x <= y
<1> DEFINE R == OpToRel(<, Nat)
<1>1. IsWellFoundedOn(R, Nat)
  BY NatLessThanWellFounded
<1>2. \A x \in Nat : \A y \in Nat : y < x => <<y, x>> \in R
  BY DEF OpToRel
<1> HIDE DEF R
<1>3. PICK x \in S : \A y \in S : ~ (<<y, x>> \in R)
  BY <1>1, WFMin
<1>4. \A y \in S : ~(y < x)
  BY <1>2, <1>3
<1> QED
  BY <1>4

(* Which is the one that Smallest chooses.                                 *)
LEMMA SmallestValue ==
    ASSUME NEW S, S \subseteq Nat, S /= {}
    PROVE  Smallest(S) \in S /\ \A r \in S : Smallest(S) <= r
<1>1. \E x \in S : \A y \in S : x <= y
  BY HasMinimum
<1> QED
  BY <1>1 DEF Smallest

(* So what holds of zero and of every successor holds of every number.     *)
LEMMA Induction ==
    ASSUME NEW S, 0 \in S, \A n \in Nat : n \in S => n + 1 \in S
    PROVE  Nat \subseteq S
<1> SUFFICES ASSUME Nat \ S /= {} PROVE FALSE
  OBVIOUS
<1>1. PICK x \in Nat \ S : \A y \in Nat \ S : x <= y
  BY HasMinimum
<1> QED
  BY <1>1

(* The tree of originators finds the one neighbor that has an originator.  *)
LEMMA NeighByOriginatorValue ==
    ASSUME NEW d, Structure(d), NEW o
    PROVE  LET q == NeighByOriginator(d, o)
           IN  \/ /\ q = NoSlot
                  /\ o = NoOriginator \/ \A p \in Neighs(d) : d.nb[p].originator /= o
               \/ /\ q \in Neighs(d) /\ o /= NoOriginator
                  /\ \A p \in Neighs(d) : d.nb[p].originator = o <=> p = q
<1> DEFINE S == {n \in Neighs(d) : d.nb[n].originator = o /\ o /= NoOriginator}
           q == NeighByOriginator(d, o)
<1>1. q = IF S = {} THEN NoSlot ELSE Smallest(S)
  BY DEF NeighByOriginator
<1>2. CASE S = {}
  BY <1>1, <1>2
<1>3. CASE S /= {}
  <2>1. PICK s \in S : TRUE
    BY <1>3
  <2>2. \A p \in S : p = s
    BY <2>1 DEF Structure, OwnOriginators
  <2>3. s \in Nat
    BY NhdpDbAssumption DEF Neighs
  <2>4. Smallest(S) = s
    <3> HIDE DEF S
    <3> QED
      BY <2>1, <2>2, <2>3, SmallestValue
  <2>5. q = s
    BY <1>1, <1>3, <2>4
  <2> HIDE DEF q
  <2> QED
    BY <2>1, <2>2, <2>5 DEF q
<1> QED
  BY <1>2, <1>3

(* One field of a neighbor.                                                *)
LEMMA OriginatorUpdate ==
    ASSUME NEW d \in DbType, NEW n \in NeighSlots,
           NEW o \in Originators \cup {NoOriginator}
    PROVE  LET r == [d EXCEPT !.nb[n].originator = o]
           IN  /\ r \in DbType /\ r.ln = d.ln /\ r.na = d.na /\ r.la = d.la
               /\ \A p \in NeighSlots :
                    /\ r.nb[p].used = d.nb[p].used
                    /\ r.nb[p].symmetric = d.nb[p].symmetric
                    /\ r.nb[p].process_count = d.nb[p].process_count
                    /\ r.nb[p].originator = IF p = n THEN o ELSE d.nb[p].originator
<1> DEFINE r == [d EXCEPT !.nb[n].originator = o]
<1>1. d.nb[n] \in NeighType
  BY DbFields
<1>2. [d.nb[n] EXCEPT !.originator = o] \in NeighType
  BY <1>1 DEF NeighType
<1>3. r \in DbType
  BY <1>2, NeighUpdate
<1>4. /\ r.ln = d.ln /\ r.na = d.na /\ r.la = d.la
      /\ r.nb = [d.nb EXCEPT ![n].originator = o]
  BY DEF DbType
<1>5. \A p \in NeighSlots :
        /\ r.nb[p].used = d.nb[p].used
        /\ r.nb[p].symmetric = d.nb[p].symmetric
        /\ r.nb[p].process_count = d.nb[p].process_count
        /\ r.nb[p].originator = IF p = n THEN o ELSE d.nb[p].originator
  <2> HIDE DEF r
  <2> QED
    BY <1>4, DbFields DEF NeighType
<1> QED
  BY <1>3, <1>4, <1>5

(* nhdp_db_neighbor_set_originator leaves no originator with two neighbors.*)
LEMMA SetOriginatorStructure ==
    ASSUME NEW d, Structure(d), NEW n \in Neighs(d),
           NEW o \in Originators \cup {NoOriginator}
    PROVE  LET r == SetOriginator(d, n, o)
           IN  /\ Structure(r) /\ Neighs(r) = Neighs(d)
               /\ r.ln = d.ln /\ r.na = d.na /\ r.la = d.la
               /\ \A p \in NeighSlots :
                    /\ r.nb[p].used = d.nb[p].used
                    /\ r.nb[p].symmetric = d.nb[p].symmetric
                    /\ r.nb[p].process_count = d.nb[p].process_count
                    /\ r.nb[p].originator =
                         IF p = n THEN o
                         ELSE IF p = NeighByOriginator(d, o) THEN NoOriginator
                         ELSE d.nb[p].originator
<1> DEFINE r == SetOriginator(d, n, o)
           q == NeighByOriginator(d, o)
           e == [d EXCEPT !.nb[q].originator = NoOriginator]
           f == IF q \in {NoSlot, n} THEN d ELSE e
<1>0. d \in DbType /\ n \in NeighSlots
  BY DEF Structure, Neighs
<1>1. \/ /\ q = NoSlot
         /\ o = NoOriginator \/ \A p \in Neighs(d) : d.nb[p].originator /= o
      \/ /\ q \in Neighs(d) /\ o /= NoOriginator
         /\ \A p \in Neighs(d) : d.nb[p].originator = o <=> p = q
  BY NeighByOriginatorValue
<1>2. r = [f EXCEPT !.nb[n].originator = o]
  BY <1>0, DbFields DEF SetOriginator, DbType
<1> HIDE DEF q
<1>3. /\ f \in DbType /\ f.ln = d.ln /\ f.na = d.na /\ f.la = d.la
      /\ \A p \in NeighSlots :
           /\ f.nb[p].used = d.nb[p].used
           /\ f.nb[p].symmetric = d.nb[p].symmetric
           /\ f.nb[p].process_count = d.nb[p].process_count
           /\ f.nb[p].originator = IF p = q /\ q /= n THEN NoOriginator
                                   ELSE d.nb[p].originator
  <2>1. CASE q \in {NoSlot, n}
    BY <1>0, <2>1, NoSlotFree
  <2>2. CASE q \notin {NoSlot, n}
    <3>1. q \in NeighSlots /\ q /= n
      BY <1>1, <2>2 DEF Neighs
    <3>2. f = e
      BY <2>2
    <3> HIDE DEF f
    <3> QED
      BY <1>0, <3>1, <3>2, OriginatorUpdate
  <2> QED
    BY <2>1, <2>2
<1> HIDE DEF f, e, r
<1>4. /\ r \in DbType /\ r.ln = f.ln /\ r.na = f.na /\ r.la = f.la
      /\ \A p \in NeighSlots :
           /\ r.nb[p].used = f.nb[p].used
           /\ r.nb[p].symmetric = f.nb[p].symmetric
           /\ r.nb[p].process_count = f.nb[p].process_count
           /\ r.nb[p].originator = IF p = n THEN o ELSE f.nb[p].originator
  <2> DEFINE x == [f EXCEPT !.nb[n].originator = o]
  <2>1. /\ x \in DbType /\ x.ln = f.ln /\ x.na = f.na /\ x.la = f.la
        /\ \A p \in NeighSlots :
             /\ x.nb[p].used = f.nb[p].used
             /\ x.nb[p].symmetric = f.nb[p].symmetric
             /\ x.nb[p].process_count = f.nb[p].process_count
             /\ x.nb[p].originator = IF p = n THEN o ELSE f.nb[p].originator
    <3>1. f \in DbType
      BY <1>3
    <3> QED
      BY <1>0, <3>1, OriginatorUpdate
  <2>2. r = x
    BY <1>2
  <2> HIDE DEF x
  <2> QED
    BY <2>1, <2>2
<1>5. Neighs(r) = Neighs(d)
  BY <1>3, <1>4 DEF Neighs
<1>6. Pointers(r)
  BY <1>3, <1>4, <1>5 DEF Structure, Pointers, Links, LinksOn
<1>7. OwnOriginators(r)
  <2> SUFFICES ASSUME NEW p1 \in Neighs(d), NEW p2 \in Neighs(d), p1 /= p2,
                      r.nb[p1].originator /= NoOriginator,
                      r.nb[p1].originator = r.nb[p2].originator
               PROVE  FALSE
    BY <1>5 DEF OwnOriginators
  <2>1. p1 \in NeighSlots /\ p2 \in NeighSlots
    BY DEF Neighs
  <2>2. CASE p1 /= n /\ p2 /= n
    BY <1>3, <1>4, <2>1, <2>2 DEF Structure, OwnOriginators
  <2>3. ASSUME NEW p \in Neighs(d), p /= n, o /= NoOriginator,
               r.nb[p].originator = o
        PROVE  FALSE
    BY <1>1, <1>3, <1>4, <2>3 DEF Neighs
  <2>4. CASE p1 = n \/ p2 = n
    BY <1>4, <2>1, <2>3, <2>4
  <2> QED
    BY <2>2, <2>4
<1>8. \A p \in NeighSlots :
        /\ r.nb[p].used = d.nb[p].used
        /\ r.nb[p].symmetric = d.nb[p].symmetric
        /\ r.nb[p].process_count = d.nb[p].process_count
        /\ r.nb[p].originator = IF p = n THEN o
                                ELSE IF p = q THEN NoOriginator ELSE d.nb[p].originator
  BY <1>3, <1>4
<1> QED
  BY <1>3, <1>4, <1>5, <1>6, <1>7, <1>8 DEF r, q, Structure

(* nhdp_db_neighbor_add into a free slot.                                  *)
LEMMA NeighborAddStructure ==
    ASSUME NEW d, Structure(d), NEW n \in FreeNeighSlots(d)
    PROVE  LET r == NeighborAdd(d, n)
           IN  /\ Structure(r) /\ Neighs(r) = Neighs(d) \cup {n}
               /\ r.ln = d.ln /\ r.na = d.na /\ r.la = d.la
               /\ \A p \in NeighSlots \ {n} : r.nb[p] = d.nb[p]
               /\ r.nb[n] = [FreeNeigh EXCEPT !.used = TRUE]
<1> DEFINE nei == [FreeNeigh EXCEPT !.used = TRUE]
           r == [d EXCEPT !.nb[n] = nei]
<1>0. d \in DbType /\ n \in NeighSlots /\ n \notin Neighs(d)
  BY DEF Structure, FreeNeighSlots
<1>1. NeighborAdd(d, n) = r
  BY DEF NeighborAdd
<1>2. nei \in NeighType /\ nei.used = TRUE /\ nei.originator = NoOriginator
  BY FreeObjects DEF NeighType, FreeNeigh
<1> HIDE DEF nei
<1>3. r \in DbType
  BY <1>0, <1>2, NeighUpdate
<1>4. r.nb = [d.nb EXCEPT ![n] = nei] /\ r.ln = d.ln /\ r.na = d.na /\ r.la = d.la
  BY <1>0 DEF DbType
<1> HIDE DEF r
<1>5. r.nb[n] = nei /\ \A p \in NeighSlots \ {n} : r.nb[p] = d.nb[p]
  BY <1>0, <1>4, DbFields
<1>6. Neighs(r) = Neighs(d) \cup {n}
  BY <1>0, <1>2, <1>5 DEF Neighs
<1>7. Pointers(r)
  BY <1>4, <1>6 DEF Structure, Pointers, Links, LinksOn
<1>8. OwnOriginators(r)
  <2>1. \A p \in Neighs(d) : r.nb[p] = d.nb[p]
    BY <1>0, <1>5 DEF Neighs
  <2> QED
    BY <1>0, <1>2, <1>5, <1>6, <2>1 DEF Structure, OwnOriginators
<1> QED
  BY <1>1, <1>3, <1>4, <1>5, <1>6, <1>7, <1>8 DEF Structure, nei

(* nhdp_db_link_add into a free slot.                                      *)
LEMMA LinkAddStructure ==
    ASSUME NEW d, Structure(d), NEW l \in FreeLinkSlots(d), NEW n \in Neighs(d),
           NEW i \in Ifs
    PROVE  LET r == LinkAdd(d, l, n, i)
           IN  /\ Structure(r) /\ Links(r) = Links(d) \cup {l}
               /\ r.nb = d.nb /\ r.na = d.na /\ r.la = d.la
               /\ \A k \in LinkSlots \ {l} : r.ln[k] = d.ln[k]
               /\ r.ln[l].neigh = n /\ r.ln[l].if = i
               /\ r.ln[l].status = "LOST" /\ r.ln[l].process_count = 0
<1> DEFINE lnk == [FreeLink EXCEPT !.used = TRUE, !.neigh = n, !.if = i]
           r == [d EXCEPT !.ln[l] = lnk]
<1>0. d \in DbType /\ l \in LinkSlots /\ l \notin Links(d) /\ n \in NeighSlots
  BY DEF Structure, FreeLinkSlots, Neighs
<1>1. LinkAdd(d, l, n, i) = r
  BY DEF LinkAdd
<1>2. /\ lnk \in LinkType /\ lnk.used = TRUE /\ lnk.neigh = n /\ lnk.if = i
      /\ lnk.status = "LOST" /\ lnk.process_count = 0
  BY <1>0, FreeObjects DEF LinkType, FreeLink
<1> HIDE DEF lnk
<1>3. r \in DbType
  BY <1>0, <1>2, LinkUpdate
<1>4. r.nb = d.nb /\ r.ln = [d.ln EXCEPT ![l] = lnk] /\ r.na = d.na /\ r.la = d.la
  BY <1>0 DEF DbType
<1> HIDE DEF r
<1>5. r.ln[l] = lnk /\ \A k \in LinkSlots \ {l} : r.ln[k] = d.ln[k]
  BY <1>0, <1>4, DbFields
<1>6. Links(r) = Links(d) \cup {l}
  BY <1>0, <1>2, <1>5 DEF Links
<1>7. Neighs(r) = Neighs(d)
  BY <1>4 DEF Neighs
<1>8. \A k \in Links(d) : k /= l /\ k \in LinkSlots /\ r.ln[k] = d.ln[k]
  BY <1>0, <1>5 DEF Links
<1>9. \A k \in Links(r) : r.ln[k].neigh \in Neighs(r)
  BY <1>2, <1>5, <1>6, <1>7, <1>8 DEF Structure, Pointers
<1>10. \A j \in Ifs, a \in Addrs : r.la[j][a] /= NoSlot => r.la[j][a] \in LinksOn(r, j)
  BY <1>4, <1>6, <1>8 DEF Structure, Pointers, LinksOn
<1>11. \A a \in Addrs : r.na[a].neigh /= NoSlot => r.na[a].neigh \in Neighs(r)
  BY <1>4, <1>7 DEF Structure, Pointers
<1>12. OwnOriginators(r)
  BY <1>4, <1>7 DEF Structure, OwnOriginators
<1> QED
  BY <1>1, <1>2, <1>3, <1>4, <1>5, <1>6, <1>9, <1>10, <1>11, <1>12
     DEF Structure, Pointers

(* The passing of time writes timers only.                                 *)
LEMMA ElapseDbValue ==
    ASSUME NEW d \in DbType
    PROVE  LET r == ElapseDb(d)
           IN  /\ r \in DbType
               /\ Shape(d, r)
               /\ r.nb = d.nb
               /\ \A l \in LinkSlots :
                    /\ r.ln[l].status = d.ln[l].status
                    /\ r.ln[l].sym_time = Elapse(d.ln[l].sym_time)
                    /\ r.ln[l].heard_time = Elapse(d.ln[l].heard_time)
                    /\ r.ln[l].vtime = Elapse(d.ln[l].vtime)
                    /\ r.ln[l].process_count = d.ln[l].process_count
               /\ \A a \in Addrs : r.na[a].lost = Elapse(d.na[a].lost)
<1> DEFINE lnk(l) == ElapseLink(d.ln[l])
           nad(a) == ElapseNaddr(d.na[a])
           ln == [l \in LinkSlots |-> lnk(l)]
           na == [a \in Addrs |-> nad(a)]
           e == [d EXCEPT !.ln = ln]
           r == [e EXCEPT !.na = na]
<1>1. ElapseDb(d) = r
  BY DEF ElapseDb, DbType
<1>2. /\ \A t \in Int : Elapse(t) \in Int
      /\ \A t \in Timers : Elapse(t) \in Timers
  BY DEF Elapse, Timers, Absent
<1>3. ASSUME NEW l \in LinkSlots
      PROVE  /\ lnk(l) \in LinkType
             /\ lnk(l).used = d.ln[l].used /\ lnk(l).neigh = d.ln[l].neigh
             /\ lnk(l).if = d.ln[l].if /\ lnk(l).status = d.ln[l].status
             /\ lnk(l).process_count = d.ln[l].process_count
             /\ lnk(l).sym_time = Elapse(d.ln[l].sym_time)
             /\ lnk(l).heard_time = Elapse(d.ln[l].heard_time)
             /\ lnk(l).vtime = Elapse(d.ln[l].vtime)
  <2>1. d.ln[l] \in LinkType
    BY DbFields
  <2>2. [a \in Addrs |-> Elapse(d.ln[l].twohop[a])] \in [Addrs -> Timers]
    BY <1>2, <2>1 DEF LinkType
  <2> QED
    BY <1>2, <2>1, <2>2 DEF LinkType, ElapseLink
<1>4. ASSUME NEW a \in Addrs
      PROVE  /\ nad(a) \in NaddrType /\ nad(a).neigh = d.na[a].neigh
             /\ nad(a).lost = Elapse(d.na[a].lost)
  <2>1. d.na[a] \in NaddrType
    BY DbFields
  <2> QED
    BY <1>2, <2>1 DEF NaddrType, ElapseNaddr
<1> HIDE DEF lnk, nad
<1>5. ln \in [LinkSlots -> LinkType] /\ na \in [Addrs -> NaddrType]
  BY <1>3, <1>4
<1>6. e \in DbType /\ e.nb = d.nb /\ e.la = d.la /\ e.ln = ln
  <2>1. e \in DbType
    <3> HIDE DEF ln
    <3> QED
      BY <1>5, DbUpdates
  <2> QED
    BY <2>1 DEF DbType
<1> HIDE DEF e
<1>7. r \in DbType /\ r.nb = d.nb /\ r.la = d.la /\ r.ln = ln /\ r.na = na
  <2>1. r \in DbType
    <3> HIDE DEF na
    <3> QED
      BY <1>5, <1>6, DbUpdates
  <2> QED
    BY <1>6, <2>1 DEF DbType
<1> HIDE DEF r
<1>8. Shape(d, r)
  BY <1>3, <1>4, <1>7 DEF Shape
<1> QED
  BY <1>1, <1>3, <1>4, <1>7, <1>8
-----------------------------------------------------------------------------
(* The timers of a link: a running vtime, later than heard_time, which is  *)
(* not before sym_time; and the cached status, as long as no interface     *)
(* loses its addresses.                                                    *)
Ordered(lnk) ==
    /\ lnk.sym_time > 0 => lnk.heard_time >= lnk.sym_time
    /\ Active(lnk.sym_time) => lnk.vtime > lnk.sym_time
    /\ Active(lnk.heard_time) => lnk.vtime > lnk.heard_time
Cached(lnk) == Unstable = {} => lnk.status = CalculateStatus(lnk)
LinkFine(lnk) == Active(lnk.vtime) /\ Ordered(lnk) /\ Cached(lnk)

LinksFineBut(d, x) == \A l \in Links(d) : l /= x => LinkFine(d.ln[l])

DbInv(d) == Structure(d) /\ \A l \in Links(d) : LinkFine(d.ln[l])

(* What of a link decides whether it is fine.                              *)
LEMMA SameLinkFine ==
    ASSUME NEW d, NEW r, NEW l, SameTimes(d, r, l), r.ln[l].status = d.ln[l].status,
           LinkFine(d.ln[l])
    PROVE  LinkFine(r.ln[l])
BY DEF SameTimes, LinkFine, Ordered, Cached, CalculateStatus

(* A smaller database of the same links is fine.                           *)
LEMMA FewerLinksFine ==
    ASSUME NEW d, NEW r, NEW x, LinksFineBut(d, x), Links(r) \subseteq Links(d),
           \A l \in Links(r) : r.ln[l] = d.ln[l]
    PROVE  LinksFineBut(r, x)
BY DEF LinksFineBut

(* Removing links and neighbors leaves the others alone.                   *)
LEMMA LinksRemoveFine ==
    ASSUME NEW d, Structure(d), NEW x, LinksFineBut(d, x), NEW ls
    PROVE  LinksFineBut(LinksRemove(d, ls), x)
<1> DEFINE r == LinksRemove(d, ls)
<1>0. d \in DbType
  BY DEF Structure
<1>1. \A l \in LinkSlots : r.ln[l] = IF l \in ls THEN FreeLink ELSE d.ln[l]
  BY <1>0, LinksRemoveValue
<1>2. Links(r) = Links(d) \ ls
  BY LinksRemoveStructure
<1>3. \A l \in Links(r) : r.ln[l] = d.ln[l]
  BY <1>1, <1>2 DEF Links
<1> QED
  BY <1>2, <1>3, FewerLinksFine

(* The same for a neighbor.                                                *)
LEMMA NeighborRemoveFine ==
    ASSUME NEW d, Structure(d), NEW x, LinksFineBut(d, x), NEW n \in NeighSlots
    PROVE  LinksFineBut(NeighborRemove(d, n), x)
<1> DEFINE r == NeighborRemove(d, n)
<1>0. d \in DbType
  BY DEF Structure
<1>1. \A l \in LinkSlots : r.ln[l] = IF l \in LinksOf(d, n) THEN FreeLink ELSE d.ln[l]
  BY <1>0, NeighborRemoveValue
<1>2. Links(r) = Links(d) \ LinksOf(d, n)
  BY NeighborRemoveStructure
<1>3. \A l \in Links(r) : r.ln[l] = d.ln[l]
  BY <1>1, <1>2 DEF Links
<1> QED
  BY <1>2, <1>3, FewerLinksFine

(* _cleanup_error keeps the invariant.                                     *)
LEMMA CleanupErrorInv ==
    ASSUME NEW d, Structure(d), NEW s, LinksFineBut(d, s.link),
           s.neigh = NoSlot \/ s.neigh \in NeighSlots
    PROVE  DbInv(CleanupError(d, s))
<1> DEFINE e == IF s.link = NoSlot THEN d ELSE LinksRemove(d, {s.link})
<1>1. Structure(e) /\ LinksFineBut(e, s.link)
  BY LinksRemoveStructure, LinksRemoveFine
<1>2. s.link \notin Links(e)
  <2>1. CASE s.link = NoSlot
    BY <2>1, NoSlotFree DEF Links
  <2>2. CASE s.link /= NoSlot
    <3>1. Links(e) = Links(d) \ {s.link}
      BY <2>2, LinksRemoveStructure
    <3> QED
      BY <3>1
  <2> QED
    BY <2>1, <2>2
<1>3. CleanupError(d, s) = IF s.neigh = NoSlot THEN e ELSE NeighborRemove(e, s.neigh)
  BY DEF CleanupError
<1> HIDE DEF e
<1>4. LinksFineBut(e, NoSlot)
  BY <1>1, <1>2 DEF LinksFineBut
<1>5. Structure(CleanupError(d, s)) /\ LinksFineBut(CleanupError(d, s), NoSlot)
  BY <1>1, <1>3, <1>4, NeighborRemoveStructure, NeighborRemoveFine
<1> QED
  BY <1>5, NoSlotFree DEF DbInv, LinksFineBut, Links
-----------------------------------------------------------------------------
(* The context of a HELLO, and what holds of it before the neighbor and    *)
(* the link are taken, and afterwards.                                     *)
CtxType == [db: DbType, bad: BOOLEAN, neigh: NeighSlots \cup {NoSlot},
            link: LinkSlots \cup {NoSlot}, markN: SUBSET Addrs, markL: SUBSET Addrs]

Searching(c, m) ==
    /\ c \in CtxType /\ ~c.bad /\ DbInv(c.db)
    /\ c.neigh \in Neighs(c.db) \cup {NoSlot}
    /\ c.link \in LinksOn(c.db, m.if) \cup {NoSlot}

Working(c, m) ==
    /\ c \in CtxType
    /\ ~c.bad => /\ Structure(c.db)
                 /\ c.neigh \in Neighs(c.db)
                 /\ c.link \in LinksOn(c.db, m.if)
                 /\ LinksFineBut(c.db, c.link)

(* The sets of indices that pass 1 counts are finite.                      *)
LEMMA CountType ==
    ASSUME NEW m \in HelloMessage, NEW S, S \subseteq DOMAIN m.locals
    PROVE  IsFiniteSet(S) /\ Cardinality(S) \in Nat
<1>1. DOMAIN m.locals = 1 .. Len(m.locals) /\ Len(m.locals) \in Nat
  BY DEF HelloMessage
<1>2. IsFiniteSet(1 .. Len(m.locals))
  BY <1>1, FS_Interval
<1> QED
  BY <1>1, <1>2, FS_Subset, FS_CardinalityType

(* _cb_addresstlvs_pass1 counts and does nothing else.                     *)
CountN(d, m, n) == Cardinality({j \in DOMAIN m.locals : d.na[m.locals[j][1]].neigh = n})
CountL(d, m, l) == Cardinality({j \in DOMAIN m.locals :
                                  /\ m.locals[j][2] = "THIS"
                                  /\ d.la[m.if][m.locals[j][1]] = l})

(* What it leaves alone, and what it counts.                               *)
LEMMA CountAddressesValue ==
    ASSUME NEW d \in DbType, NEW m \in HelloMessage
    PROVE  LET r == CountAddresses(d, m)
           IN  /\ r \in DbType
               /\ Shape(d, r)
               /\ r.na = d.na
               /\ \A n \in NeighSlots :
                    /\ r.nb[n].symmetric = d.nb[n].symmetric
                    /\ r.nb[n].process_count = CountN(d, m, n)
               /\ \A l \in LinkSlots :
                    /\ SameTimes(d, r, l)
                    /\ r.ln[l].status = d.ln[l].status
                    /\ l \in LinksOn(d, m.if) => r.ln[l].process_count = CountL(d, m, l)
<1> DEFINE nb == [n \in NeighSlots |-> Counted(d.nb[n], CountN(d, m, n))]
           ln == [l \in LinkSlots |-> IF l \notin LinksOn(d, m.if) THEN d.ln[l]
                                      ELSE Counted(d.ln[l], CountL(d, m, l))]
           e == [d EXCEPT !.nb = nb]
           r == [e EXCEPT !.ln = ln]
<1>1. CountAddresses(d, m) = r
  BY DEF CountAddresses, CountN, CountL, DbType
<1>2. \A n : CountN(d, m, n) \in Nat
  BY CountType DEF CountN
<1>3. \A l : CountL(d, m, l) \in Nat
  BY CountType DEF CountL
<1>4. ASSUME NEW n \in NeighSlots
      PROVE  /\ nb[n] \in NeighType
             /\ nb[n].used = d.nb[n].used /\ nb[n].originator = d.nb[n].originator
             /\ nb[n].symmetric = d.nb[n].symmetric
             /\ nb[n].process_count = CountN(d, m, n)
  <2>1. d.nb[n] \in NeighType /\ CountN(d, m, n) \in Int
    BY <1>2, DbFields
  <2> QED
    BY <2>1 DEF Counted, NeighType
<1>5. ASSUME NEW l \in LinkSlots
      PROVE  /\ ln[l] \in LinkType
             /\ ln[l].used = d.ln[l].used /\ ln[l].neigh = d.ln[l].neigh
             /\ ln[l].if = d.ln[l].if /\ ln[l].status = d.ln[l].status
             /\ ln[l].sym_time = d.ln[l].sym_time
             /\ ln[l].heard_time = d.ln[l].heard_time
             /\ ln[l].vtime = d.ln[l].vtime
             /\ l \in LinksOn(d, m.if) => ln[l].process_count = CountL(d, m, l)
  <2>1. d.ln[l] \in LinkType /\ CountL(d, m, l) \in Int
    BY <1>3, DbFields
  <2> QED
    BY <2>1 DEF Counted, LinkType
<1>6. nb \in [NeighSlots -> NeighType] /\ ln \in [LinkSlots -> LinkType]
  <2>1. \A n \in NeighSlots : nb[n] \in NeighType
    BY <1>4
  <2>2. \A l \in LinkSlots : ln[l] \in LinkType
    BY <1>5
  <2> QED
    BY <2>1, <2>2
<1>7. e \in DbType /\ e.nb = nb /\ e.ln = d.ln /\ e.na = d.na /\ e.la = d.la
  <2> HIDE DEF nb
  <2>1. e \in DbType
    BY <1>6, DbUpdates
  <2> QED
    BY <2>1 DEF DbType
<1> HIDE DEF e
<1>8. r \in DbType /\ r.nb = nb /\ r.ln = ln /\ r.na = d.na /\ r.la = d.la
  <2> HIDE DEF nb, ln
  <2>1. r \in DbType
    BY <1>6, <1>7, DbUpdates
  <2> QED
    BY <1>7, <2>1 DEF DbType
<1> HIDE DEF nb, ln, r
<1>9. Shape(d, r)
  BY <1>4, <1>5, <1>8 DEF Shape
<1> QED
  BY <1>1, <1>4, <1>5, <1>8, <1>9 DEF SameTimes

(* A change that keeps the shape, the timers and the status keeps the      *)
(* invariant.                                                              *)
LEMMA SameDbInv ==
    ASSUME NEW d, DbInv(d), NEW r, r \in DbType, Shape(d, r),
           \A l \in LinkSlots : SameTimes(d, r, l) /\ r.ln[l].status = d.ln[l].status
    PROVE  DbInv(r)
<1>1. Structure(r) /\ Links(r) = Links(d)
  BY ShapeStructure, ShapeSets DEF DbInv
<1>2. \A l \in Links(r) : LinkFine(r.ln[l])
  BY <1>1, SameLinkFine DEF DbInv, Links
<1> QED
  BY <1>1, <1>2 DEF DbInv

(* The only element of a set, or NoSlot.                                   *)
LEMMA UniqueValue ==
    ASSUME NEW S, S \subseteq Nat
    PROVE  Unique(S) \in S \cup {NoSlot}
<1>1. CASE Cardinality(S) = 1
  <2>1. S /= {}
    BY <1>1, FS_EmptySet
  <2> QED
    BY <1>1, <2>1, SmallestValue DEF Unique
<1>2. CASE Cardinality(S) /= 1
  BY <1>2 DEF Unique
<1> QED
  BY <1>1, <1>2

(* _cb_addresstlvs_pass1.                                                  *)
LEMMA Pass1Searching ==
    ASSUME NEW d, DbInv(d), NEW m \in HelloMessage
    PROVE  LET c == Pass1(d, m)
           IN  /\ Searching(c, m)
               /\ Neighs(c.db) = Neighs(d) /\ Links(c.db) = Links(d)
<1> DEFINE c == Pass1(d, m)
           e == CountAddresses(d, m)
           n == Unique(OwningNeighs(d, m))
           l == Unique(OwningLinks(d, m))
<1>0. d \in DbType
  BY DEF DbInv, Structure
<1>1. /\ e \in DbType /\ Shape(d, e)
      /\ \A k \in LinkSlots : SameTimes(d, e, k) /\ e.ln[k].status = d.ln[k].status
  BY <1>0, CountAddressesValue
<1> HIDE DEF e
<1>2. DbInv(e)
  BY <1>1, SameDbInv
<1>3. Neighs(e) = Neighs(d) /\ Links(e) = Links(d) /\ LinksOn(e, m.if) = LinksOn(d, m.if)
  BY <1>1, ShapeSets
<1>4. /\ m.if \in Ifs
      /\ \A j \in DOMAIN m.locals : m.locals[j][1] \in Addrs
  BY DEF HelloMessage
<1>5. LocalAddrs(m) \subseteq Addrs /\ ThisIf(m) \subseteq Addrs
  BY <1>4 DEF LocalAddrs, ThisIf
<1>6. OwningNeighs(d, m) \subseteq Neighs(d)
  BY <1>5 DEF OwningNeighs, DbInv, Structure, Pointers
<1>7. OwningLinks(d, m) \subseteq LinksOn(d, m.if)
  BY <1>4, <1>5 DEF OwningLinks, DbInv, Structure, Pointers
<1>8. Neighs(d) \subseteq NeighSlots /\ LinksOn(d, m.if) \subseteq LinkSlots
  BY DEF Neighs, Links, LinksOn
<1>9. n \in Neighs(d) \cup {NoSlot} /\ l \in LinksOn(d, m.if) \cup {NoSlot}
  BY <1>6, <1>7, <1>8, UniqueValue, NhdpDbAssumption
<1> HIDE DEF n, l
<1>10. c = [db |-> e, bad |-> FALSE, neigh |-> n, link |-> l, markN |-> {}, markL |-> {}]
  BY DEF Pass1, e, n, l
<1>11. c \in CtxType
  BY <1>1, <1>8, <1>9, <1>10 DEF CtxType
<1> QED
  BY <1>2, <1>3, <1>9, <1>10, <1>11 DEF Searching

(* _handle_originator.                                                     *)
LEMMA HandleOriginatorSearching ==
    ASSUME NEW c, NEW m \in HelloMessage, Searching(c, m)
    PROVE  LET r == HandleOriginator(c, m)
           IN  /\ Searching(r, m) /\ r.link = c.link
               /\ Neighs(r.db) = Neighs(c.db) /\ Links(r.db) = Links(c.db)
<1> DEFINE r == HandleOriginator(c, m)
           n == NeighByOriginator(c.db, m.orig)
           e == SetOriginator(c.db, n, NoOriginator)
<1>0. c \in CtxType /\ Structure(c.db)
  BY DEF Searching, DbInv
<1>1. n \in Neighs(c.db) \cup {NoSlot}
  BY <1>0, NeighByOriginatorValue
<1>2. \/ r = c
      \/ n /= NoSlot /\ r = [c EXCEPT !.neigh = n]
      \/ n /= NoSlot /\ r = [c EXCEPT !.db = e]
  BY DEF HandleOriginator
<1> HIDE DEF n, r
<1>3. CASE r = c
  BY <1>3 DEF r
<1>4. CASE n /= NoSlot /\ r = [c EXCEPT !.neigh = n]
  <2>1. n \in NeighSlots
    BY <1>1, <1>4 DEF Neighs
  <2>2. /\ r \in CtxType /\ r.db = c.db /\ r.bad = c.bad /\ r.neigh = n
        /\ r.link = c.link
    BY <1>0, <1>4, <2>1 DEF CtxType
  <2> QED
    BY <1>1, <2>2 DEF Searching, r
<1>5. CASE n /= NoSlot /\ r = [c EXCEPT !.db = e]
  <2>1. n \in Neighs(c.db)
    BY <1>1, <1>5
  <2>2. Structure(e) /\ Neighs(e) = Neighs(c.db) /\ e.ln = c.db.ln
    BY <1>0, <2>1, SetOriginatorStructure
  <2> HIDE DEF e
  <2>3. /\ r \in CtxType /\ r.db = e /\ r.bad = c.bad /\ r.neigh = c.neigh
        /\ r.link = c.link
    BY <1>0, <1>5, <2>2 DEF CtxType, Structure
  <2>4. Links(e) = Links(c.db) /\ LinksOn(e, m.if) = LinksOn(c.db, m.if)
    BY <2>2 DEF Links, LinksOn
  <2>5. DbInv(e)
    BY <2>2, <2>4 DEF Searching, DbInv
  <2> QED
    BY <2>2, <2>3, <2>4, <2>5 DEF Searching, r
<1> QED
  BY <1>2, <1>3, <1>4, <1>5

(* The neighbor of the message, found or created.                          *)
LEMMA TakeNeighborSearching ==
    ASSUME NEW c, NEW m \in HelloMessage, Searching(c, m), FreeNeighSlots(c.db) /= {}
    PROVE  LET r == TakeNeighbor(c)
           IN  /\ Searching(r, m) /\ r.neigh \in Neighs(r.db)
               /\ Links(r.db) = Links(c.db)
<1> DEFINE n == Smallest(FreeNeighSlots(c.db))
           e == NeighborAdd(c.db, n)
           r == TakeNeighbor(c)
<1>0. c \in CtxType /\ Structure(c.db)
  BY DEF Searching, DbInv
<1>1. CASE c.neigh = NoSlot
  <2>1. FreeNeighSlots(c.db) \subseteq NeighSlots
    BY DEF FreeNeighSlots
  <2>2. n \in FreeNeighSlots(c.db)
    BY <2>1, NhdpDbAssumption, SmallestValue
  <2>3. n \in NeighSlots
    BY <2>1, <2>2
  <2>4. r = [c EXCEPT !.db = e, !.neigh = n]
    BY <1>0, <1>1 DEF TakeNeighbor, CtxType
  <2> HIDE DEF n
  <2>5. Structure(e) /\ Neighs(e) = Neighs(c.db) \cup {n} /\ e.ln = c.db.ln
    BY <1>0, <2>2, NeighborAddStructure
  <2> HIDE DEF e, r
  <2>6. /\ r \in CtxType /\ r.db = e /\ r.bad = c.bad /\ r.neigh = n
        /\ r.link = c.link
    BY <1>0, <2>3, <2>4, <2>5 DEF CtxType, Structure
  <2>7. Links(e) = Links(c.db) /\ LinksOn(e, m.if) = LinksOn(c.db, m.if)
    BY <2>5 DEF Links, LinksOn
  <2>8. DbInv(e)
    BY <2>5, <2>7 DEF Searching, DbInv
  <2> QED
    BY <2>5, <2>6, <2>7, <2>8 DEF Searching, r
<1>2. CASE c.neigh /= NoSlot
  <2>1. r = [c EXCEPT !.markN = NaddrsOf(c.db, c.neigh)]
    BY <1>2 DEF TakeNeighbor
  <2>2. NaddrsOf(c.db, c.neigh) \in SUBSET Addrs
    BY DEF NaddrsOf
  <2> HIDE DEF r
  <2>3. /\ r \in CtxType /\ r.db = c.db /\ r.bad = c.bad /\ r.neigh = c.neigh
        /\ r.link = c.link
    BY <1>0, <2>1, <2>2 DEF CtxType
  <2> QED
    BY <1>2, <2>3 DEF Searching, r
<1> QED
  BY <1>1, <1>2

(* And the link.                                                           *)
LEMMA TakeLinkWorking ==
    ASSUME NEW c, NEW m \in HelloMessage, Searching(c, m), c.neigh \in Neighs(c.db),
           FreeLinkSlots(c.db) /= {}
    PROVE  Working(TakeLink(c, m), m) /\ ~TakeLink(c, m).bad
<1> DEFINE l == Smallest(FreeLinkSlots(c.db))
           e == LinkAdd(c.db, l, c.neigh, m.if)
           r == TakeLink(c, m)
<1>0. c \in CtxType /\ Structure(c.db) /\ ~c.bad /\ m.if \in Ifs
  BY DEF Searching, DbInv, HelloMessage
<1>1. CASE c.link = NoSlot
  <2>1. FreeLinkSlots(c.db) \subseteq LinkSlots
    BY DEF FreeLinkSlots
  <2>2. l \in FreeLinkSlots(c.db)
    BY <2>1, NhdpDbAssumption, SmallestValue
  <2>3. l \in LinkSlots /\ l \notin Links(c.db)
    BY <2>1, <2>2 DEF FreeLinkSlots
  <2>4. r = [c EXCEPT !.db = e, !.link = l]
    BY <1>0, <1>1 DEF TakeLink, CtxType
  <2> HIDE DEF l
  <2>5. /\ Structure(e) /\ Links(e) = Links(c.db) \cup {l} /\ e.nb = c.db.nb
        /\ \A k \in LinkSlots \ {l} : e.ln[k] = c.db.ln[k]
    BY <1>0, <2>2, LinkAddStructure
  <2>7. e.ln[l].if = m.if
    BY <1>0, <2>2, LinkAddStructure
  <2> HIDE DEF e, r
  <2>6. /\ r \in CtxType /\ r.db = e /\ r.bad = c.bad /\ r.neigh = c.neigh
        /\ r.link = l
    BY <1>0, <2>3, <2>4, <2>5 DEF CtxType, Structure
  <2>8. l \in LinksOn(e, m.if)
    BY <2>5, <2>7 DEF LinksOn
  <2>9. Neighs(e) = Neighs(c.db)
    BY <2>5 DEF Neighs
  <2>10. LinksFineBut(e, l)
    BY <2>5 DEF LinksFineBut, Searching, DbInv, Links
  <2> QED
    BY <1>0, <2>5, <2>6, <2>8, <2>9, <2>10 DEF Working, r
<1>2. CASE c.link /= NoSlot
  <2>1. r = [c EXCEPT !.markL = {a \in Addrs : c.db.la[m.if][a] = c.link}]
    BY <1>2 DEF TakeLink
  <2> HIDE DEF r
  <2>3. /\ r \in CtxType /\ r.db = c.db /\ r.bad = c.bad /\ r.neigh = c.neigh
        /\ r.link = c.link
    BY <1>0, <2>1 DEF CtxType
  <2> QED
    BY <1>0, <1>2, <2>3 DEF Searching, Working, DbInv, LinksFineBut, r
<1> QED
  BY <1>1, <1>2
-----------------------------------------------------------------------------
(* A link address is pointed at another link of its interface.             *)
LEMMA LinkAddrMove ==
    ASSUME NEW d, Structure(d), NEW i \in Ifs, NEW a \in Addrs, NEW l \in LinksOn(d, i)
    PROVE  LET r == [d EXCEPT !.la[i][a] = l]
           IN  /\ Structure(r) /\ r.nb = d.nb /\ r.ln = d.ln /\ r.na = d.na
               /\ \A j \in Ifs, b \in Addrs :
                    r.la[j][b] = IF j = i /\ b = a THEN l ELSE d.la[j][b]
<1> DEFINE la == [d.la EXCEPT ![i][a] = l]
           r == [d EXCEPT !.la[i][a] = l]
<1>0. d \in DbType /\ l \in LinkSlots
  BY DEF Structure, LinksOn, Links
<1>1. la \in [Ifs -> [Addrs -> LinkSlots \cup {NoSlot}]]
  BY <1>0, DbFields
<1>2. /\ \A j \in Ifs, b \in Addrs :
           la[j][b] = IF j = i /\ b = a THEN l ELSE d.la[j][b]
  BY <1>0, DbFields
<1>3. r = [d EXCEPT !.la = la]
  BY <1>0 DEF DbType
<1> HIDE DEF la, r
<1>4. r \in DbType
  BY <1>0, <1>1, <1>3, DbUpdates
<1>5. r.nb = d.nb /\ r.ln = d.ln /\ r.na = d.na /\ r.la = la
  BY <1>0, <1>3 DEF DbType
<1>6. Neighs(r) = Neighs(d) /\ Links(r) = Links(d) /\ \A j : LinksOn(r, j) = LinksOn(d, j)
  BY <1>5 DEF Neighs, Links, LinksOn
<1>7. Pointers(r)
  BY <1>2, <1>5, <1>6 DEF Structure, Pointers
<1>8. OwnOriginators(r)
  BY <1>5, <1>6 DEF Structure, OwnOriginators
<1> QED
  BY <1>2, <1>4, <1>5, <1>7, <1>8 DEF Structure, r

(* A neighbor address is given to a neighbor.                              *)
LEMMA NaddrMove ==
    ASSUME NEW d, Structure(d), NEW a \in Addrs, NEW n \in Neighs(d)
    PROVE  LET r == [d EXCEPT !.na[a] = [neigh |-> n, lost |-> Off]]
           IN  /\ Structure(r) /\ r.nb = d.nb /\ r.ln = d.ln /\ r.la = d.la
               /\ \A b \in Addrs : /\ r.na[b].neigh = IF b = a THEN n ELSE d.na[b].neigh
                                   /\ r.na[b].lost = IF b = a THEN Off ELSE d.na[b].lost
<1> DEFINE new == [neigh |-> n, lost |-> Off]
           na == [d.na EXCEPT ![a] = new]
           r == [d EXCEPT !.na[a] = new]
<1>0. d \in DbType /\ n \in NeighSlots
  BY DEF Structure, Neighs
<1>1. new \in NaddrType /\ new.neigh = n /\ new.lost = Off
  BY <1>0 DEF NaddrType, Off
<1> HIDE DEF new
<1>2. /\ na \in [Addrs -> NaddrType]
      /\ \A b \in Addrs : na[b] = IF b = a THEN new ELSE d.na[b]
  BY <1>0, <1>1, DbFields
<1>3. r = [d EXCEPT !.na = na]
  BY <1>0 DEF DbType
<1> HIDE DEF na, r
<1>4. r \in DbType
  BY <1>0, <1>2, <1>3, DbUpdates
<1>5. r.nb = d.nb /\ r.ln = d.ln /\ r.la = d.la /\ r.na = na
  BY <1>0, <1>3 DEF DbType
<1>6. Neighs(r) = Neighs(d) /\ Links(r) = Links(d) /\ \A j : LinksOn(r, j) = LinksOn(d, j)
  BY <1>5 DEF Neighs, Links, LinksOn
<1>7. Pointers(r)
  BY <1>1, <1>2, <1>5, <1>6 DEF Structure, Pointers
<1>8. OwnOriginators(r)
  BY <1>5, <1>6 DEF Structure, OwnOriginators
<1>9. \A b \in Addrs : /\ r.na[b].neigh = IF b = a THEN n ELSE d.na[b].neigh
                       /\ r.na[b].lost = IF b = a THEN Off ELSE d.na[b].lost
  BY <1>1, <1>2, <1>5
<1> QED
  BY <1>4, <1>5, <1>7, <1>8, <1>9 DEF Structure, r, new

(* The _process_count of one link, and of one neighbor.                    *)
LEMMA LinkCountDown ==
    ASSUME NEW d \in DbType, NEW l \in LinkSlots
    PROVE  LET r == [d EXCEPT !.ln[l].process_count = @ - 1]
           IN  /\ r \in DbType /\ Shape(d, r) /\ r.nb = d.nb /\ r.na = d.na
               /\ \A k \in LinkSlots :
                    /\ SameTimes(d, r, k)
                    /\ r.ln[k].status = d.ln[k].status
                    /\ r.ln[k].process_count =
                         d.ln[k].process_count - (IF k = l THEN 1 ELSE 0)
<1> DEFINE lnk == [d.ln[l] EXCEPT !.process_count = @ - 1]
           r == [d EXCEPT !.ln[l].process_count = @ - 1]
<1>1. d.ln[l] \in LinkType
  BY DbFields
<1>2. /\ lnk \in LinkType
      /\ lnk.used = d.ln[l].used /\ lnk.neigh = d.ln[l].neigh /\ lnk.if = d.ln[l].if
      /\ lnk.sym_time = d.ln[l].sym_time /\ lnk.heard_time = d.ln[l].heard_time
      /\ lnk.vtime = d.ln[l].vtime /\ lnk.status = d.ln[l].status
      /\ lnk.process_count = d.ln[l].process_count - 1
  BY <1>1 DEF LinkType
<1>3. r = [d EXCEPT !.ln[l] = lnk]
  BY DEF DbType
<1> HIDE DEF lnk, r
<1>4. r \in DbType
  BY <1>2, <1>3, LinkUpdate
<1>5. r.nb = d.nb /\ r.na = d.na /\ r.la = d.la /\ r.ln = [d.ln EXCEPT ![l] = lnk]
  BY <1>3 DEF DbType
<1>6. \A k \in LinkSlots : r.ln[k] = IF k = l THEN lnk ELSE d.ln[k]
  BY <1>5, DbFields
<1>7. \A k \in LinkSlots : d.ln[k].process_count \in Int
  BY DbFields DEF LinkType
<1>8. Shape(d, r)
  BY <1>2, <1>5, <1>6 DEF Shape
<1>9. \A k \in LinkSlots : /\ SameTimes(d, r, k)
                           /\ r.ln[k].status = d.ln[k].status
                           /\ r.ln[k].process_count =
                                d.ln[k].process_count - (IF k = l THEN 1 ELSE 0)
  BY <1>2, <1>6, <1>7 DEF SameTimes
<1> QED
  BY <1>4, <1>5, <1>8, <1>9 DEF r

(* The same of one neighbor.                                               *)
LEMMA NeighCountDown ==
    ASSUME NEW d \in DbType, NEW n \in NeighSlots
    PROVE  LET r == [d EXCEPT !.nb[n].process_count = @ - 1]
           IN  /\ r \in DbType /\ Shape(d, r) /\ r.ln = d.ln /\ r.na = d.na
               /\ \A p \in NeighSlots :
                    /\ r.nb[p].symmetric = d.nb[p].symmetric
                    /\ r.nb[p].process_count =
                         d.nb[p].process_count - (IF p = n THEN 1 ELSE 0)
<1> DEFINE nei == [d.nb[n] EXCEPT !.process_count = @ - 1]
           r == [d EXCEPT !.nb[n].process_count = @ - 1]
<1>1. d.nb[n] \in NeighType
  BY DbFields
<1>2. /\ nei \in NeighType
      /\ nei.used = d.nb[n].used /\ nei.originator = d.nb[n].originator
      /\ nei.symmetric = d.nb[n].symmetric
      /\ nei.process_count = d.nb[n].process_count - 1
  BY <1>1 DEF NeighType
<1>3. r = [d EXCEPT !.nb[n] = nei]
  BY DEF DbType
<1> HIDE DEF nei, r
<1>4. r \in DbType
  BY <1>2, <1>3, NeighUpdate
<1>5. r.ln = d.ln /\ r.na = d.na /\ r.la = d.la /\ r.nb = [d.nb EXCEPT ![n] = nei]
  BY <1>3 DEF DbType
<1>6. \A p \in NeighSlots : r.nb[p] = IF p = n THEN nei ELSE d.nb[p]
  BY <1>5, DbFields
<1>7. \A p \in NeighSlots : d.nb[p].process_count \in Int
  BY DbFields DEF NeighType
<1>8. Shape(d, r)
  BY <1>2, <1>5, <1>6 DEF Shape
<1>9. \A p \in NeighSlots : /\ r.nb[p].symmetric = d.nb[p].symmetric
                            /\ r.nb[p].process_count =
                                 d.nb[p].process_count - (IF p = n THEN 1 ELSE 0)
  BY <1>2, <1>6, <1>7
<1> QED
  BY <1>4, <1>5, <1>8, <1>9 DEF r

(* What Working says of the database of a context.                         *)
WorkingDb(d, n, l, i) ==
    Structure(d) /\ n \in Neighs(d) /\ l \in LinksOn(d, i) /\ LinksFineBut(d, l)

(* It survives what keeps the shape, the timers and the status.            *)
LEMMA SameWorkingDb ==
    ASSUME NEW d, NEW n, NEW l, NEW i, WorkingDb(d, n, l, i), NEW r,
           r \in DbType, Shape(d, r),
           \A k \in LinkSlots : SameTimes(d, r, k) /\ r.ln[k].status = d.ln[k].status
    PROVE  WorkingDb(r, n, l, i)
<1>1. Structure(r) /\ Links(r) = Links(d) /\ Neighs(r) = Neighs(d)
      /\ LinksOn(r, i) = LinksOn(d, i)
  BY ShapeStructure, ShapeSets DEF WorkingDb
<1>2. LinksFineBut(r, l)
  BY <1>1, SameLinkFine DEF WorkingDb, LinksFineBut, Links
<1> QED
  BY <1>1, <1>2 DEF WorkingDb

(* And the removal of another link or neighbor.                            *)
LEMMA RemoveWorkingDb ==
    ASSUME NEW d, NEW n, NEW l, NEW i, WorkingDb(d, n, l, i)
    PROVE  /\ \A k : k /= l => WorkingDb(LinksRemove(d, {k}), n, l, i)
           /\ \A p \in NeighSlots : p /= n /\ l \notin LinksOf(d, p)
                => WorkingDb(NeighborRemove(d, p), n, l, i)
<1>0. d \in DbType /\ l \in LinkSlots
  BY DEF WorkingDb, Structure, LinksOn, Links
<1>1. ASSUME NEW k, k /= l
      PROVE  WorkingDb(LinksRemove(d, {k}), n, l, i)
  <2> DEFINE r == LinksRemove(d, {k})
  <2>1. Structure(r) /\ Neighs(r) = Neighs(d) /\ Links(r) = Links(d) \ {k}
    BY LinksRemoveStructure DEF WorkingDb
  <2>2. LinksFineBut(r, l)
    BY LinksRemoveFine DEF WorkingDb
  <2>3. r.ln[l] = d.ln[l]
    BY <1>0, <1>1, LinksRemoveValue
  <2> QED
    BY <1>1, <2>1, <2>2, <2>3 DEF WorkingDb, LinksOn
<1>2. ASSUME NEW p \in NeighSlots, p /= n, l \notin LinksOf(d, p)
      PROVE  WorkingDb(NeighborRemove(d, p), n, l, i)
  <2> DEFINE r == NeighborRemove(d, p)
  <2>1. Structure(r) /\ Neighs(r) = Neighs(d) \ {p} /\ Links(r) = Links(d) \ LinksOf(d, p)
    BY NeighborRemoveStructure DEF WorkingDb
  <2>2. LinksFineBut(r, l)
    BY NeighborRemoveFine DEF WorkingDb
  <2>3. \A k \in LinkSlots : r.ln[k] = IF k \in LinksOf(d, p) THEN FreeLink ELSE d.ln[k]
    BY <1>0, NeighborRemoveValue
  <2> HIDE DEF r
  <2>4. r.ln[l] = d.ln[l]
    BY <1>0, <1>2, <2>3
  <2>5. WorkingDb(r, n, l, i)
    BY <1>2, <2>1, <2>2, <2>4 DEF WorkingDb, LinksOn
  <2> QED
    BY <2>5 DEF r
<1> QED
  BY <1>1, <1>2

(* _pass2_process_localif, first half.                                     *)
LEMMA ProcessLinkAddrWorking ==
    ASSUME NEW c, NEW m \in HelloMessage, Working(c, m), ~c.bad, NEW a \in Addrs
    PROVE  LET r == ProcessLinkAddr(c, m.if, a)
           IN  Working(r, m) /\ ~r.bad /\ r.neigh = c.neigh /\ r.link = c.link
<1> DEFINE i == m.if
           l == c.db.la[i][a]
           moved == [c.db EXCEPT !.la[i][a] = c.link]
           counted == [moved EXCEPT !.ln[l].process_count = @ - 1]
           done == counted.ln[l].process_count = 0
           d == IF l /= c.link /\ done THEN LinksRemove(counted, {l}) ELSE counted
           r == ProcessLinkAddr(c, i, a)
<1>0. c \in CtxType /\ WorkingDb(c.db, c.neigh, c.link, i) /\ i \in Ifs
  BY DEF Working, WorkingDb, HelloMessage
<1>1. Structure(moved) /\ moved.nb = c.db.nb /\ moved.ln = c.db.ln
  BY <1>0, LinkAddrMove DEF WorkingDb
<1>2. r = IF l = NoSlot THEN [c EXCEPT !.db = moved]
          ELSE [c EXCEPT !.markL = c.markL \ {a}, !.db = d]
  BY <1>0 DEF ProcessLinkAddr, CtxType
<1>3. l \in LinkSlots \cup {NoSlot}
  BY <1>0, DbFields DEF WorkingDb, Structure
<1> HIDE DEF moved, r, l, i
<1>4. WorkingDb(moved, c.neigh, c.link, i)
  BY <1>0, <1>1 DEF WorkingDb, Neighs, Links, LinksOn, LinksFineBut
<1>5. CASE l = NoSlot
  <2>1. /\ r \in CtxType /\ r.db = moved /\ r.bad = c.bad /\ r.neigh = c.neigh
        /\ r.link = c.link
    BY <1>0, <1>1, <1>2, <1>5 DEF CtxType, Structure
  <2> QED
    BY <1>4, <2>1 DEF Working, WorkingDb, r, i
<1>6. CASE l /= NoSlot
  <2>1. l \in LinkSlots /\ moved \in DbType
    BY <1>1, <1>3, <1>6 DEF Structure
  <2>2. /\ counted \in DbType /\ Shape(moved, counted)
        /\ \A k \in LinkSlots : SameTimes(moved, counted, k)
                                /\ counted.ln[k].status = moved.ln[k].status
    BY <2>1, LinkCountDown
  <2> HIDE DEF counted, done
  <2>3. WorkingDb(counted, c.neigh, c.link, i)
    BY <1>4, <2>2, SameWorkingDb
  <2>4. WorkingDb(d, c.neigh, c.link, i)
    BY <2>3, RemoveWorkingDb
  <2> HIDE DEF d
  <2>5. /\ r \in CtxType /\ r.db = d /\ r.bad = c.bad /\ r.neigh = c.neigh
        /\ r.link = c.link
    BY <1>0, <1>2, <1>6, <2>4 DEF CtxType, WorkingDb, Structure
  <2> QED
    BY <2>4, <2>5 DEF Working, WorkingDb, r, i
<1> QED
  BY <1>5, <1>6

(* And the second half.                                                    *)
LEMMA ProcessNeighAddrWorking ==
    ASSUME NEW c, NEW m \in HelloMessage, Working(c, m), ~c.bad, NEW a \in Addrs
    PROVE  LET r == ProcessNeighAddr(c, a)
           IN  Working(r, m) /\ r.neigh = c.neigh /\ r.link = c.link
<1> DEFINE i == m.if
           n == c.db.na[a].neigh
           moved == [c.db EXCEPT !.na[a] = [neigh |-> c.neigh, lost |-> Off]]
           counted == [moved EXCEPT !.nb[n].process_count = @ - 1]
           freed == n /= c.neigh /\ counted.nb[n].process_count = 0
           d == IF freed THEN NeighborRemove(counted, n) ELSE counted
           bad == c.bad \/ (freed /\ c.link \in LinksOf(counted, n))
           r == ProcessNeighAddr(c, a)
<1>0. c \in CtxType /\ WorkingDb(c.db, c.neigh, c.link, i) /\ i \in Ifs
  BY DEF Working, WorkingDb, HelloMessage
<1>1. Structure(moved) /\ moved.nb = c.db.nb /\ moved.ln = c.db.ln
  BY <1>0, NaddrMove DEF WorkingDb
<1>2. r = IF n = NoSlot THEN [c EXCEPT !.db = moved]
          ELSE [c EXCEPT !.markN = c.markN \ {a}, !.db = d, !.bad = bad]
  BY <1>0 DEF ProcessNeighAddr, CtxType
<1>3. n \in NeighSlots \cup {NoSlot}
  <2>1. c.db.na[a] \in NaddrType
    BY <1>0, DbFields DEF WorkingDb, Structure
  <2> QED
    BY <2>1 DEF NaddrType
<1> HIDE DEF moved, r, n, i
<1>4. WorkingDb(moved, c.neigh, c.link, i)
  BY <1>0, <1>1 DEF WorkingDb, Neighs, Links, LinksOn, LinksFineBut
<1>5. CASE n = NoSlot
  <2>1. /\ r \in CtxType /\ r.db = moved /\ r.bad = c.bad /\ r.neigh = c.neigh
        /\ r.link = c.link
    BY <1>0, <1>1, <1>2, <1>5 DEF CtxType, Structure
  <2> QED
    BY <1>4, <2>1 DEF Working, WorkingDb, r, i
<1>6. CASE n /= NoSlot
  <2>1. n \in NeighSlots /\ moved \in DbType
    BY <1>1, <1>3, <1>6 DEF Structure
  <2>2. /\ counted \in DbType /\ Shape(moved, counted) /\ counted.ln = moved.ln
    BY <2>1, NeighCountDown
  <2> HIDE DEF counted
  <2>3. WorkingDb(counted, c.neigh, c.link, i)
    BY <1>4, <2>2, SameWorkingDb DEF SameTimes
  <2>4. d \in DbType /\ (~bad => WorkingDb(d, c.neigh, c.link, i))
    <3>1. CASE freed
      <4>1. Structure(NeighborRemove(counted, n))
        BY <2>1, <2>3, NeighborRemoveStructure DEF WorkingDb
      <4>2. n /= c.neigh /\ d = NeighborRemove(counted, n)
        BY <3>1
      <4>3. ~bad => c.link \notin LinksOf(counted, n)
        BY <3>1
      <4>4. ~bad => WorkingDb(d, c.neigh, c.link, i)
        BY <2>1, <2>3, <4>2, <4>3, RemoveWorkingDb
      <4> QED
        BY <4>1, <4>2, <4>4 DEF Structure
    <3>2. CASE ~freed
      BY <2>2, <2>3, <3>2
    <3> QED
      BY <3>1, <3>2
  <2>5. bad \in BOOLEAN
    BY <1>0 DEF CtxType
  <2> HIDE DEF d, bad
  <2>6. /\ r \in CtxType /\ r.db = d /\ r.bad = bad /\ r.neigh = c.neigh
        /\ r.link = c.link
    BY <1>0, <1>2, <1>6, <2>4, <2>5 DEF CtxType
  <2> QED
    BY <2>4, <2>6 DEF Working, WorkingDb, r, i
<1> QED
  BY <1>5, <1>6

(* Both halves.                                                            *)
LEMMA ProcessLocalIfWorking ==
    ASSUME NEW c, NEW m \in HelloMessage, Working(c, m), NEW a \in Addrs, NEW kind
    PROVE  LET r == ProcessLocalIf(c, m, a, kind)
           IN  Working(r, m) /\ r.neigh = c.neigh /\ r.link = c.link
<1>1. CASE c.bad
  BY <1>1 DEF ProcessLocalIf
<1>2. CASE ~c.bad
  <2> DEFINE e == IF kind = "THIS" THEN ProcessLinkAddr(c, m.if, a) ELSE c
  <2>1. Working(e, m) /\ ~e.bad /\ e.neigh = c.neigh /\ e.link = c.link
    BY <1>2, ProcessLinkAddrWorking
  <2>2. ProcessLocalIf(c, m, a, kind) = ProcessNeighAddr(e, a)
    BY <1>2 DEF ProcessLocalIf
  <2> HIDE DEF e
  <2> QED
    BY <2>1, <2>2, ProcessNeighAddrWorking
<1> QED
  BY <1>1, <1>2

(* A loop of the code is a function of the number of its steps; it exists  *)
(* for every number of them.                                               *)
Loop(f, b, N, step) == \A k \in 0 .. N : f[k] = IF k = 0 THEN b ELSE step[k][f[k - 1]]

(* Every loop has a function of its rounds, whatever its body does.        *)
LEMMA LoopRuns ==
    ASSUME NEW S, NEW b \in S, NEW N \in Nat, NEW step \in [Nat -> [S -> S]]
    PROVE  \E f \in [0 .. N -> S] : Loop(f, b, N, step)
<1> DEFINE P == {n \in Nat : \E f \in [0 .. n -> S] :
                   \A k \in 0 .. n : f[k] = IF k = 0 THEN b ELSE step[k][f[k - 1]]}
<1>1. 0 \in P
  <2> DEFINE f == [k \in 0 .. 0 |-> b]
  <2>1. /\ f \in [0 .. 0 -> S]
        /\ \A k \in 0 .. 0 : f[k] = IF k = 0 THEN b ELSE step[k][f[k - 1]]
    OBVIOUS
  <2> QED
    BY <2>1
<1>2. ASSUME NEW n \in Nat, n \in P
      PROVE  n + 1 \in P
  <2>1. PICK f \in [0 .. n -> S] :
          \A k \in 0 .. n : f[k] = IF k = 0 THEN b ELSE step[k][f[k - 1]]
    BY <1>2
  <2> DEFINE g == [k \in 0 .. n + 1 |-> IF k <= n THEN f[k] ELSE step[n + 1][f[n]]]
  <2>2. f[n] \in S
    OBVIOUS
  <2>3. g \in [0 .. n + 1 -> S]
    BY <2>2
  <2>4. ASSUME NEW k \in 0 .. n + 1
        PROVE  g[k] = IF k = 0 THEN b ELSE step[k][g[k - 1]]
    <3>1. CASE k <= n
      BY <2>1, <3>1
    <3>2. CASE k = n + 1
      BY <2>1, <3>2
    <3> QED
      BY <3>1, <3>2
  <2> HIDE DEF g
  <2>5. \A k \in 0 .. n + 1 : g[k] = IF k = 0 THEN b ELSE step[k][g[k - 1]]
    BY <2>4
  <2> QED
    BY <2>3, <2>5
<1>3. N \in P
  <2> HIDE DEF P
  <2> QED
    BY <1>1, <1>2, Induction
<1> QED
  BY <1>3 DEF Loop

(* What every step of a loop preserves holds all along.                    *)
LEMMA LoopInvariant ==
    ASSUME NEW S, NEW N \in Nat, NEW f, f[0] \in S,
           \A k \in 1 .. N : f[k - 1] \in S => f[k] \in S
    PROVE  \A k \in 0 .. N : f[k] \in S
<1> DEFINE P == {n \in Nat : n <= N => f[n] \in S}
<1>1. 0 \in P
  OBVIOUS
<1>2. ASSUME NEW n \in Nat, n \in P
      PROVE  n + 1 \in P
  <2> SUFFICES ASSUME n + 1 <= N
               PROVE  f[n + 1] \in S
    OBVIOUS
  <2>1. f[n] \in S /\ n + 1 \in 1 .. N /\ (n + 1) - 1 = n
    BY <1>2
  <2> QED
    BY <2>1
<1>3. Nat \subseteq P
  <2> HIDE DEF P
  <2> QED
    BY <1>1, <1>2, Induction
<1> QED
  BY <1>3

(* _cb_addr_pass2_block for the first N LOCAL_IF addresses: the context    *)
(* after each round.                                                       *)
Rounds(h, c, m, N) ==
    /\ h[0] = c
    /\ \A k \in 0 .. N : Working(h[k], m) /\ h[k].neigh = c.neigh /\ h[k].link = c.link
    /\ \A k \in 1 .. N :
         h[k] = ProcessLocalIf(h[k - 1], m, m.locals[k][1], m.locals[k][2])

(* The loop has its rounds.                                                *)
LEMMA Pass2UntilRuns ==
    ASSUME NEW c, NEW m \in HelloMessage, Working(c, m), NEW N \in 0 .. Len(m.locals)
    PROVE  \E h : Rounds(h, c, m, N) /\ h[N] = Pass2Until(c, m, N)
<1> DEFINE G(x, k) == ProcessLocalIf(x, m, m.locals[k][1], m.locals[k][2])
           S == {x \in CtxType : Working(x, m) /\ x.neigh = c.neigh /\ x.link = c.link}
           step == [k \in Nat |-> [x \in S |-> IF k \in 1 .. N THEN G(x, k) ELSE x]]
           h == CHOOSE f : f = [k \in 0 .. N |-> IF k = 0 THEN c ELSE G(f[k - 1], k)]
<1>1. N \in Nat /\ \A k \in 1 .. N : m.locals[k][1] \in Addrs
  BY DEF HelloMessage
<1>2. c \in S
  BY DEF Working
<1>3. ASSUME NEW x \in S, NEW k \in 1 .. N
      PROVE  G(x, k) \in S
  <2>1. m.locals[k][1] \in Addrs
    BY <1>1
  <2>2. Working(G(x, k), m) /\ G(x, k).neigh = x.neigh /\ G(x, k).link = x.link
    BY <2>1, ProcessLocalIfWorking
  <2> QED
    BY <2>2 DEF Working
<1>4. Pass2Until(c, m, N) = h[N]
  BY DEF Pass2Until
<1> HIDE DEF G, S
<1>5. step \in [Nat -> [S -> S]]
  BY <1>3
<1>6. PICK f \in [0 .. N -> S] : Loop(f, c, N, step)
  <2> HIDE DEF step
  <2> QED
    BY <1>1, <1>2, <1>5, LoopRuns
<1>7. \A k \in 0 .. N : f[k] = IF k = 0 THEN c ELSE G(f[k - 1], k)
  <2>1. ASSUME NEW k \in 0 .. N, k /= 0
        PROVE  step[k][f[k - 1]] = G(f[k - 1], k)
    <3>1. f[k - 1] \in S /\ k \in 1 .. N
      BY <1>1, <1>6, <2>1
    <3> QED
      BY <3>1
  <2> QED
    BY <1>6, <2>1 DEF Loop
<1>8. f = [k \in 0 .. N |-> IF k = 0 THEN c ELSE G(f[k - 1], k)]
  BY <1>7
<1>9. h = [k \in 0 .. N |-> IF k = 0 THEN c ELSE G(h[k - 1], k)]
  BY <1>8
<1> HIDE DEF h
<1>10. h[0] = c /\ \A k \in 1 .. N : h[k] = G(h[k - 1], k)
  BY <1>1, <1>9
<1>11. \A k \in 0 .. N : h[k] \in S
  BY <1>1, <1>2, <1>3, <1>10, LoopInvariant
<1>12. \A k \in 0 .. N : Working(h[k], m) /\ h[k].neigh = c.neigh /\ h[k].link = c.link
  BY <1>11 DEF S
<1>13. \A k \in 1 .. N :
         h[k] = ProcessLocalIf(h[k - 1], m, m.locals[k][1], m.locals[k][2])
  BY <1>10 DEF G
<1> QED
  BY <1>4, <1>10, <1>12, <1>13 DEF Rounds

(* The whole loop, round by round.                                         *)
LEMMA Pass2LocalsRuns ==
    ASSUME NEW c, NEW m \in HelloMessage, Working(c, m)
    PROVE  \E h : /\ h[0] = c /\ h[Len(m.locals)] = Pass2Locals(c, m)
                  /\ \A k \in 0 .. Len(m.locals) :
                       Working(h[k], m) /\ h[k].neigh = c.neigh /\ h[k].link = c.link
                  /\ \A k \in 1 .. Len(m.locals) :
                       h[k] = ProcessLocalIf(h[k - 1], m, m.locals[k][1], m.locals[k][2])
<1> DEFINE N == Len(m.locals)
<1>1. N \in 0 .. Len(m.locals) /\ Pass2Locals(c, m) = Pass2Until(c, m, N)
  BY DEF HelloMessage, Pass2Locals
<1>2. PICK h : Rounds(h, c, m, N) /\ h[N] = Pass2Until(c, m, N)
  <2> HIDE DEF N
  <2> QED
    BY <1>1, Pass2UntilRuns
<1> QED
  BY <1>1, <1>2 DEF Rounds

(* After any number of the addresses.                                      *)
LEMMA Pass2UntilWorking ==
    ASSUME NEW c, NEW m \in HelloMessage, Working(c, m), NEW N \in 0 .. Len(m.locals)
    PROVE  LET r == Pass2Until(c, m, N)
           IN  Working(r, m) /\ r.neigh = c.neigh /\ r.link = c.link
<1>1. PICK h : Rounds(h, c, m, N) /\ h[N] = Pass2Until(c, m, N)
  BY Pass2UntilRuns
<1>2. N \in 0 .. N
  BY DEF HelloMessage
<1> QED
  BY <1>1, <1>2 DEF Rounds

(* _cb_addr_pass2_block for the LOCAL_IF addresses of the HELLO.           *)
LEMMA Pass2LocalsWorking ==
    ASSUME NEW c, NEW m \in HelloMessage, Working(c, m)
    PROVE  LET r == Pass2Locals(c, m)
           IN  Working(r, m) /\ r.neigh = c.neigh /\ r.link = c.link
<1> DEFINE N == Len(m.locals)
<1>1. N \in 0 .. N
  BY DEF HelloMessage
<1>2. PICK h : /\ h[N] = Pass2Locals(c, m)
               /\ \A k \in 0 .. N :
                    Working(h[k], m) /\ h[k].neigh = c.neigh /\ h[k].link = c.link
  BY Pass2LocalsRuns
<1> HIDE DEF N
<1> QED
  BY <1>1, <1>2

(* A HELLO without THIS_IF address.                                        *)
LEMMA DefaultThisIfWorking ==
    ASSUME NEW c, NEW m \in HelloMessage, Working(c, m)
    PROVE  LET r == DefaultThisIf(c, m)
           IN  Working(r, m) /\ r.neigh = c.neigh /\ r.link = c.link
<1>1. m.src \in Addrs
  BY DEF HelloMessage
<1> QED
  BY <1>1, ProcessLocalIfWorking DEF DefaultThisIf

(* One link written, with the same ends.                                   *)
LEMMA LinkWrite ==
    ASSUME NEW d \in DbType, NEW l \in LinkSlots, NEW lnk \in LinkType,
           lnk.used = d.ln[l].used, lnk.neigh = d.ln[l].neigh, lnk.if = d.ln[l].if
    PROVE  LET r == [d EXCEPT !.ln[l] = lnk]
           IN  /\ r \in DbType /\ Shape(d, r)
               /\ r.nb = d.nb /\ r.na = d.na /\ r.la = d.la
               /\ r.ln[l] = lnk
               /\ \A k \in LinkSlots \ {l} : r.ln[k] = d.ln[k]
<1> DEFINE r == [d EXCEPT !.ln[l] = lnk]
<1>1. r \in DbType
  BY LinkUpdate
<1>2. r.nb = d.nb /\ r.na = d.na /\ r.la = d.la /\ r.ln = [d.ln EXCEPT ![l] = lnk]
  BY DEF DbType
<1> HIDE DEF r
<1>3. r.ln[l] = lnk /\ \A k \in LinkSlots \ {l} : r.ln[k] = d.ln[k]
  BY <1>2, DbFields
<1>4. Shape(d, r)
  BY <1>2, <1>3 DEF Shape
<1> QED
  BY <1>1, <1>2, <1>3, <1>4 DEF r

(* The two-hop addresses of a link are no business of the invariant.       *)
LEMMA TwoHopUpdate ==
    ASSUME NEW d \in DbType, NEW l \in LinkSlots, NEW th \in [Addrs -> Timers]
    PROVE  LET r == [d EXCEPT !.ln[l].twohop = th]
           IN  /\ r \in DbType /\ Shape(d, r)
               /\ r.nb = d.nb /\ r.na = d.na /\ r.la = d.la
               /\ \A k \in LinkSlots :
                    /\ SameTimes(d, r, k)
                    /\ r.ln[k].status = d.ln[k].status
                    /\ r.ln[k].process_count = d.ln[k].process_count
<1> DEFINE lnk == [d.ln[l] EXCEPT !.twohop = th]
           r == [d EXCEPT !.ln[l].twohop = th]
<1>1. d.ln[l] \in LinkType
  BY DbFields
<1>2. /\ lnk \in LinkType
      /\ lnk.used = d.ln[l].used /\ lnk.neigh = d.ln[l].neigh /\ lnk.if = d.ln[l].if
      /\ lnk.sym_time = d.ln[l].sym_time /\ lnk.heard_time = d.ln[l].heard_time
      /\ lnk.vtime = d.ln[l].vtime /\ lnk.status = d.ln[l].status
      /\ lnk.process_count = d.ln[l].process_count
  BY <1>1 DEF LinkType
<1>3. r = [d EXCEPT !.ln[l] = lnk]
  BY DEF DbType
<1> HIDE DEF lnk, r
<1>4. /\ r \in DbType /\ Shape(d, r)
      /\ r.nb = d.nb /\ r.na = d.na /\ r.la = d.la
      /\ r.ln[l] = lnk
      /\ \A k \in LinkSlots \ {l} : r.ln[k] = d.ln[k]
  BY <1>2, <1>3, LinkWrite
<1>5. ASSUME NEW k \in LinkSlots
      PROVE  /\ SameTimes(d, r, k)
             /\ r.ln[k].status = d.ln[k].status
             /\ r.ln[k].process_count = d.ln[k].process_count
  BY <1>2, <1>4 DEF SameTimes
<1> QED
  BY <1>4, <1>5 DEF r

(* The link addresses that are dropped.                                    *)
LEMMA LinkAddrsDrop ==
    ASSUME NEW d, Structure(d), NEW i \in Ifs, NEW as,
           NEW la, la = [a \in Addrs |-> IF a \in as THEN NoSlot ELSE d.la[i][a]]
    PROVE  LET r == [d EXCEPT !.la[i] = la]
           IN  /\ Structure(r) /\ r.nb = d.nb /\ r.ln = d.ln /\ r.na = d.na
               /\ \A a \in Addrs : r.la[i][a] = IF a \in as THEN NoSlot ELSE d.la[i][a]
<1> DEFINE all == [d.la EXCEPT ![i] = la]
           r == [d EXCEPT !.la[i] = la]
<1>0. d \in DbType
  BY DEF Structure
<1>1. all \in [Ifs -> [Addrs -> LinkSlots \cup {NoSlot}]]
  <2>1. d.la \in [Ifs -> [Addrs -> LinkSlots \cup {NoSlot}]]
    BY <1>0, DbFields
  <2>2. la \in [Addrs -> LinkSlots \cup {NoSlot}]
    BY <2>1
  <2> QED
    BY <2>1, <2>2
<1>2. \A j \in Ifs, b \in Addrs :
        all[j][b] = IF j = i /\ b \in as THEN NoSlot ELSE d.la[j][b]
  BY <1>0, DbFields
<1>3. r = [d EXCEPT !.la = all]
  BY <1>0 DEF DbType
<1> HIDE DEF all, r
<1>4. r \in DbType
  BY <1>0, <1>1, <1>3, DbUpdates
<1>5. r.nb = d.nb /\ r.ln = d.ln /\ r.na = d.na /\ r.la = all
  BY <1>0, <1>3 DEF DbType
<1>6. Neighs(r) = Neighs(d) /\ Links(r) = Links(d) /\ \A j : LinksOn(r, j) = LinksOn(d, j)
  BY <1>5 DEF Neighs, Links, LinksOn
<1>7. Pointers(r)
  BY <1>2, <1>5, <1>6 DEF Structure, Pointers
<1>8. OwnOriginators(r)
  BY <1>5, <1>6 DEF Structure, OwnOriginators
<1>9. \A a \in Addrs : r.la[i][a] = IF a \in as THEN NoSlot ELSE d.la[i][a]
  BY <1>2, <1>5
<1> QED
  BY <1>4, <1>5, <1>7, <1>8, <1>9 DEF Structure, r

(* The two-hop addresses of the HELLO.                                     *)
LEMMA Pass2TwoHopWorking ==
    ASSUME NEW c, NEW m \in HelloMessage, Working(c, m)
    PROVE  LET r == Pass2TwoHop(c, m)
           IN  Working(r, m) /\ r.neigh = c.neigh /\ r.link = c.link
<1>1. CASE c.bad
  BY <1>1 DEF Pass2TwoHop
<1>2. CASE ~c.bad
  <2> DEFINE th == [a \in Addrs |-> IF a \in m.sym2 THEN TimerSet(m.vtime)
                                    ELSE IF a \in m.gone2 THEN Absent
                                    ELSE c.db.ln[c.link].twohop[a]]
             e == [c.db EXCEPT !.ln[c.link].twohop = th]
             r == Pass2TwoHop(c, m)
  <2>1. c \in CtxType /\ WorkingDb(c.db, c.neigh, c.link, m.if)
    BY <1>2 DEF Working, WorkingDb
  <2>2. c.db \in DbType /\ c.link \in LinkSlots
    BY <2>1 DEF WorkingDb, Structure, LinksOn, Links
  <2>3. th \in [Addrs -> Timers]
    <3>1. c.db.ln[c.link].twohop \in [Addrs -> Timers]
      BY <2>2, DbFields DEF LinkType
    <3>2. TimerSet(m.vtime) \in Timers /\ Absent \in Timers
      BY DEF TimerSet, Absent, Off, HelloMessage, Timers
    <3> QED
      BY <3>1, <3>2
  <2>4. r = [c EXCEPT !.db = e]
    BY <1>2, <2>1, <2>2 DEF Pass2TwoHop, CtxType, DbType
  <2> HIDE DEF th
  <2>5. /\ e \in DbType /\ Shape(c.db, e)
        /\ \A k \in LinkSlots : SameTimes(c.db, e, k) /\ e.ln[k].status = c.db.ln[k].status
    BY <2>2, <2>3, TwoHopUpdate
  <2> HIDE DEF e, r
  <2>6. WorkingDb(e, c.neigh, c.link, m.if)
    BY <2>1, <2>5, SameWorkingDb
  <2>7. /\ r \in CtxType /\ r.db = e /\ r.bad = c.bad /\ r.neigh = c.neigh
        /\ r.link = c.link
    BY <2>1, <2>4, <2>5 DEF CtxType
  <2> QED
    BY <2>6, <2>7 DEF Working, WorkingDb, r
<1> QED
  BY <1>1, <1>2

(* _cb_msg_pass2_end: the addresses that were not in the HELLO.            *)
LEMMA DropLeftoversWorking ==
    ASSUME NEW c, NEW m \in HelloMessage, Working(c, m), ~c.bad
    PROVE  WorkingDb(DropLeftovers(c, m), c.neigh, c.link, m.if)
<1> DEFINE d == c.db
           l == c.link
           i == m.if
           la == [a \in Addrs |-> IF a \in c.markL THEN NoSlot ELSE d.la[i][a]]
           e == [d EXCEPT !.la[i] = la]
           th == [a \in Addrs |-> IF a \in c.markN THEN Absent ELSE e.ln[l].twohop[a]]
           f == [e EXCEPT !.ln[l].twohop = th]
           r == SetLost(f, c.markN)
<1>1. c \in CtxType /\ WorkingDb(d, c.neigh, l, i) /\ i \in Ifs
  BY DEF Working, WorkingDb, HelloMessage
<1>2. d \in DbType /\ l \in LinkSlots /\ Structure(d)
  BY <1>1 DEF WorkingDb, Structure, LinksOn, Links
<1>3. Structure(e) /\ e.nb = d.nb /\ e.ln = d.ln
  BY <1>1, <1>2, LinkAddrsDrop
<1>4. DropLeftovers(c, m) = r
  <2>1. th = [a \in Addrs |-> IF a \in c.markN THEN Absent ELSE d.ln[l].twohop[a]]
    BY <1>3
  <2>2. [d EXCEPT !.la[i] = [a \in Addrs |-> IF a \in c.markL THEN NoSlot ELSE @[a]],
                  !.ln[l].twohop = [a \in Addrs |-> IF a \in c.markN THEN Absent ELSE @[a]]]
        = [[d EXCEPT !.la[i] = la] EXCEPT !.ln[l].twohop =
              [a \in Addrs |-> IF a \in c.markN THEN Absent ELSE d.ln[l].twohop[a]]]
    BY <1>2, <1>1 DEF DbType
  <2> HIDE DEF th, la
  <2> QED
    BY <2>1, <2>2 DEF DropLeftovers
<1> HIDE DEF la, e
<1>5. WorkingDb(e, c.neigh, l, i)
  BY <1>1, <1>3 DEF WorkingDb, Neighs, Links, LinksOn, LinksFineBut
<1>6. th \in [Addrs -> Timers] /\ e \in DbType
  <2>1. e.ln[l].twohop \in [Addrs -> Timers] /\ Absent \in Timers
    BY <1>2, <1>3, DbFields DEF LinkType, Absent, Timers
  <2> QED
    BY <1>3, <2>1 DEF Structure
<1> HIDE DEF th, d, l, i
<1>7. /\ f \in DbType /\ Shape(e, f)
      /\ \A k \in LinkSlots : SameTimes(e, f, k) /\ f.ln[k].status = e.ln[k].status
  BY <1>2, <1>6, TwoHopUpdate
<1> HIDE DEF f
<1>8. WorkingDb(f, c.neigh, l, i)
  BY <1>5, <1>7, SameWorkingDb
<1>9. /\ r \in DbType /\ Shape(f, r) /\ r.ln = f.ln
  BY <1>7, SetLostValue DEF Shape
<1> HIDE DEF r
<1>10. WorkingDb(r, c.neigh, l, i)
  BY <1>8, <1>9, SameWorkingDb DEF SameTimes
<1> QED
  BY <1>4, <1>10 DEF l, i

(* Any change of the timers and the status of the link that is processed   *)
(* leaves the others alone.                                                *)
LEMMA OwnLinkWorking ==
    ASSUME NEW d, NEW n, NEW l, NEW i, WorkingDb(d, n, l, i), NEW r,
           r \in DbType, Shape(d, r), \A k \in LinkSlots \ {l} : r.ln[k] = d.ln[k]
    PROVE  WorkingDb(r, n, l, i)
<1>1. Structure(r) /\ Links(r) = Links(d) /\ Neighs(r) = Neighs(d)
      /\ LinksOn(r, i) = LinksOn(d, i)
  BY ShapeStructure, ShapeSets DEF WorkingDb
<1>2. LinksFineBut(r, l)
  BY <1>1 DEF WorkingDb, LinksFineBut, Links
<1> QED
  BY <1>1, <1>2 DEF WorkingDb

(* One timer of a link is set or stopped.                                  *)
LEMMA SymTimeWrite ==
    ASSUME NEW d \in DbType, NEW l \in LinkSlots, NEW t \in Timers
    PROVE  LET r == [d EXCEPT !.ln[l].sym_time = t]
           IN  /\ r \in DbType /\ Shape(d, r) /\ r.nb = d.nb /\ r.na = d.na
               /\ \A k \in LinkSlots \ {l} : r.ln[k] = d.ln[k]
               /\ r.ln[l].sym_time = t
               /\ r.ln[l].heard_time = d.ln[l].heard_time
               /\ r.ln[l].vtime = d.ln[l].vtime
               /\ r.ln[l].status = d.ln[l].status
               /\ r.ln[l].process_count = d.ln[l].process_count
<1> DEFINE lnk == [d.ln[l] EXCEPT !.sym_time = t]
           r == [d EXCEPT !.ln[l].sym_time = t]
<1>1. d.ln[l] \in LinkType
  BY DbFields
<1>2. /\ lnk \in LinkType
      /\ lnk.used = d.ln[l].used /\ lnk.neigh = d.ln[l].neigh /\ lnk.if = d.ln[l].if
      /\ lnk.sym_time = t
      /\ lnk.heard_time = d.ln[l].heard_time
      /\ lnk.vtime = d.ln[l].vtime
      /\ lnk.status = d.ln[l].status
      /\ lnk.process_count = d.ln[l].process_count
  BY <1>1 DEF LinkType
<1>3. r = [d EXCEPT !.ln[l] = lnk]
  BY DEF DbType
<1> HIDE DEF lnk, r
<1>4. /\ r \in DbType /\ Shape(d, r) /\ r.nb = d.nb /\ r.na = d.na
      /\ \A k \in LinkSlots \ {l} : r.ln[k] = d.ln[k]
      /\ r.ln[l] = lnk
  BY <1>2, <1>3, LinkWrite
<1> QED
  BY <1>2, <1>4 DEF r

(* The same for heard_time.                                                *)
LEMMA HeardTimeWrite ==
    ASSUME NEW d \in DbType, NEW l \in LinkSlots, NEW t \in Timers
    PROVE  LET r == [d EXCEPT !.ln[l].heard_time = t]
           IN  /\ r \in DbType /\ Shape(d, r) /\ r.nb = d.nb /\ r.na = d.na
               /\ \A k \in LinkSlots \ {l} : r.ln[k] = d.ln[k]
               /\ r.ln[l].sym_time = d.ln[l].sym_time
               /\ r.ln[l].heard_time = t
               /\ r.ln[l].vtime = d.ln[l].vtime
               /\ r.ln[l].status = d.ln[l].status
               /\ r.ln[l].process_count = d.ln[l].process_count
<1> DEFINE lnk == [d.ln[l] EXCEPT !.heard_time = t]
           r == [d EXCEPT !.ln[l].heard_time = t]
<1>1. d.ln[l] \in LinkType
  BY DbFields
<1>2. /\ lnk \in LinkType
      /\ lnk.used = d.ln[l].used /\ lnk.neigh = d.ln[l].neigh /\ lnk.if = d.ln[l].if
      /\ lnk.sym_time = d.ln[l].sym_time
      /\ lnk.heard_time = t
      /\ lnk.vtime = d.ln[l].vtime
      /\ lnk.status = d.ln[l].status
      /\ lnk.process_count = d.ln[l].process_count
  BY <1>1 DEF LinkType
<1>3. r = [d EXCEPT !.ln[l] = lnk]
  BY DEF DbType
<1> HIDE DEF lnk, r
<1>4. /\ r \in DbType /\ Shape(d, r) /\ r.nb = d.nb /\ r.na = d.na
      /\ \A k \in LinkSlots \ {l} : r.ln[k] = d.ln[k]
      /\ r.ln[l] = lnk
  BY <1>2, <1>3, LinkWrite
<1> QED
  BY <1>2, <1>4 DEF r

(* The same for vtime.                                                     *)
LEMMA VtimeWrite ==
    ASSUME NEW d \in DbType, NEW l \in LinkSlots, NEW t \in Timers
    PROVE  LET r == [d EXCEPT !.ln[l].vtime = t]
           IN  /\ r \in DbType /\ Shape(d, r) /\ r.nb = d.nb /\ r.na = d.na
               /\ \A k \in LinkSlots \ {l} : r.ln[k] = d.ln[k]
               /\ r.ln[l].sym_time = d.ln[l].sym_time
               /\ r.ln[l].heard_time = d.ln[l].heard_time
               /\ r.ln[l].vtime = t
               /\ r.ln[l].status = d.ln[l].status
               /\ r.ln[l].process_count = d.ln[l].process_count
<1> DEFINE lnk == [d.ln[l] EXCEPT !.vtime = t]
           r == [d EXCEPT !.ln[l].vtime = t]
<1>1. d.ln[l] \in LinkType
  BY DbFields
<1>2. /\ lnk \in LinkType
      /\ lnk.used = d.ln[l].used /\ lnk.neigh = d.ln[l].neigh /\ lnk.if = d.ln[l].if
      /\ lnk.sym_time = d.ln[l].sym_time
      /\ lnk.heard_time = d.ln[l].heard_time
      /\ lnk.vtime = t
      /\ lnk.status = d.ln[l].status
      /\ lnk.process_count = d.ln[l].process_count
  BY <1>1 DEF LinkType
<1>3. r = [d EXCEPT !.ln[l] = lnk]
  BY DEF DbType
<1> HIDE DEF lnk, r
<1>4. /\ r \in DbType /\ Shape(d, r) /\ r.nb = d.nb /\ r.na = d.na
      /\ \A k \in LinkSlots \ {l} : r.ln[k] = d.ln[k]
      /\ r.ln[l] = lnk
  BY <1>2, <1>3, LinkWrite
<1> QED
  BY <1>2, <1>4 DEF r

(* nhdp_db_link_update_status of the link that is processed.               *)
LEMMA UpdateStatusWorking ==
    ASSUME NEW d, NEW n, NEW l, NEW i, WorkingDb(d, n, l, i)
    PROVE  LET r == UpdateStatus(d, l)
           IN  /\ WorkingDb(r, n, l, i)
               /\ SameTimes(d, r, l)
               /\ r.ln[l].status = CalculateStatus(d.ln[l])
<1> DEFINE r == UpdateStatus(d, l)
<1>1. d \in DbType /\ l \in LinkSlots
  BY DEF WorkingDb, Structure, LinksOn, Links
<1>2. d.ln[l].neigh \in NeighSlots
  BY DEF WorkingDb, Structure, Pointers, LinksOn, Neighs
<1>3. /\ r \in DbType /\ r.la = d.la
      /\ \A p \in NeighSlots : SameNeigh(d, r, p)
      /\ \A k \in LinkSlots : SameEnds(d, r, k) /\ SameTimes(d, r, k)
      /\ \A k \in LinkSlots \ {l} : r.ln[k] = d.ln[k]
      /\ r.ln[l].status = CalculateStatus(d.ln[l])
      /\ \A a \in Addrs : r.na[a].neigh = d.na[a].neigh
  BY <1>1, <1>2, UpdateStatusValue
<1> HIDE DEF r
<1>4. Shape(d, r)
  BY <1>3 DEF Shape, SameNeigh, SameEnds
<1>5. WorkingDb(r, n, l, i)
  BY <1>3, <1>4, OwnLinkWorking
<1> QED
  BY <1>1, <1>3, <1>5 DEF r

(* sym_time (RFC 6130 section 12.5.4).                                     *)
LEMMA UpdateSymTimeWorking ==
    ASSUME NEW d, NEW n, NEW l, NEW m \in HelloMessage, WorkingDb(d, n, l, m.if)
    PROVE  WorkingDb(UpdateSymTime(d, l, m), n, l, m.if)
<1> DEFINE heard == [d EXCEPT !.ln[l].sym_time = TimerSet(m.vtime)]
           stopped == [d EXCEPT !.ln[l].sym_time = Off]
           held == [stopped EXCEPT !.ln[l].vtime = TimerSet(HoldTime)]
<1>1. d \in DbType /\ l \in LinkSlots
  BY DEF WorkingDb, Structure, LinksOn, Links
<1>2. TimerSet(m.vtime) \in Timers /\ TimerSet(HoldTime) \in Timers /\ Off \in Timers
  BY NhdpDbAssumption DEF TimerSet, Off, HelloMessage, Timers, Absent
<1>3. UpdateSymTime(d, l, m) \in {UpdateStatus(heard, l), stopped, held, d}
  BY DEF UpdateSymTime
<1>4. /\ stopped \in DbType /\ Shape(d, stopped)
      /\ \A k \in LinkSlots \ {l} : stopped.ln[k] = d.ln[k]
  BY <1>1, <1>2, SymTimeWrite
<1>5. /\ heard \in DbType /\ Shape(d, heard)
      /\ \A k \in LinkSlots \ {l} : heard.ln[k] = d.ln[k]
  BY <1>1, <1>2, SymTimeWrite
<1> HIDE DEF stopped, heard
<1>6. WorkingDb(stopped, n, l, m.if)
  BY <1>4, OwnLinkWorking
<1>7. WorkingDb(heard, n, l, m.if)
  BY <1>5, OwnLinkWorking
<1>8. WorkingDb(UpdateStatus(heard, l), n, l, m.if)
  BY <1>7, UpdateStatusWorking
<1>9. WorkingDb(held, n, l, m.if)
  <2>1. /\ held \in DbType /\ Shape(stopped, held)
        /\ \A k \in LinkSlots \ {l} : held.ln[k] = stopped.ln[k]
    BY <1>1, <1>2, <1>4, VtimeWrite
  <2> HIDE DEF held
  <2> QED
    BY <1>6, <2>1, OwnLinkWorking
<1> QED
  BY <1>3, <1>6, <1>8, <1>9

(* heard_time and vtime: whatever they and sym_time were, they are in      *)
(* order from here on, and vtime runs.                                     *)
LEMMA UpdateLinkTimesWorking ==
    ASSUME NEW d, NEW n, NEW l, NEW m \in HelloMessage, WorkingDb(d, n, l, m.if)
    PROVE  LET r == UpdateLinkTimes(d, l, m)
           IN  /\ WorkingDb(r, n, l, m.if)
               /\ Active(r.ln[l].vtime) /\ Ordered(r.ln[l])
<1> DEFINE lnk == d.ln[l]
           t == IF ~Active(lnk.sym_time) \/ lnk.sym_time < m.vtime THEN m.vtime
                ELSE lnk.sym_time
           keep == IF lnk.status = "PENDING" THEN t ELSE t + HoldTime
           v == IF ~Active(lnk.vtime) \/ keep > lnk.vtime THEN TimerSet(keep)
                ELSE lnk.vtime
           e == [d EXCEPT !.ln[l].heard_time = TimerSet(t)]
           r == [e EXCEPT !.ln[l].vtime = v]
<1>1. d \in DbType /\ l \in LinkSlots
  BY DEF WorkingDb, Structure, LinksOn, Links
<1>2. /\ lnk.sym_time \in Int /\ lnk.vtime \in Timers /\ lnk.status /= "PENDING"
      /\ m.vtime \in Nat /\ HoldTime \in Nat /\ HoldTime > 0
  <2>1. lnk \in LinkType
    BY <1>1, DbFields
  <2>2. /\ lnk.sym_time \in Int /\ lnk.vtime \in Timers /\ lnk.status \in LinkStatus
    BY <2>1 DEF LinkType, Timers
  <2> HIDE DEF lnk
  <2> QED
    BY <2>2, NhdpDbAssumption DEF LinkStatus, HelloMessage
<1>3. t \in Nat /\ (Active(lnk.sym_time) => t >= lnk.sym_time) /\ keep = t + HoldTime
  BY <1>2 DEF Active
<1> HIDE DEF lnk, t
<1>4. v \in Timers /\ v >= t + HoldTime
  BY <1>2, <1>3 DEF TimerSet, Off, Active, Timers, Absent
<1> HIDE DEF keep, v
<1>5. TimerSet(t) \in Timers
  BY <1>3 DEF TimerSet, Off, Timers, Absent
<1>6. /\ e \in DbType /\ Shape(d, e)
      /\ \A k \in LinkSlots \ {l} : e.ln[k] = d.ln[k]
      /\ e.ln[l].sym_time = d.ln[l].sym_time
      /\ e.ln[l].heard_time = TimerSet(t)
      /\ e.ln[l].vtime = d.ln[l].vtime
  BY <1>1, <1>5, HeardTimeWrite
<1>7. UpdateLinkTimes(d, l, m) = r
  <2>1. [d EXCEPT !.ln[l].heard_time = TimerSet(t),
                  !.ln[l].vtime = IF ~Active(@) \/ keep > @ THEN TimerSet(keep) ELSE @]
        = [e EXCEPT !.ln[l].vtime = IF ~Active(e.ln[l].vtime) \/ keep > e.ln[l].vtime
                                    THEN TimerSet(keep) ELSE e.ln[l].vtime]
    BY <1>1 DEF DbType
  <2>2. UpdateLinkTimes(d, l, m)
        = [d EXCEPT !.ln[l].heard_time = TimerSet(t),
                    !.ln[l].vtime = IF ~Active(@) \/ keep > @ THEN TimerSet(keep) ELSE @]
    BY DEF UpdateLinkTimes, keep, t, lnk
  <2> QED
    BY <1>6, <2>1, <2>2 DEF v, lnk
<1> HIDE DEF e
<1>8. /\ r \in DbType /\ Shape(e, r)
      /\ \A k \in LinkSlots \ {l} : r.ln[k] = e.ln[k]
      /\ r.ln[l].sym_time = e.ln[l].sym_time
      /\ r.ln[l].heard_time = e.ln[l].heard_time
      /\ r.ln[l].vtime = v
  BY <1>1, <1>4, <1>6, VtimeWrite
<1> HIDE DEF r
<1>9. WorkingDb(e, n, l, m.if)
  BY <1>6, OwnLinkWorking
<1>10. WorkingDb(r, n, l, m.if)
  BY <1>8, <1>9, OwnLinkWorking
<1>11. /\ r.ln[l].sym_time = lnk.sym_time /\ r.ln[l].heard_time = TimerSet(t)
       /\ r.ln[l].vtime = v
  BY <1>6, <1>8 DEF lnk
<1>12. Active(r.ln[l].vtime) /\ Ordered(r.ln[l])
  BY <1>2, <1>3, <1>4, <1>11 DEF Active, Ordered, TimerSet, Off, Timers, Absent
<1> QED
  BY <1>7, <1>10, <1>12

(* _cb_msg_pass2_end: the link that was processed is fine again.           *)
LEMMA Pass2EndInv ==
    ASSUME NEW c, NEW m \in HelloMessage, Working(c, m)
    PROVE  LET r == Pass2End(c, m)
           IN  /\ r \in CtxType
               /\ r.bad = c.bad /\ r.neigh = c.neigh /\ r.link = c.link
               /\ ~r.bad => DbInv(r.db)
<1>1. CASE c.bad
  BY <1>1 DEF Pass2End, Working
<1>2. CASE ~c.bad
  <2> DEFINE l == c.link
             n == c.neigh
             i == m.if
             d1 == DropLeftovers(c, m)
             d2 == UpdateSymTime(d1, l, m)
             d3 == UpdateLinkTimes(d2, l, m)
             d4 == SetOriginator(d3, n, m.orig)
             d5 == UpdateStatus(d4, l)
             r == Pass2End(c, m)
  <2>1. r = [c EXCEPT !.db = d5]
    BY <1>2 DEF Pass2End
  <2>2. WorkingDb(d1, n, l, i)
    BY <1>2, DropLeftoversWorking
  <2> HIDE DEF d1, r
  <2>3. WorkingDb(d2, n, l, i)
    BY <2>2, UpdateSymTimeWorking
  <2> HIDE DEF d2
  <2>4. WorkingDb(d3, n, l, i) /\ Active(d3.ln[l].vtime) /\ Ordered(d3.ln[l])
    BY <2>3, UpdateLinkTimesWorking
  <2> HIDE DEF d3
  <2>5. /\ Structure(d4) /\ Neighs(d4) = Neighs(d3)
        /\ d4.ln = d3.ln
    BY <2>4, SetOriginatorStructure DEF WorkingDb, HelloMessage
  <2> HIDE DEF d4
  <2>6. WorkingDb(d4, n, l, i)
    BY <2>4, <2>5 DEF WorkingDb, LinksOn, Links, LinksFineBut
  <2>7. /\ WorkingDb(d5, n, l, i) /\ SameTimes(d4, d5, l)
        /\ d5.ln[l].status = CalculateStatus(d4.ln[l])
    BY <2>6, UpdateStatusWorking
  <2> HIDE DEF d5
  <2>8. LinkFine(d5.ln[l])
    <3>1. Active(d5.ln[l].vtime) /\ Ordered(d5.ln[l])
      BY <2>4, <2>5, <2>7 DEF SameTimes, Ordered
    <3>2. Cached(d5.ln[l])
      BY <2>7 DEF SameTimes, Cached, CalculateStatus
    <3> QED
      BY <3>1, <3>2 DEF LinkFine
  <2>9. DbInv(d5)
    BY <2>7, <2>8 DEF DbInv, WorkingDb, LinksFineBut
  <2>10. r \in CtxType /\ r.db = d5 /\ r.bad = c.bad /\ r.neigh = c.neigh /\ r.link = c.link
    BY <2>1, <2>9 DEF Working, CtxType, DbInv, Structure
  <2> QED
    BY <2>9, <2>10 DEF r
<1> QED
  BY <1>1, <1>2

(* A HELLO up to the end of its pass 1.                                    *)
LEMMA AfterPass1Working ==
    ASSUME NEW d, DbInv(d), RoomForHello(d), NEW m \in HelloMessage
    PROVE  Working(AfterPass1(d, m), m)
<1> DEFINE c1 == Pass1(d, m)
           c2 == HandleOriginator(c1, m)
           c3 == TakeNeighbor(c2)
           c4 == TakeLink(c3, m)
<1>1. AfterPass1(d, m) = DefaultThisIf(c4, m)
  BY DEF AfterPass1
<1>2. Searching(c1, m) /\ Neighs(c1.db) = Neighs(d) /\ Links(c1.db) = Links(d)
  BY Pass1Searching
<1> HIDE DEF c1
<1>3. Searching(c2, m) /\ Neighs(c2.db) = Neighs(d) /\ Links(c2.db) = Links(d)
  BY <1>2, HandleOriginatorSearching
<1>4. FreeNeighSlots(c2.db) /= {}
  BY <1>3 DEF RoomForHello, FreeNeighSlots
<1> HIDE DEF c2
<1>5. Searching(c3, m) /\ c3.neigh \in Neighs(c3.db) /\ Links(c3.db) = Links(d)
  BY <1>3, <1>4, TakeNeighborSearching
<1>6. FreeLinkSlots(c3.db) /= {}
  BY <1>5 DEF RoomForHello, FreeLinkSlots
<1> HIDE DEF c3
<1>7. Working(c4, m)
  BY <1>5, <1>6, TakeLinkWorking
<1> HIDE DEF c4
<1> QED
  BY <1>1, <1>7, DefaultThisIfWorking

(* A whole HELLO.                                                          *)
LEMMA ProcessedInv ==
    ASSUME NEW d, DbInv(d), RoomForHello(d), NEW m \in HelloMessage
    PROVE  LET c == Processed(d, m)
           IN  c \in CtxType /\ (~c.bad => DbInv(c.db))
<1> DEFINE c5 == AfterPass1(d, m)
           c6 == Pass2Locals(c5, m)
           c7 == Pass2TwoHop(c6, m)
<1>1. Processed(d, m) = Pass2End(c7, m)
  BY DEF Processed
<1>2. Working(c5, m)
  BY AfterPass1Working
<1> HIDE DEF c5
<1>3. Working(c6, m)
  BY <1>2, Pass2LocalsWorking
<1> HIDE DEF c6
<1>4. Working(c7, m)
  BY <1>3, Pass2TwoHopWorking
<1> HIDE DEF c7
<1> QED
  BY <1>1, <1>4, Pass2EndInv

(* Every link of a sound database can be worked on.                        *)
LEMMA AnyLinkWorking ==
    ASSUME NEW d, DbInv(d), NEW l \in Links(d)
    PROVE  /\ WorkingDb(d, d.ln[l].neigh, l, d.ln[l].if)
           /\ d \in DbType /\ l \in LinkSlots /\ d.ln[l].neigh \in NeighSlots
           /\ LinkFine(d.ln[l])
BY DEF DbInv, WorkingDb, Structure, Pointers, LinksOn, Links, LinksFineBut, Neighs

(* _link_status_not_symmetric_anymore.                                     *)
LEMMA NotSymmetricAnymoreShape ==
    ASSUME NEW d \in DbType, NEW l \in LinkSlots, d.ln[l].neigh \in NeighSlots
    PROVE  LET r == NotSymmetricAnymore(d, l)
           IN  /\ r \in DbType /\ Shape(d, r)
               /\ \A k \in LinkSlots : SameTimes(d, r, k) /\ r.ln[k].status = d.ln[k].status
<1> DEFINE n == d.ln[l].neigh
           r == NotSymmetricAnymore(d, l)
           th == [a \in Addrs |-> Absent]
           e == [d EXCEPT !.ln[l].twohop = th]
<1>1. /\ r \in DbType
      /\ Counts(d, r, n, -1)
      /\ r.ln = TwoHopRemoveAll(d, l).ln
      /\ r.la = d.la
      /\ \A a \in Addrs : r.na[a].neigh = d.na[a].neigh
  BY NotSymmetricAnymoreValue
<1>2. TwoHopRemoveAll(d, l) = e /\ th \in [Addrs -> Timers]
  BY DEF TwoHopRemoveAll, Absent, Timers
<1> HIDE DEF th
<1>3. /\ Shape(d, e)
      /\ \A k \in LinkSlots : SameTimes(d, e, k) /\ e.ln[k].status = d.ln[k].status
  BY <1>2, TwoHopUpdate
<1> HIDE DEF r, e
<1>4. r.ln = e.ln
  BY <1>1, <1>2
<1>5. \A p \in NeighSlots : r.nb[p].used = d.nb[p].used
                            /\ r.nb[p].originator = d.nb[p].originator
  BY <1>1 DEF Counts, SameNeigh
<1>6. Shape(d, r)
  BY <1>1, <1>3, <1>4, <1>5 DEF Shape
<1> QED
  BY <1>1, <1>3, <1>4, <1>6 DEF SameTimes, r

(* _cb_link_vtime                                                          *)
LEMMA LinkVtimeExpiredInv ==
    ASSUME NEW d, DbInv(d), NEW l \in Links(d)
    PROVE  DbInv(LinkVtimeExpired(d, l))
<1> DEFINE n == d.ln[l].neigh
           d1 == [d EXCEPT !.ln[l].vtime = Off]
           d2 == IF d1.ln[l].status = "SYMMETRIC" THEN NotSymmetricAnymore(d1, l)
                 ELSE d1
           d3 == LinksRemove(d2, {l})
<1>1. /\ WorkingDb(d, n, l, d.ln[l].if)
      /\ d \in DbType /\ l \in LinkSlots /\ n \in NeighSlots
  BY AnyLinkWorking
<1>2. LinkVtimeExpired(d, l) = IF LinksOf(d3, n) = {} THEN NeighborRemove(d3, n) ELSE d3
  BY DEF LinkVtimeExpired
<1>3. /\ d1 \in DbType /\ Shape(d, d1)
      /\ \A k \in LinkSlots \ {l} : d1.ln[k] = d.ln[k]
  BY <1>1, VtimeWrite DEF Off, Absent, Timers
<1> HIDE DEF d1
<1>4. WorkingDb(d1, n, l, d.ln[l].if)
  BY <1>1, <1>3, OwnLinkWorking
<1>5. WorkingDb(d2, n, l, d.ln[l].if)
  <2>1. d1.ln[l].neigh \in NeighSlots
    BY <1>1, <1>3 DEF Shape
  <2>2. /\ NotSymmetricAnymore(d1, l) \in DbType
        /\ Shape(d1, NotSymmetricAnymore(d1, l))
        /\ \A k \in LinkSlots : SameTimes(d1, NotSymmetricAnymore(d1, l), k)
              /\ NotSymmetricAnymore(d1, l).ln[k].status = d1.ln[k].status
    BY <1>1, <1>3, <2>1, NotSymmetricAnymoreShape
  <2>3. WorkingDb(NotSymmetricAnymore(d1, l), n, l, d.ln[l].if)
    BY <1>4, <2>2, SameWorkingDb
  <2> QED
    BY <1>4, <2>3
<1> HIDE DEF d2
<1>6. Structure(d3) /\ Links(d3) = Links(d2) \ {l}
  BY <1>5, LinksRemoveStructure DEF WorkingDb
<1>7. LinksFineBut(d3, l)
  BY <1>5, LinksRemoveFine DEF WorkingDb
<1> HIDE DEF d3
<1>8. Structure(NeighborRemove(d3, n))
      /\ Links(NeighborRemove(d3, n)) = Links(d3) \ LinksOf(d3, n)
  BY <1>1, <1>6, NeighborRemoveStructure
<1>9. LinksFineBut(NeighborRemove(d3, n), l)
  BY <1>1, <1>6, <1>7, NeighborRemoveFine
<1>10. DbInv(d3) /\ DbInv(NeighborRemove(d3, n))
  BY <1>6, <1>7, <1>8, <1>9 DEF DbInv, LinksFineBut
<1> QED
  BY <1>2, <1>10

(* _cb_link_heard: sym_time has ended before.                              *)
LEMMA LinkHeardExpiredInv ==
    ASSUME NEW d, DbInv(d), NEW l \in Links(d), d.ln[l].heard_time = 0
    PROVE  DbInv(LinkHeardExpired(d, l))
<1> DEFINE n == d.ln[l].neigh
           i == d.ln[l].if
           e == [d EXCEPT !.ln[l].heard_time = Off]
           r == UpdateStatus(e, l)
<1>1. /\ WorkingDb(d, n, l, i) /\ LinkFine(d.ln[l])
      /\ d \in DbType /\ l \in LinkSlots
  BY AnyLinkWorking
<1>2. /\ e \in DbType /\ Shape(d, e)
      /\ \A k \in LinkSlots \ {l} : e.ln[k] = d.ln[k]
      /\ e.ln[l].sym_time = d.ln[l].sym_time
      /\ e.ln[l].heard_time = Off
      /\ e.ln[l].vtime = d.ln[l].vtime
  BY <1>1, HeardTimeWrite DEF Off, Absent, Timers
<1> HIDE DEF e
<1>3. WorkingDb(e, n, l, i)
  BY <1>1, <1>2, OwnLinkWorking
<1>4. /\ WorkingDb(r, n, l, i) /\ SameTimes(e, r, l)
      /\ r.ln[l].status = CalculateStatus(e.ln[l])
  BY <1>3, UpdateStatusWorking
<1>5. d.ln[l].sym_time \in Int
  <2>1. d.ln[l] \in LinkType
    BY <1>1, DbFields
  <2> QED
    BY <2>1 DEF LinkType, Timers
<1> HIDE DEF r
<1>6. LinkFine(r.ln[l])
  <2>1. Active(r.ln[l].vtime) /\ Ordered(r.ln[l])
    BY <1>1, <1>2, <1>4, <1>5 DEF LinkFine, Ordered, SameTimes, Active, Off
  <2>2. Cached(r.ln[l])
    BY <1>4 DEF SameTimes, Cached, CalculateStatus
  <2> QED
    BY <2>1, <2>2 DEF LinkFine
<1>7. DbInv(r)
  BY <1>4, <1>6 DEF DbInv, WorkingDb, LinksFineBut
<1> QED
  BY <1>7 DEF LinkHeardExpired, r, e

(* _cb_link_symtime                                                        *)
LEMMA LinkSymExpiredInv ==
    ASSUME NEW d, DbInv(d), NEW l \in Links(d), d.ln[l].sym_time = 0
    PROVE  DbInv(LinkSymExpired(d, l))
<1> DEFINE n == d.ln[l].neigh
           i == d.ln[l].if
           e == [d EXCEPT !.ln[l].sym_time = Off]
           r == UpdateStatus(e, l)
<1>1. /\ WorkingDb(d, n, l, i) /\ LinkFine(d.ln[l])
      /\ d \in DbType /\ l \in LinkSlots
  BY AnyLinkWorking
<1>2. /\ e \in DbType /\ Shape(d, e)
      /\ \A k \in LinkSlots \ {l} : e.ln[k] = d.ln[k]
      /\ e.ln[l].sym_time = Off
      /\ e.ln[l].heard_time = d.ln[l].heard_time
      /\ e.ln[l].vtime = d.ln[l].vtime
  BY <1>1, SymTimeWrite DEF Off, Absent, Timers
<1> HIDE DEF e
<1>3. WorkingDb(e, n, l, i)
  BY <1>1, <1>2, OwnLinkWorking
<1>4. /\ WorkingDb(r, n, l, i) /\ SameTimes(e, r, l)
      /\ r.ln[l].status = CalculateStatus(e.ln[l])
  BY <1>3, UpdateStatusWorking
<1>5. d.ln[l].heard_time \in Int
  <2>1. d.ln[l] \in LinkType
    BY <1>1, DbFields
  <2> QED
    BY <2>1 DEF LinkType, Timers
<1> HIDE DEF r
<1>6. LinkFine(r.ln[l])
  <2>1. Active(r.ln[l].vtime) /\ Ordered(r.ln[l])
    BY <1>1, <1>2, <1>4, <1>5 DEF LinkFine, Ordered, SameTimes, Active, Off
  <2>2. Cached(r.ln[l])
    BY <1>4 DEF SameTimes, Cached, CalculateStatus
  <2> QED
    BY <2>1, <2>2 DEF LinkFine
<1>7. DbInv(r)
  BY <1>4, <1>6 DEF DbInv, WorkingDb, LinksFineBut
<1> QED
  BY <1>7 DEF LinkSymExpired, r, e

(* _cb_naddr_vtime                                                         *)
LEMMA NaddrExpiredInv ==
    ASSUME NEW d, DbInv(d), NEW a \in Addrs
    PROVE  DbInv(NaddrExpired(d, a))
<1> DEFINE r == NaddrExpired(d, a)
           na == [d.na EXCEPT ![a] = NoNaddr]
<1>1. d \in DbType
  BY DEF DbInv, Structure
<1>2. na \in [Addrs -> NaddrType]
      /\ \A b \in Addrs : na[b] = IF b = a THEN NoNaddr ELSE d.na[b]
  <2>1. d.na \in [Addrs -> NaddrType] /\ NoNaddr \in NaddrType
    BY <1>1, DbFields, FreeObjects
  <2> QED
    BY <2>1
<1>3. r = [d EXCEPT !.na = na]
  BY <1>1 DEF NaddrExpired, DbType
<1> HIDE DEF r, na
<1>4. r \in DbType
  BY <1>1, <1>2, <1>3, DbUpdates
<1>5. r.nb = d.nb /\ r.ln = d.ln /\ r.la = d.la /\ r.na = na
  BY <1>1, <1>3 DEF DbType
<1>6. Neighs(r) = Neighs(d) /\ Links(r) = Links(d) /\ \A j : LinksOn(r, j) = LinksOn(d, j)
  BY <1>5 DEF Neighs, Links, LinksOn
<1>7. \A b \in Addrs : r.na[b].neigh /= NoSlot => r.na[b].neigh \in Neighs(d)
  <2>1. \A b \in Addrs : r.na[b].neigh = NoSlot \/ r.na[b].neigh = d.na[b].neigh
    BY <1>2, <1>5 DEF NoNaddr
  <2> QED
    BY <2>1 DEF DbInv, Structure, Pointers
<1>8. Pointers(r)
  BY <1>5, <1>6, <1>7 DEF DbInv, Structure, Pointers
<1>9. OwnOriginators(r)
  BY <1>5, <1>6 DEF DbInv, Structure, OwnOriginators
<1>10. DbInv(r)
  BY <1>4, <1>5, <1>6, <1>8, <1>9 DEF DbInv, Structure
<1> QED
  BY <1>10 DEF r

(* _cb_l2hop_vtime                                                         *)
LEMMA TwoHopExpiredInv ==
    ASSUME NEW d, DbInv(d), NEW l \in Links(d), NEW a \in Addrs
    PROVE  DbInv(TwoHopExpired(d, l, a))
<1> DEFINE th == [d.ln[l].twohop EXCEPT ![a] = Absent]
           r == [d EXCEPT !.ln[l].twohop = th]
<1>1. d \in DbType /\ l \in LinkSlots
  BY AnyLinkWorking
<1>2. th \in [Addrs -> Timers]
  <2>1. d.ln[l].twohop \in [Addrs -> Timers] /\ Absent \in Timers
    BY <1>1, DbFields DEF LinkType, Absent, Timers
  <2> QED
    BY <2>1
<1>3. TwoHopExpired(d, l, a) = r
  BY <1>1 DEF TwoHopExpired, DbType
<1> HIDE DEF th
<1>4. /\ r \in DbType /\ Shape(d, r)
      /\ \A k \in LinkSlots : SameTimes(d, r, k) /\ r.ln[k].status = d.ln[k].status
  BY <1>1, <1>2, TwoHopUpdate
<1> HIDE DEF r
<1> QED
  BY <1>3, <1>4, SameDbInv

(* Time passes for all timers alike, and none of them is due.              *)
LEMMA ElapseDbInv ==
    ASSUME NEW d, DbInv(d), ~DueTimers(d)
    PROVE  DbInv(ElapseDb(d))
<1> DEFINE r == ElapseDb(d)
<1>1. d \in DbType /\ Structure(d)
  BY DEF DbInv, Structure
<1>2. /\ r \in DbType /\ Shape(d, r)
      /\ \A l \in LinkSlots :
           /\ r.ln[l].status = d.ln[l].status
           /\ r.ln[l].sym_time = Elapse(d.ln[l].sym_time)
           /\ r.ln[l].heard_time = Elapse(d.ln[l].heard_time)
           /\ r.ln[l].vtime = Elapse(d.ln[l].vtime)
  BY <1>1, ElapseDbValue
<1> HIDE DEF r
<1>3. Structure(r) /\ Links(r) = Links(d)
  BY <1>1, <1>2, ShapeStructure, ShapeSets
<1>4. ASSUME NEW l \in Links(d)
      PROVE  LinkFine(r.ln[l])
  <2>1. l \in LinkSlots
    BY DEF Links
  <2>2. d.ln[l].sym_time \in Int /\ d.ln[l].heard_time \in Int /\ d.ln[l].vtime \in Int
    <3>1. d.ln[l] \in LinkType
      BY <1>1, <2>1, DbFields
    <3> QED
      BY <3>1 DEF LinkType, Timers
  <2>3. d.ln[l].sym_time /= 0 /\ d.ln[l].heard_time /= 0 /\ d.ln[l].vtime /= 0
    BY DEF DueTimers
  <2>4. LinkFine(d.ln[l])
    BY DEF DbInv
  <2>5. /\ r.ln[l].status = d.ln[l].status
        /\ r.ln[l].sym_time = Elapse(d.ln[l].sym_time)
        /\ r.ln[l].heard_time = Elapse(d.ln[l].heard_time)
        /\ r.ln[l].vtime = Elapse(d.ln[l].vtime)
    BY <1>2, <2>1
  <2>6. Active(r.ln[l].vtime) /\ Ordered(r.ln[l])
    BY <2>2, <2>3, <2>4, <2>5 DEF LinkFine, Ordered, Active, Elapse
  <2>7. /\ Active(r.ln[l].sym_time) <=> Active(d.ln[l].sym_time)
        /\ Active(r.ln[l].heard_time) <=> Active(d.ln[l].heard_time)
    BY <2>2, <2>5 DEF Active, Elapse
  <2>8. Cached(r.ln[l])
    BY <2>4, <2>5, <2>7 DEF LinkFine, Cached, CalculateStatus
  <2> QED
    BY <2>6, <2>8 DEF LinkFine
<1>5. DbInv(r)
  BY <1>3, <1>4 DEF DbInv
<1> QED
  BY <1>5 DEF r

(* nhdp_db_link_set_unsymmetric; interfaces go down, so the status of a    *)
(* link need not be the cached one.                                        *)
LEMMA LinkSetUnsymmetricInv ==
    ASSUME Unstable /= {}, NEW d, DbInv(d), NEW l \in Links(d)
    PROVE  LET r == LinkSetUnsymmetric(d, l)
           IN  r \in DbType /\ DbInv(r) /\ Links(r) = Links(d)
<1> DEFINE r == LinkSetUnsymmetric(d, l)
<1>1. /\ WorkingDb(d, d.ln[l].neigh, l, d.ln[l].if) /\ LinkFine(d.ln[l])
      /\ d \in DbType /\ l \in LinkSlots /\ d.ln[l].neigh \in NeighSlots
  BY AnyLinkWorking
<1>2. /\ r \in DbType
      /\ r.la = d.la
      /\ \A p \in NeighSlots : SameNeigh(d, r, p)
      /\ \A k \in LinkSlots : SameEnds(d, r, k)
      /\ \A k \in LinkSlots \ {l} : r.ln[k] = d.ln[k]
      /\ r.ln[l].sym_time = Off
      /\ r.ln[l].heard_time = d.ln[l].heard_time
      /\ r.ln[l].vtime = d.ln[l].vtime
      /\ \A a \in Addrs : r.na[a].neigh = d.na[a].neigh
  BY <1>1, LinkSetUnsymmetricValue
<1> HIDE DEF r
<1>3. Shape(d, r)
  BY <1>2 DEF Shape, SameNeigh, SameEnds
<1>4. WorkingDb(r, d.ln[l].neigh, l, d.ln[l].if)
  BY <1>1, <1>2, <1>3, OwnLinkWorking
<1>5. LinkFine(r.ln[l])
  BY <1>1, <1>2 DEF LinkFine, Ordered, Cached, Active, Off
<1>6. DbInv(r) /\ Links(r) = Links(d)
  BY <1>3, <1>4, <1>5, ShapeSets DEF DbInv, WorkingDb, LinksFineBut
<1> QED
  BY <1>2, <1>6 DEF r
-----------------------------------------------------------------------------
(* What the end of a HELLO writes: the rest of the database stays as the   *)
(* loop over the addresses left it.  First the two-hop addresses.          *)
LEMMA Pass2TwoHopValue ==
    ASSUME NEW c, NEW m \in HelloMessage, Working(c, m), ~c.bad
    PROVE  LET r == Pass2TwoHop(c, m)
           IN  /\ Working(r, m) /\ ~r.bad /\ r.neigh = c.neigh /\ r.link = c.link
               /\ r.markN = c.markN /\ r.markL = c.markL
               /\ Shape(c.db, r.db) /\ r.db.nb = c.db.nb /\ r.db.na = c.db.na
               /\ \A k \in LinkSlots : /\ SameTimes(c.db, r.db, k)
                                       /\ r.db.ln[k].status = c.db.ln[k].status
<1> DEFINE th == [a \in Addrs |-> IF a \in m.sym2 THEN TimerSet(m.vtime)
                                  ELSE IF a \in m.gone2 THEN Absent
                                  ELSE c.db.ln[c.link].twohop[a]]
           e == [c.db EXCEPT !.ln[c.link].twohop = th]
           r == Pass2TwoHop(c, m)
<1>1. c \in CtxType /\ c.db \in DbType /\ c.link \in LinkSlots
  BY DEF Working, Structure, LinksOn, Links
<1>2. th \in [Addrs -> Timers]
  <2>1. c.db.ln[c.link].twohop \in [Addrs -> Timers]
    BY <1>1, DbFields DEF LinkType
  <2>2. TimerSet(m.vtime) \in Timers /\ Absent \in Timers
    BY DEF TimerSet, Absent, Off, HelloMessage, Timers
  <2> QED
    BY <2>1, <2>2
<1>3. r = [c EXCEPT !.db = e]
  BY <1>1 DEF Pass2TwoHop, CtxType, DbType
<1> HIDE DEF th
<1>4. /\ Shape(c.db, e) /\ e.nb = c.db.nb /\ e.na = c.db.na
      /\ \A k \in LinkSlots : SameTimes(c.db, e, k) /\ e.ln[k].status = c.db.ln[k].status
  <2> HIDE DEF r
  <2>1. c.db \in DbType /\ c.link \in LinkSlots
    BY <1>1
  <2> QED
    BY <1>2, <2>1, TwoHopUpdate
<1>5. Working(r, m)
  BY Pass2TwoHopWorking
<1> HIDE DEF e, r
<1>6. /\ r.db = e /\ r.bad = c.bad /\ r.neigh = c.neigh /\ r.link = c.link
      /\ r.markN = c.markN /\ r.markL = c.markL
  BY <1>1, <1>3 DEF CtxType
<1> QED
  BY <1>4, <1>5, <1>6 DEF r

(* _cb_msg_pass2_end: the addresses that were not in the HELLO.            *)
LEMMA DropLeftoversValue ==
    ASSUME NEW c, NEW m \in HelloMessage, Working(c, m), ~c.bad
    PROVE  LET r == DropLeftovers(c, m)
           IN  /\ WorkingDb(r, c.neigh, c.link, m.if)
               /\ r.nb = c.db.nb
               /\ \A k \in LinkSlots :
                    /\ r.ln[k].used = c.db.ln[k].used
                    /\ r.ln[k].neigh = c.db.ln[k].neigh
                    /\ r.ln[k].if = c.db.ln[k].if
                    /\ SameTimes(c.db, r, k)
                    /\ r.ln[k].status = c.db.ln[k].status
               /\ \A a \in Addrs :
                    /\ r.na[a].neigh = c.db.na[a].neigh
                    /\ r.na[a].lost = IF a \in c.markN THEN HoldTime ELSE c.db.na[a].lost
               /\ \A j \in Ifs, a \in Addrs :
                    r.la[j][a] = IF j = m.if /\ a \in c.markL THEN NoSlot ELSE c.db.la[j][a]
<1> DEFINE d == c.db
           l == c.link
           i == m.if
           la == [a \in Addrs |-> IF a \in c.markL THEN NoSlot ELSE d.la[i][a]]
           e == [d EXCEPT !.la[i] = la]
           th == [a \in Addrs |-> IF a \in c.markN THEN Absent ELSE e.ln[l].twohop[a]]
           f == [e EXCEPT !.ln[l].twohop = th]
           r == SetLost(f, c.markN)
<1>1. c \in CtxType /\ WorkingDb(d, c.neigh, l, i) /\ i \in Ifs
  BY DEF Working, WorkingDb, HelloMessage
<1>2. d \in DbType /\ l \in LinkSlots /\ Structure(d)
  BY <1>1 DEF WorkingDb, Structure, LinksOn, Links
<1>3. /\ Structure(e) /\ e.nb = d.nb /\ e.ln = d.ln /\ e.na = d.na
      /\ \A a \in Addrs : e.la[i][a] = IF a \in c.markL THEN NoSlot ELSE d.la[i][a]
      /\ \A j \in Ifs \ {i} : e.la[j] = d.la[j]
  <2>1. d.la \in [Ifs -> [Addrs -> LinkSlots \cup {NoSlot}]]
    BY <1>2, DbFields
  <2>2. e.la = [d.la EXCEPT ![i] = la]
    BY <1>2 DEF DbType
  <2>3. \A j \in Ifs \ {i} : e.la[j] = d.la[j]
    <3> HIDE DEF e, la
    <3> QED
      BY <2>1, <2>2
  <2> QED
    BY <1>1, <1>2, <2>3, LinkAddrsDrop
<1>4. DropLeftovers(c, m) = r
  <2>1. th = [a \in Addrs |-> IF a \in c.markN THEN Absent ELSE d.ln[l].twohop[a]]
    BY <1>3
  <2>2. [d EXCEPT !.la[i] = [a \in Addrs |-> IF a \in c.markL THEN NoSlot ELSE @[a]],
                  !.ln[l].twohop = [a \in Addrs |-> IF a \in c.markN THEN Absent ELSE @[a]]]
        = [[d EXCEPT !.la[i] = la] EXCEPT !.ln[l].twohop =
              [a \in Addrs |-> IF a \in c.markN THEN Absent ELSE d.ln[l].twohop[a]]]
    BY <1>2, <1>1 DEF DbType
  <2> HIDE DEF th, la
  <2> QED
    BY <2>1, <2>2 DEF DropLeftovers
<1> HIDE DEF la, e
<1>5. th \in [Addrs -> Timers] /\ e \in DbType
  <2>1. e.ln[l].twohop \in [Addrs -> Timers] /\ Absent \in Timers
    BY <1>2, <1>3, DbFields DEF LinkType, Absent, Timers
  <2> QED
    BY <1>3, <2>1 DEF Structure
<1> HIDE DEF th, l, i
<1>6. /\ f \in DbType /\ Shape(e, f) /\ f.nb = e.nb /\ f.na = e.na
      /\ \A k \in LinkSlots : SameTimes(e, f, k) /\ f.ln[k].status = e.ln[k].status
  BY <1>2, <1>5, TwoHopUpdate
<1> HIDE DEF f
<1>7. /\ r.nb = f.nb /\ r.ln = f.ln /\ r.la = f.la
      /\ \A a \in Addrs : /\ r.na[a].neigh = f.na[a].neigh
                          /\ r.na[a].lost = IF a \in c.markN THEN HoldTime ELSE f.na[a].lost
  BY <1>6, SetLostValue
<1> HIDE DEF r
<1>8. WorkingDb(r, c.neigh, c.link, m.if)
  BY <1>4, DropLeftoversWorking
<1>9. r.nb = d.nb /\ r.la = e.la
  BY <1>3, <1>6, <1>7 DEF Shape
<1>10. \A k \in LinkSlots :
         /\ r.ln[k].used = d.ln[k].used /\ r.ln[k].neigh = d.ln[k].neigh
         /\ r.ln[k].if = d.ln[k].if /\ SameTimes(d, r, k)
         /\ r.ln[k].status = d.ln[k].status
  BY <1>3, <1>6, <1>7 DEF Shape, SameTimes
<1>11. \A a \in Addrs :
         /\ r.na[a].neigh = d.na[a].neigh
         /\ r.na[a].lost = IF a \in c.markN THEN HoldTime ELSE d.na[a].lost
  BY <1>3, <1>6, <1>7
<1>12. \A j \in Ifs, a \in Addrs :
         r.la[j][a] = IF j = i /\ a \in c.markL THEN NoSlot ELSE d.la[j][a]
  BY <1>3, <1>9
<1> QED
  BY <1>4, <1>8, <1>9, <1>10, <1>11, <1>12 DEF d, i

(* nhdp_db_link_update_status keeps the objects and the pointers.          *)
LEMMA UpdateStatusShape ==
    ASSUME NEW d, NEW n, NEW l, NEW i, WorkingDb(d, n, l, i)
    PROVE  Shape(d, UpdateStatus(d, l))
<1> DEFINE r == UpdateStatus(d, l)
<1>1. d \in DbType /\ l \in LinkSlots
  BY DEF WorkingDb, Structure, LinksOn, Links
<1>2. d.ln[l].neigh \in NeighSlots
  BY DEF WorkingDb, Structure, Pointers, LinksOn, Neighs
<1>3. /\ r.la = d.la
      /\ \A p \in NeighSlots : SameNeigh(d, r, p)
      /\ \A k \in LinkSlots : SameEnds(d, r, k)
      /\ \A a \in Addrs : r.na[a].neigh = d.na[a].neigh
  BY <1>1, <1>2, UpdateStatusValue
<1> HIDE DEF r
<1>4. Shape(d, r)
  BY <1>3 DEF Shape, SameNeigh, SameEnds
<1> QED
  BY <1>4 DEF r

(* Only timers of link l, which works for neighbor n on interface i, were  *)
(* written.                                                                *)
TimersWritten(d, e, n, l, i) ==
    /\ WorkingDb(e, n, l, i) /\ Shape(d, e)
    /\ e.nb = d.nb /\ e.na = d.na
    /\ \A k \in LinkSlots : e.ln[k].status = d.ln[k].status

(* sym_time (RFC 6130 section 12.5.4): the status is updated when it is    *)
(* started; otherwise nothing but timers of the link is written.           *)
LEMMA UpdateSymTimeValue ==
    ASSUME NEW d, NEW n, NEW l, NEW m \in HelloMessage, WorkingDb(d, n, l, m.if)
    PROVE  LET r == UpdateSymTime(d, l, m)
           IN  \E e : TimersWritten(d, e, n, l, m.if) /\ (r = e \/ r = UpdateStatus(e, l))
<1> DEFINE r == UpdateSymTime(d, l, m)
           heard == [d EXCEPT !.ln[l].sym_time = TimerSet(m.vtime)]
           stopped == [d EXCEPT !.ln[l].sym_time = Off]
           held == [stopped EXCEPT !.ln[l].vtime = TimerSet(HoldTime)]
           Only(e) == /\ e \in DbType /\ Shape(d, e) /\ e.nb = d.nb /\ e.na = d.na
                      /\ \A k \in LinkSlots \ {l} : e.ln[k] = d.ln[k]
                      /\ e.ln[l].status = d.ln[l].status
<1>1. d \in DbType /\ l \in LinkSlots
  BY DEF WorkingDb, Structure, LinksOn, Links
<1>2. TimerSet(m.vtime) \in Timers /\ TimerSet(HoldTime) \in Timers /\ Off \in Timers
  BY NhdpDbAssumption DEF TimerSet, Off, HelloMessage, Timers, Absent
<1>3. r \in {UpdateStatus(heard, l), stopped, held, d}
  BY DEF UpdateSymTime
<1>4. Only(stopped)
  BY <1>1, <1>2, SymTimeWrite
<1>5. Only(heard)
  BY <1>1, <1>2, SymTimeWrite
<1> HIDE DEF stopped, heard, r
<1>6. Only(held)
  <2>1. /\ held \in DbType /\ Shape(stopped, held)
        /\ held.nb = stopped.nb /\ held.na = stopped.na
        /\ \A k \in LinkSlots \ {l} : held.ln[k] = stopped.ln[k]
        /\ held.ln[l].status = stopped.ln[l].status
    BY <1>1, <1>2, <1>4, VtimeWrite
  <2> HIDE DEF held
  <2> QED
    BY <1>4, <2>1, ShapeTrans
<1> HIDE DEF held
<1>7. Only(d)
  BY <1>1 DEF Shape
<1>8. ASSUME NEW e, Only(e)
      PROVE  TimersWritten(d, e, n, l, m.if)
  BY <1>8, OwnLinkWorking DEF TimersWritten
<1> HIDE DEF Only
<1>9. \E e : Only(e) /\ (r = e \/ r = UpdateStatus(e, l))
  BY <1>3, <1>4, <1>5, <1>6, <1>7
<1> QED
  BY <1>8, <1>9 DEF r

(* heard_time and vtime.                                                   *)
LEMMA UpdateLinkTimesValue ==
    ASSUME NEW d, NEW n, NEW l, NEW m \in HelloMessage, WorkingDb(d, n, l, m.if)
    PROVE  LET r == UpdateLinkTimes(d, l, m)
           IN  /\ WorkingDb(r, n, l, m.if) /\ Shape(d, r)
               /\ r.nb = d.nb /\ r.na = d.na
               /\ \A k \in LinkSlots : r.ln[k].status = d.ln[k].status
<1> DEFINE r == UpdateLinkTimes(d, l, m)
<1>1. d \in DbType /\ l \in LinkSlots
  BY DEF WorkingDb, Structure, LinksOn, Links
<1>2. \E h, v : r = [d EXCEPT !.ln[l].heard_time = h, !.ln[l].vtime = v]
  BY DEF UpdateLinkTimes
<1>3. WorkingDb(r, n, l, m.if)
  BY UpdateLinkTimesWorking
<1> HIDE DEF r
<1>4. PICK h, v : r = [d EXCEPT !.ln[l].heard_time = h, !.ln[l].vtime = v]
  BY <1>2
<1>5. /\ r.nb = d.nb /\ r.na = d.na /\ r.la = d.la
      /\ r.ln = [d.ln EXCEPT ![l].heard_time = h, ![l].vtime = v]
  BY <1>1, <1>4 DEF DbType
<1>6. \A k \in LinkSlots :
        /\ r.ln[k].used = d.ln[k].used /\ r.ln[k].neigh = d.ln[k].neigh
        /\ r.ln[k].if = d.ln[k].if /\ r.ln[k].status = d.ln[k].status
  BY <1>1, <1>5, DbFields DEF LinkType
<1>7. Shape(d, r)
  BY <1>5, <1>6 DEF Shape
<1> QED
  BY <1>3, <1>5, <1>6, <1>7 DEF r

(* No neighbor and no link is added or removed after the loop.             *)
LEMMA Pass2EndObjects ==
    ASSUME NEW c, NEW m \in HelloMessage, Working(c, m), ~c.bad
    PROVE  /\ Neighs(Pass2End(c, m).db) = Neighs(c.db)
           /\ Links(Pass2End(c, m).db) = Links(c.db)
<1> DEFINE l == c.link
           n == c.neigh
           i == m.if
           d1 == DropLeftovers(c, m)
           d2 == UpdateSymTime(d1, l, m)
           d3 == UpdateLinkTimes(d2, l, m)
           d4 == SetOriginator(d3, n, m.orig)
           d5 == UpdateStatus(d4, l)
<1>1. Pass2End(c, m).db = d5
  BY DEF Pass2End, Working, CtxType
<1>2. /\ WorkingDb(d1, n, l, i) /\ d1.nb = c.db.nb
      /\ \A k \in LinkSlots : d1.ln[k].used = c.db.ln[k].used
  BY DropLeftoversValue
<1> HIDE DEF d1
<1>3. Neighs(d1) = Neighs(c.db) /\ Links(d1) = Links(c.db)
  BY <1>2 DEF Neighs, Links
<1>4. WorkingDb(d2, n, l, i) /\ Shape(d1, d2)
  <2>1. PICK e : TimersWritten(d1, e, n, l, i) /\ (d2 = e \/ d2 = UpdateStatus(e, l))
    BY <1>2, UpdateSymTimeValue
  <2>2. WorkingDb(e, n, l, i) /\ Shape(d1, e) /\ Shape(e, UpdateStatus(e, l))
    BY <2>1, UpdateStatusShape DEF TimersWritten
  <2>3. WorkingDb(d2, n, l, i)
    BY <1>2, UpdateSymTimeWorking
  <2> HIDE DEF d2
  <2> QED
    BY <2>1, <2>2, <2>3, ShapeTrans
<1> HIDE DEF d2
<1>5. WorkingDb(d3, n, l, i) /\ Shape(d2, d3)
  BY <1>4, UpdateLinkTimesValue
<1> HIDE DEF d3
<1>6. /\ Structure(d4) /\ Neighs(d4) = Neighs(d3) /\ d4.ln = d3.ln
  BY <1>5, SetOriginatorStructure DEF WorkingDb, HelloMessage
<1> HIDE DEF d4
<1>7. WorkingDb(d4, n, l, i) /\ Links(d4) = Links(d3)
  BY <1>5, <1>6 DEF WorkingDb, LinksOn, Links, LinksFineBut
<1>8. Shape(d4, d5)
  BY <1>7, UpdateStatusShape
<1> HIDE DEF d5
<1> QED
  BY <1>1, <1>3, <1>4, <1>5, <1>6, <1>7, <1>8, ShapeSets
-----------------------------------------------------------------------------
(* _cb_interface_event, for one link after the other.                      *)
LEMMA LinksSetUnsymmetricInv ==
    ASSUME Unstable /= {}, NEW d, DbInv(d), NEW links, Len(links) \in Nat,
           \A k \in 1 .. Len(links) : links[k] \in Links(d)
    PROVE  DbInv(LinksSetUnsymmetric(d, links))
<1> DEFINE N == Len(links)
           S == {x \in DbType : DbInv(x) /\ Links(x) = Links(d)}
           G(x, k) == LinkSetUnsymmetric(x, links[k])
           step == [k \in Nat |-> [x \in S |-> IF k \in 1 .. N THEN G(x, k) ELSE x]]
           h == CHOOSE f : f = [k \in 0 .. N |-> IF k = 0 THEN d ELSE G(f[k - 1], k)]
<1>1. N \in Nat /\ d \in S
  BY DEF DbInv, Structure
<1>2. ASSUME NEW x \in S, NEW k \in 1 .. N
      PROVE  G(x, k) \in S
  <2>1. links[k] \in Links(x) /\ DbInv(x)
    OBVIOUS
  <2>2. G(x, k) \in DbType /\ DbInv(G(x, k)) /\ Links(G(x, k)) = Links(x)
    BY <2>1, LinkSetUnsymmetricInv
  <2> HIDE DEF G
  <2> QED
    BY <2>2
<1>3. LinksSetUnsymmetric(d, links) = h[N]
  BY DEF LinksSetUnsymmetric
<1> HIDE DEF G, S, N
<1>4. step \in [Nat -> [S -> S]]
  BY <1>2
<1>5. PICK f \in [0 .. N -> S] : Loop(f, d, N, step)
  <2> HIDE DEF step
  <2> QED
    BY <1>1, <1>4, LoopRuns
<1>6. \A k \in 0 .. N : f[k] = IF k = 0 THEN d ELSE G(f[k - 1], k)
  <2>1. ASSUME NEW k \in 0 .. N, k /= 0
        PROVE  step[k][f[k - 1]] = G(f[k - 1], k)
    <3>1. f[k - 1] \in S /\ k \in 1 .. N
      BY <1>1, <1>5, <2>1
    <3> QED
      BY <3>1
  <2> QED
    BY <1>5, <2>1 DEF Loop
<1>7. f = [k \in 0 .. N |-> IF k = 0 THEN d ELSE G(f[k - 1], k)]
  BY <1>6
<1>8. h = [k \in 0 .. N |-> IF k = 0 THEN d ELSE G(h[k - 1], k)]
  BY <1>7
<1> HIDE DEF h
<1>9. h[0] = d /\ \A k \in 1 .. N : h[k] = G(h[k - 1], k)
  BY <1>1, <1>8
<1>10. \A k \in 0 .. N : h[k] \in S
  BY <1>1, <1>2, <1>9, LoopInvariant
<1>11. h[N] \in S
  BY <1>1, <1>10
<1> QED
  BY <1>3, <1>11 DEF S

(* The links of an interface as a list.                                    *)
LEMMA LinksAsSequence ==
    ASSUME NEW S, IsFiniteSet(S)
    PROVE  LET s == SetToSeq(S)
           IN  Len(s) \in Nat /\ \A k \in 1 .. Len(s) : s[k] \in S
<1> DEFINE n == Cardinality(S)
           s == SetToSeq(S)
<1>1. n \in Nat /\ ExistsBijection(1 .. n, S)
  BY FS_CardinalityType
<1>2. \E f \in [1 .. n -> S] : IsInjective(f)
  BY <1>1 DEF ExistsBijection, Bijection, Injection, IsInjective
<1>3. s \in [1 .. n -> S]
  BY <1>2 DEF SetToSeq
<1> HIDE DEF s, n
<1>4. Len(s) = n
  BY <1>1, <1>3
<1> QED
  BY <1>1, <1>3, <1>4 DEF s

(* A HELLO that is dropped in pass 1.                                      *)
LEMMA BadAddressInv ==
    ASSUME NEW d, DbInv(d), NEW m \in HelloMessage
    PROVE  LET c == Pass1(d, m)
           IN  DbInv(CleanupError(c.db, [link |-> c.link, neigh |-> c.neigh]))
<1> DEFINE c == Pass1(d, m)
           s == [link |-> c.link, neigh |-> c.neigh]
<1>1. DbInv(c.db) /\ c.neigh \in Neighs(c.db) \cup {NoSlot}
  BY Pass1Searching DEF Searching
<1>2. s.neigh = NoSlot \/ s.neigh \in NeighSlots
  BY <1>1 DEF Neighs
<1> HIDE DEF c, s
<1>3. DbInv(CleanupError(c.db, s))
  BY <1>1, <1>2, CleanupErrorInv DEF DbInv, LinksFineBut
<1> QED
  BY <1>3 DEF c, s

(* The initial database.                                                   *)
LEMMA InitInv == ASSUME Init PROVE DbInv(db)
<1>1. db.nb = [n \in NeighSlots |-> FreeNeigh] /\ db.ln = [l \in LinkSlots |-> FreeLink]
      /\ db.na = [a \in Addrs |-> NoNaddr]
      /\ db.la = [i \in Ifs |-> [a \in Addrs |-> NoSlot]]
  BY DEF Init, EmptyDb
<1>2. db \in DbType
  <2> DEFINE nb == [n \in NeighSlots |-> FreeNeigh]
             ln == [l \in LinkSlots |-> FreeLink]
             na == [a \in Addrs |-> NoNaddr]
             la == [i \in Ifs |-> [a \in Addrs |-> NoSlot]]
  <2>1. /\ nb \in [NeighSlots -> NeighType] /\ ln \in [LinkSlots -> LinkType]
        /\ na \in [Addrs -> NaddrType]
        /\ la \in [Ifs -> [Addrs -> LinkSlots \cup {NoSlot}]]
    BY FreeObjects
  <2>2. db = [nb |-> nb, ln |-> ln, na |-> na, la |-> la]
    BY DEF Init, EmptyDb
  <2> HIDE DEF nb, ln, na, la
  <2> QED
    BY <2>1, <2>2 DEF DbType
<1>3. Neighs(db) = {} /\ Links(db) = {}
  BY <1>1 DEF Neighs, Links, FreeNeigh, FreeLink
<1>4. Pointers(db)
  BY <1>1, <1>3 DEF Pointers, NoNaddr
<1>5. OwnOriginators(db)
  BY <1>3 DEF OwnOriginators
<1> QED
  BY <1>2, <1>3, <1>4, <1>5 DEF DbInv, Structure

(* A HELLO dropped in pass 2: the link it was about may have an outdated   *)
(* status and outdated timers by then, but is removed with the neighbor.   *)
LEMMA BadPass2Inv ==
    ASSUME NEW d, DbInv(d), RoomForHello(d), NEW m \in HelloMessage,
           NEW k \in 0 .. Len(m.locals)
    PROVE  LET c == Pass2Until(AfterPass1(d, m), m, k)
           IN  ~c.bad => DbInv(CleanupError(c.db, [link |-> c.link, neigh |-> c.neigh]))
<1> DEFINE c0 == AfterPass1(d, m)
           c == Pass2Until(c0, m, k)
           s == [link |-> c.link, neigh |-> c.neigh]
<1>1. Working(c0, m)
  BY AfterPass1Working
<1> HIDE DEF c0
<1>2. Working(c, m)
  BY <1>1, Pass2UntilWorking
<1> HIDE DEF c
<1> SUFFICES ASSUME ~c.bad
             PROVE  DbInv(CleanupError(c.db, s))
  BY DEF c, c0
<1>3. /\ Structure(c.db) /\ LinksFineBut(c.db, c.link)
      /\ c.neigh \in NeighSlots
  BY <1>2 DEF Working, Neighs
<1>4. s.link = c.link /\ s.neigh = c.neigh
  OBVIOUS
<1> HIDE DEF s
<1> QED
  BY <1>3, <1>4, CleanupErrorInv

(* Every action keeps the invariant of the database.                       *)
LEMMA NextInv == ASSUME DbInv(db), [Next]_vars PROVE DbInv(db')
<1>1. ASSUME NEW m \in Hellos, Hello(m)
      PROVE  DbInv(db')
  <2>1. m \in HelloMessage
    BY NhdpAssumption
  <2>2. RoomForHello(db)
    BY <1>1 DEF Hello
  <2>3. ~Processed(db, m).bad => DbInv(Processed(db, m).db)
    BY <2>1, <2>2, ProcessedInv
  <2> QED
    BY <1>1, <2>3 DEF Hello
<1>2. ASSUME NEW m \in BadMessageTlv, HelloBadMessageTlv(m)
      PROVE  DbInv(db')
  <2>1. CASE undefined'
    BY <1>2, <2>1 DEF HelloBadMessageTlv
  <2>2. CASE ~undefined'
    <3>1. db' = CleanupError(db, current) /\ ~DanglingSession(db, current)
      BY <1>2, <2>2 DEF HelloBadMessageTlv
    <3>2. current.neigh = NoSlot \/ current.neigh \in NeighSlots
      BY <3>1 DEF DanglingSession, Neighs
    <3> QED
      BY <3>1, <3>2, CleanupErrorInv DEF DbInv, LinksFineBut
  <2> QED
    BY <2>1, <2>2
<1>3. ASSUME NEW m \in BadAddressTlv, HelloBadAddressTlv(m)
      PROVE  DbInv(db')
  <2>1. m \in HelloMessage
    BY NhdpAssumption
  <2>2. LET c == Pass1(db, m)
        IN  db' = CleanupError(c.db, [link |-> c.link, neigh |-> c.neigh])
    BY <1>3 DEF HelloBadAddressTlv
  <2> QED
    BY <2>1, <2>2, BadAddressInv
<1>13. ASSUME NEW m \in BadAddressTlv, HelloBadPass2Tlv(m)
       PROVE  DbInv(db')
  <2>1. m \in HelloMessage
    BY NhdpAssumption
  <2>2. PICK k \in 0 .. Len(m.locals) :
          LET c == Pass2Until(AfterPass1(db, m), m, k)
          IN  db' = IF c.bad THEN db
                    ELSE CleanupError(c.db, [link |-> c.link, neigh |-> c.neigh])
    BY <1>13 DEF HelloBadPass2Tlv
  <2>3. RoomForHello(db)
    BY <1>13 DEF HelloBadPass2Tlv
  <2> QED
    BY <2>1, <2>2, <2>3, BadPass2Inv
<1>4. ASSUME NEW l \in LinkSlots, LinkVtime(l)
      PROVE  DbInv(db')
  BY <1>4, LinkVtimeExpiredInv DEF LinkVtime
<1>5. ASSUME NEW l \in LinkSlots, LinkHeard(l)
      PROVE  DbInv(db')
  BY <1>5, LinkHeardExpiredInv DEF LinkHeard
<1>6. ASSUME NEW l \in LinkSlots, LinkSym(l)
      PROVE  DbInv(db')
  BY <1>6, LinkSymExpiredInv DEF LinkSym
<1>7. ASSUME NEW l \in LinkSlots, NEW a \in Addrs, TwoHopVtime(l, a)
      PROVE  DbInv(db')
  BY <1>7, TwoHopExpiredInv DEF TwoHopVtime
<1>8. ASSUME NEW a \in Addrs, NaddrVtime(a)
      PROVE  DbInv(db')
  BY <1>8, NaddrExpiredInv DEF NaddrVtime
<1>9. CASE TimerFires
  BY <1>4, <1>5, <1>6, <1>7, <1>8, <1>9 DEF TimerFires
<1>10. CASE Tick
  BY <1>10, ElapseDbInv DEF Tick
<1>11. ASSUME NEW i \in Unstable, InterfaceInactive(i)
       PROVE  DbInv(db')
  <2> DEFINE links == SetToSeq(LinksOn(db, i))
  <2>1. IsFiniteSet(LinksOn(db, i)) /\ LinksOn(db, i) \subseteq Links(db)
    BY NhdpDbAssumption, FS_Subset DEF LinksOn, Links
  <2>2. Len(links) \in Nat /\ \A k \in 1 .. Len(links) : links[k] \in Links(db)
    BY <2>1, LinksAsSequence
  <2>3. db' = LinksSetUnsymmetric(db, links)
    BY <1>11 DEF InterfaceInactive
  <2> HIDE DEF links
  <2> QED
    BY <2>2, <2>3, LinksSetUnsymmetricInv
<1>12. CASE FallSilent \/ UNCHANGED vars
  BY <1>12 DEF FallSilent, vars
<1> QED
  BY <1>1, <1>2, <1>3, <1>9, <1>10, <1>11, <1>12, <1>13 DEF Next

(* The database is sound whatever HELLOs arrive, timers run out and        *)
(* interfaces go down: every pointer leads to an object of the database,   *)
(* no two neighbors have the same originator, and every link has a timer   *)
(* that will remove it.  Assumes only that a HELLO is what the parser can  *)
(* hand over.                                                              *)
THEOREM DatabaseAlwaysSound == Spec => []DatabaseSound
<1>1. Init => DbInv(db)
  BY InitInv
<1>2. DbInv(db) /\ [Next]_vars => DbInv(db)'
  BY NextInv
<1>3. DbInv(db) => DatabaseSound
  BY DEF DbInv, Structure, Pointers, OwnOriginators, LinkFine, DatabaseSound,
         PointersValid, OriginatorUnique, EveryLinkExpires
<1> QED
  BY <1>1, <1>2, <1>3, PTL DEF Spec

(* The timers of a link are always in order: sym_time does not outlast     *)
(* heard_time, and vtime outlasts both, whatever validity times the        *)
(* neighbor announced and in whatever order, so that a link is not removed *)
(* while it counts as symmetric.                                           *)
THEOREM TimersInOrder == Spec => []SymmetricOutlived
<1>1. Init => DbInv(db)
  BY InitInv
<1>2. DbInv(db) /\ [Next]_vars => DbInv(db)'
  BY NextInv
<1>3. DbInv(db) => SymmetricOutlived
  BY DEF DbInv, LinkFine, Ordered, SymmetricOutlived
<1> QED
  BY <1>1, <1>2, <1>3, PTL DEF Spec

(* As long as no interface loses its addresses, the cached status of a     *)
(* link is what its timers say.                                            *)
THEOREM StatusStaysCached == Unstable = {} => (Spec => []StatusCached)
<1>1. Init => DbInv(db)
  BY InitInv
<1>2. DbInv(db) /\ [Next]_vars => DbInv(db)'
  BY NextInv
<1>3. ASSUME Unstable = {}
      PROVE  DbInv(db) => StatusCached
  BY <1>3 DEF DbInv, LinkFine, Cached, StatusCached
<1>4. ASSUME Unstable = {}
      PROVE  Spec => []StatusCached
  BY <1>1, <1>2, <1>3, <1>4, PTL DEF Spec
<1> QED
  BY <1>4
-----------------------------------------------------------------------------
(* HELLOs whose addresses are distinct and that have a THIS_IF address.    *)
WellFormed(m) ==
    /\ m \in HelloMessage
    /\ \A j, k \in DOMAIN m.locals : j /= k => m.locals[j][1] /= m.locals[k][1]
    /\ ThisIf(m) /= {}
WellFormedHellos == \A m \in Hellos : WellFormed(m)

(* The addresses of a neighbor and of a link that pass 2 still has to      *)
(* process after the first k.                                              *)
LeftN(d, m, k, n) == {j \in DOMAIN m.locals : j > k /\ d.na[m.locals[j][1]].neigh = n}
LeftL(d, m, k, l) == {j \in DOMAIN m.locals : /\ j > k /\ m.locals[j][2] = "THIS"
                                              /\ d.la[m.if][m.locals[j][1]] = l}
CountedN(d, m, k) ==
    \A n \in NeighSlots : d.nb[n].process_count = Cardinality(LeftN(d, m, k, n))
CountedL(d, m, k) ==
    \A l \in LinksOn(d, m.if) : d.ln[l].process_count = Cardinality(LeftL(d, m, k, l))

(* The old neighbors and links that have no address left are removed.      *)
OldGone(d, own, n) ==
    \A p \in own \ {n} : p \in Neighs(d) => d.nb[p].process_count > 0
OldLinksGone(d, i, own, l) ==
    \A k \in own \ {l} :
      k \in Links(d) => k \in LinksOn(d, i) /\ d.ln[k].process_count > 0
LinksLeft(d, m, k, own, l) == CountedL(d, m, k) /\ OldLinksGone(d, m.if, own, l)

(* The invariant of the loop over the LOCAL_IF addresses; ownN and ownL    *)
(* are the old owners.                                                     *)
Balanced(c, m, k, ownN, ownL) ==
    ~c.bad => /\ CountedN(c.db, m, k) /\ CountedL(c.db, m, k)
              /\ OldGone(c.db, ownN, c.neigh)
              /\ OldLinksGone(c.db, m.if, ownL, c.link)

(* No later address is the same.                                           *)
LEMMA LaterDiffers ==
    ASSUME NEW m, WellFormed(m), NEW k \in 1 .. Len(m.locals)
    PROVE  \A j \in DOMAIN m.locals : j > k => m.locals[j][1] /= m.locals[k][1]
<1>1. Len(m.locals) \in Nat /\ DOMAIN m.locals = 1 .. Len(m.locals)
  BY DEF HelloMessage, WellFormed
<1> QED
  BY <1>1 DEF WellFormed

(* What is left is finite.                                                 *)
LEMMA LeftFinite ==
    ASSUME NEW m \in HelloMessage, NEW d, NEW k, NEW x
    PROVE  /\ IsFiniteSet(LeftN(d, m, k, x)) /\ Cardinality(LeftN(d, m, k, x)) \in Nat
           /\ IsFiniteSet(LeftL(d, m, k, x)) /\ Cardinality(LeftL(d, m, k, x)) \in Nat
<1>1. LeftN(d, m, k, x) \subseteq DOMAIN m.locals /\ LeftL(d, m, k, x) \subseteq DOMAIN m.locals
  BY DEF LeftN, LeftL
<1> QED
  BY <1>1, CountType

(* Two databases with the same addresses have the same left.               *)
LEMMA SameLeft ==
    ASSUME NEW m \in HelloMessage, NEW d, NEW r, NEW k
    PROVE  /\ (\A a \in Addrs : r.na[a].neigh = d.na[a].neigh)
              => \A n : LeftN(r, m, k, n) = LeftN(d, m, k, n)
           /\ (\A a \in Addrs : r.la[m.if][a] = d.la[m.if][a])
              => \A l : LeftL(r, m, k, l) = LeftL(d, m, k, l)
<1>1. \A j \in DOMAIN m.locals : m.locals[j][1] \in Addrs
  BY DEF HelloMessage
<1> QED
  BY <1>1 DEF LeftN, LeftL

(* Removing a link takes its addresses with its count.                     *)
LEMMA LinksRemoveBalanced ==
    ASSUME NEW d \in DbType, NEW m \in HelloMessage, NEW k, CountedL(d, m, k), NEW ls
    PROVE  LET r == LinksRemove(d, ls)
           IN  /\ CountedL(r, m, k)
               /\ \A own, l : OldLinksGone(d, m.if, own, l) => OldLinksGone(r, m.if, own, l)
<1> DEFINE r == LinksRemove(d, ls)
<1>1. /\ \A l \in LinkSlots : r.ln[l] = IF l \in ls THEN FreeLink ELSE d.ln[l]
      /\ \A i \in Ifs, a \in Addrs :
           r.la[i][a] = IF d.la[i][a] \in ls THEN NoSlot ELSE d.la[i][a]
  BY LinksRemoveValue
<1>2. m.if \in Ifs /\ \A j \in DOMAIN m.locals : m.locals[j][1] \in Addrs
  BY DEF HelloMessage
<1> HIDE DEF r
<1>3. \A l \in Links(r) : l \in Links(d) /\ l \notin ls /\ r.ln[l] = d.ln[l]
  BY <1>1 DEF Links, FreeLink
<1>4. ASSUME NEW l \in LinksOn(r, m.if)
      PROVE  r.ln[l].process_count = Cardinality(LeftL(r, m, k, l))
  <2>1. l \in LinksOn(d, m.if) /\ l \notin ls /\ r.ln[l] = d.ln[l] /\ l \in LinkSlots
    BY <1>3 DEF LinksOn, Links
  <2>2. LeftL(r, m, k, l) = LeftL(d, m, k, l)
    BY <1>1, <1>2, <2>1, NoSlotFree DEF LeftL
  <2> QED
    BY <2>1, <2>2 DEF CountedL
<1>5. CountedL(r, m, k)
  BY <1>4 DEF CountedL
<1>6. ASSUME NEW own, NEW l, OldLinksGone(d, m.if, own, l)
      PROVE  OldLinksGone(r, m.if, own, l)
  BY <1>3, <1>6 DEF OldLinksGone, LinksOn
<1> QED
  BY <1>5, <1>6 DEF r

(* And so does removing a neighbor.                                        *)
LEMMA NeighborRemoveBalanced ==
    ASSUME NEW d \in DbType, NEW m \in HelloMessage, NEW k, CountedL(d, m, k),
           CountedN(d, m, k), NEW n \in NeighSlots
    PROVE  LET r == NeighborRemove(d, n)
           IN  /\ CountedL(r, m, k) /\ CountedN(r, m, k)
               /\ \A own, l : OldLinksGone(d, m.if, own, l) => OldLinksGone(r, m.if, own, l)
<1> DEFINE r == NeighborRemove(d, n)
           e == LinksRemove(d, LinksOf(d, n))
<1>1. /\ r.nb = [d.nb EXCEPT ![n] = FreeNeigh]
      /\ \A a \in Addrs :
           r.na[a] = IF d.na[a].neigh = n THEN NoNaddr ELSE d.na[a]
  BY NeighborRemoveValue
<1>2. \A j \in DOMAIN m.locals : m.locals[j][1] \in Addrs
  BY DEF HelloMessage
<1>3. r.ln = e.ln /\ r.la = e.la
  <2>1. e \in DbType
    BY LinksRemoveValue
  <2>2. r = [e EXCEPT !.nb[n] = FreeNeigh,
               !.na = [a \in Addrs |-> IF @[a].neigh = n THEN NoNaddr ELSE @[a]]]
    BY DEF NeighborRemove
  <2> HIDE DEF e, r
  <2> QED
    BY <2>1, <2>2 DEF DbType
<1>4. /\ CountedL(e, m, k)
      /\ \A own, l : OldLinksGone(d, m.if, own, l) => OldLinksGone(e, m.if, own, l)
  BY LinksRemoveBalanced
<1> HIDE DEF e, r
<1>5. CountedL(r, m, k)
  BY <1>3, <1>4 DEF CountedL, LeftL, LinksOn, Links
<1>8. ASSUME NEW own, NEW l, OldLinksGone(d, m.if, own, l)
      PROVE  OldLinksGone(r, m.if, own, l)
  BY <1>3, <1>4, <1>8 DEF OldLinksGone, LinksOn, Links
<1>6. ASSUME NEW p \in NeighSlots
      PROVE  r.nb[p].process_count = Cardinality(LeftN(r, m, k, p))
  <2>1. CASE p = n
    <3>1. LeftN(r, m, k, p) = {}
      BY <1>1, <1>2, <2>1, NoSlotFree DEF LeftN, NoNaddr
    <3>2. r.nb[p].process_count = 0
      BY <1>1, <2>1, DbFields DEF FreeNeigh
    <3> QED
      BY <3>1, <3>2, FS_EmptySet
  <2>2. CASE p /= n
    <3>1. LeftN(r, m, k, p) = LeftN(d, m, k, p)
      BY <1>1, <1>2, <2>2, NoSlotFree DEF LeftN, NoNaddr
    <3>2. r.nb[p] = d.nb[p]
      BY <1>1, <2>2, DbFields
    <3> QED
      BY <3>1, <3>2 DEF CountedN
  <2> QED
    BY <2>1, <2>2
<1>7. CountedN(r, m, k)
  BY <1>6 DEF CountedN
<1> QED
  BY <1>5, <1>7, <1>8 DEF r

(* _pass2_process_localif, first half: one link address is processed.      *)
LEMMA ProcessLinkAddrBalanced ==
    ASSUME NEW c, NEW m, NEW own, NEW k \in 1 .. Len(m.locals), NEW a,
           WellFormed(m), Working(c, m), ~c.bad, a = m.locals[k][1],
           m.locals[k][2] = "THIS", LinksLeft(c.db, m, k - 1, own, c.link)
    PROVE  LET r == ProcessLinkAddr(c, m.if, a)
           IN  /\ LinksLeft(r.db, m, k, own, c.link)
               /\ r.db.nb = c.db.nb /\ r.db.na = c.db.na
<1> DEFINE i == m.if
           l == c.db.la[i][a]
           moved == [c.db EXCEPT !.la[i][a] = c.link]
           counted == [moved EXCEPT !.ln[l].process_count = @ - 1]
           done == counted.ln[l].process_count = 0
           d == IF l /= c.link /\ done THEN LinksRemove(counted, {l}) ELSE counted
           r == ProcessLinkAddr(c, i, a)
<1>00. CountedL(c.db, m, k - 1) /\ OldLinksGone(c.db, m.if, own, c.link)
  BY DEF LinksLeft
<1>0. /\ c \in CtxType /\ WorkingDb(c.db, c.neigh, c.link, i) /\ i \in Ifs
      /\ m \in HelloMessage
  BY DEF Working, WorkingDb, HelloMessage, WellFormed
<1>01. \A j \in DOMAIN m.locals : m.locals[j][1] \in Addrs
  BY <1>0 DEF HelloMessage
<1>02. a \in Addrs
  BY <1>0 DEF HelloMessage
<1>1. /\ Structure(moved) /\ moved.nb = c.db.nb /\ moved.ln = c.db.ln /\ moved.na = c.db.na
      /\ \A j \in Ifs, b \in Addrs :
           moved.la[j][b] = IF j = i /\ b = a THEN c.link ELSE c.db.la[j][b]
  <2>1. Structure(c.db) /\ c.link \in LinksOn(c.db, i) /\ i \in Ifs
    BY <1>0 DEF WorkingDb
  <2> DEFINE dd == c.db
             ll == c.link
             e == [dd EXCEPT !.la[i][a] = ll]
  <2>2. moved = e
    OBVIOUS
  <2>4. e = [dd EXCEPT !.la[i][a] = ll]
    OBVIOUS
  <2> HIDE DEF i, dd, ll, moved, e
  <2>3. /\ Structure(e) /\ e.nb = dd.nb /\ e.ln = dd.ln /\ e.na = dd.na
        /\ \A j \in Ifs, b \in Addrs : e.la[j][b] = IF j = i /\ b = a THEN ll ELSE dd.la[j][b]
    <3>1. Structure(dd) /\ ll \in LinksOn(dd, i)
      BY <2>1 DEF dd, ll
    <3> QED
      BY <1>02, <2>1, <2>4, <3>1, LinkAddrMove
  <2> QED
    BY <2>2, <2>3 DEF dd, ll
<1>2. r.db = IF l = NoSlot THEN moved ELSE d
  <2>1. r = IF l = NoSlot THEN [c EXCEPT !.db = moved]
            ELSE [c EXCEPT !.markL = c.markL \ {a}, !.db = d]
    BY <1>0 DEF ProcessLinkAddr, CtxType
  <2> HIDE DEF r, d, moved, l
  <2> QED
    BY <1>0, <2>1 DEF CtxType
<1>3. l \in LinksOn(c.db, i) \cup {NoSlot}
  BY <1>0, <1>02 DEF WorkingDb, Structure, Pointers
<1> HIDE DEF moved, r
<1>31. LinksOn(moved, i) = LinksOn(c.db, i) /\ Links(moved) = Links(c.db)
  BY <1>1 DEF LinksOn, Links
<1>4. ASSUME NEW x \in LinksOn(c.db, i)
      PROVE  /\ Cardinality(LeftL(moved, m, k, x)) =
                  c.db.ln[x].process_count - (IF x = l THEN 1 ELSE 0)
             /\ c.db.ln[x].process_count \in Int
  <2>1. /\ LeftL(c.db, m, k, x) = LeftL(c.db, m, k - 1, x) \ {k}
        /\ k \in LeftL(c.db, m, k - 1, x) <=>
             (m.locals[k][2] = "THIS" /\ c.db.la[m.if][m.locals[k][1]] = x)
    <3>1. Len(m.locals) \in Nat /\ DOMAIN m.locals = 1 .. Len(m.locals)
      BY <1>0 DEF HelloMessage
    <3> QED
      BY <3>1 DEF LeftL
  <2>7. \A j \in DOMAIN m.locals : j > k => m.locals[j][1] /= a
    BY LaterDiffers
  <2>2. LeftL(moved, m, k, x) = LeftL(c.db, m, k, x)
    BY <1>0, <1>01, <1>1, <2>7 DEF LeftL
  <2>3. /\ IsFiniteSet(LeftL(c.db, m, k - 1, x))
        /\ Cardinality(LeftL(c.db, m, k - 1, x)) \in Nat
    BY <1>0, LeftFinite
  <2>4. c.db.ln[x].process_count = Cardinality(LeftL(c.db, m, k - 1, x))
    BY <1>00 DEF CountedL, i
  <2>5. Cardinality(LeftL(c.db, m, k - 1, x) \ {k}) =
          IF k \in LeftL(c.db, m, k - 1, x) THEN Cardinality(LeftL(c.db, m, k - 1, x)) - 1
          ELSE Cardinality(LeftL(c.db, m, k - 1, x))
    BY <2>3, FS_RemoveElement
  <2>6. k \in LeftL(c.db, m, k - 1, x) <=> x = l
    BY <2>1
  <2> HIDE DEF l
  <2> QED
    BY <2>1, <2>2, <2>3, <2>4, <2>5, <2>6
<1> HIDE DEF l, i
<1>5. CASE l = NoSlot
  <2>1. \A x \in LinksOn(c.db, i) : x /= l
    BY <1>5, NoSlotFree DEF LinksOn, Links
  <2>2. CountedL(moved, m, k)
    BY <1>1, <1>31, <1>4, <2>1 DEF CountedL, i
  <2>3. OldLinksGone(moved, i, own, c.link)
    BY <1>00, <1>1, <1>31 DEF OldLinksGone, i
  <2> QED
    BY <1>1, <1>2, <1>5, <2>2, <2>3 DEF r, i, LinksLeft
<1>6. CASE l /= NoSlot
  <2>1. l \in LinkSlots /\ moved \in DbType /\ l \in LinksOn(moved, i)
    BY <1>1, <1>3, <1>31, <1>6 DEF Structure, LinksOn, Links
  <2>2. /\ counted \in DbType /\ Shape(moved, counted)
        /\ counted.nb = moved.nb /\ counted.na = moved.na
        /\ \A x \in LinkSlots : counted.ln[x].process_count =
             moved.ln[x].process_count - (IF x = l THEN 1 ELSE 0)
    BY <2>1, LinkCountDown
  <2> HIDE DEF counted
  <2>4. /\ Links(counted) = Links(c.db) /\ LinksOn(counted, i) = LinksOn(c.db, i)
        /\ LinksOn(c.db, i) \subseteq LinkSlots
    <3>1. Links(counted) = Links(moved) /\ LinksOn(counted, i) = LinksOn(moved, i)
      BY <2>2, ShapeSets
    <3>2. LinksOn(c.db, i) \subseteq LinkSlots
      BY DEF LinksOn, Links
    <3> QED
      BY <1>31, <3>1, <3>2
  <2>3. CountedL(counted, m, k)
    <3>1. \A x : LeftL(counted, m, k, x) = LeftL(moved, m, k, x)
      BY <2>2 DEF Shape, LeftL
    <3> QED
      BY <1>1, <1>4, <2>2, <2>4, <3>1 DEF CountedL, i
  <2>5. \A x \in own \ {c.link} : (x \in Links(counted) /\ x /= l)
          => x \in LinksOn(counted, i) /\ counted.ln[x].process_count > 0
    <3>1. \A x \in LinksOn(c.db, i) \ {l} :
            counted.ln[x].process_count = c.db.ln[x].process_count
      BY <1>1, <1>4, <2>2, <2>4
    <3> QED
      BY <1>00, <2>4, <3>1 DEF OldLinksGone, i
  <2>6. /\ CountedL(d, m, k) /\ d.nb = counted.nb /\ d.na = counted.na
        /\ OldLinksGone(d, i, own, c.link)
    <3>1. CASE l /= c.link /\ done
      <4>1. d = LinksRemove(counted, {l})
        BY <3>1
      <4>2. /\ CountedL(d, m, k) /\ d.nb = counted.nb /\ d.na = counted.na
            /\ \A x \in LinkSlots : d.ln[x] = IF x \in {l} THEN FreeLink ELSE counted.ln[x]
        BY <1>0, <2>2, <2>3, <4>1, LinksRemoveBalanced, LinksRemoveValue
      <4> HIDE DEF d
      <4>3. \A x \in Links(d) : x \in Links(counted) /\ x /= l /\ d.ln[x] = counted.ln[x]
        BY <4>2 DEF Links, FreeLink
      <4> QED
        BY <2>5, <4>2, <4>3 DEF OldLinksGone, LinksOn
    <3>2. CASE l = c.link \/ ~done
      <4>1. d = counted
        BY <3>2
      <4> HIDE DEF d
      <4>2. Cardinality(LeftL(counted, m, k, l)) \in Nat
        BY <1>0, LeftFinite
      <4>3. counted.ln[l].process_count = Cardinality(LeftL(counted, m, k, l))
        BY <1>31, <2>1, <2>3, <2>4 DEF CountedL, i
      <4>4. l /= c.link => counted.ln[l].process_count > 0
        BY <3>2, <4>2, <4>3
      <4>5. l \in LinksOn(counted, i)
        BY <1>31, <2>1, <2>4
      <4> QED
        BY <2>3, <2>5, <4>1, <4>4, <4>5 DEF OldLinksGone
    <3> QED
      BY <3>1, <3>2
  <2> HIDE DEF d
  <2> QED
    BY <1>1, <1>2, <1>6, <2>2, <2>6 DEF r, i, LinksLeft
<1> QED
  BY <1>5, <1>6

(* And the second half: one neighbor address.                              *)
LEMMA ProcessNeighAddrBalanced ==
    ASSUME NEW c, NEW m, NEW own, NEW ownL, NEW k \in 1 .. Len(m.locals), NEW a,
           WellFormed(m), Working(c, m), ~c.bad, a = m.locals[k][1],
           CountedN(c.db, m, k - 1), CountedL(c.db, m, k), OldGone(c.db, own, c.neigh),
           OldLinksGone(c.db, m.if, ownL, c.link)
    PROVE  LET r == ProcessNeighAddr(c, a)
           IN  /\ CountedN(r.db, m, k) /\ CountedL(r.db, m, k)
               /\ OldGone(r.db, own, c.neigh) /\ OldLinksGone(r.db, m.if, ownL, c.link)
<1> DEFINE n == c.db.na[a].neigh
           moved == [c.db EXCEPT !.na[a] = [neigh |-> c.neigh, lost |-> Off]]
           counted == [moved EXCEPT !.nb[n].process_count = @ - 1]
           freed == n /= c.neigh /\ counted.nb[n].process_count = 0
           d == IF freed THEN NeighborRemove(counted, n) ELSE counted
           bad == c.bad \/ (freed /\ c.link \in LinksOf(counted, n))
           r == ProcessNeighAddr(c, a)
<1>0. /\ c \in CtxType /\ WorkingDb(c.db, c.neigh, c.link, m.if)
      /\ m \in HelloMessage
  BY DEF Working, WorkingDb, WellFormed
<1>01. \A j \in DOMAIN m.locals : m.locals[j][1] \in Addrs
  BY <1>0 DEF HelloMessage
<1>02. a \in Addrs
  BY <1>0 DEF HelloMessage
<1>1. /\ Structure(moved) /\ moved.nb = c.db.nb /\ moved.ln = c.db.ln /\ moved.la = c.db.la
      /\ \A b \in Addrs : moved.na[b].neigh = IF b = a THEN c.neigh ELSE c.db.na[b].neigh
  <2> DEFINE e == c.db
             p == c.neigh
  <2>1. Structure(e) /\ p \in Neighs(e)
    BY <1>0 DEF WorkingDb
  <2> HIDE DEF e, p
  <2>2. LET x == [e EXCEPT !.na[a] = [neigh |-> p, lost |-> Off]]
        IN  /\ Structure(x) /\ x.nb = e.nb /\ x.ln = e.ln /\ x.la = e.la
            /\ \A b \in Addrs : x.na[b].neigh = IF b = a THEN p ELSE e.na[b].neigh
    BY <1>02, <2>1, NaddrMove, ZenonT(30)
  <2> QED
    BY <2>2 DEF e, p
<1>2. r.db = IF n = NoSlot THEN moved ELSE d
  <2>1. r = IF n = NoSlot THEN [c EXCEPT !.db = moved]
            ELSE [c EXCEPT !.markN = c.markN \ {a}, !.db = d, !.bad = bad]
    BY <1>0 DEF ProcessNeighAddr, CtxType
  <2>2. \A x, s, b : /\ [c EXCEPT !.db = x].db = x
                     /\ [c EXCEPT !.markN = s, !.db = x, !.bad = b].db = x
    BY <1>0 DEF CtxType
  <2> HIDE DEF r, d, moved, n, bad
  <2> QED
    BY <2>1, <2>2
<1>3. n \in NeighSlots \cup {NoSlot}
  <2>1. c.db.na[a] \in NaddrType
    BY <1>0, <1>02, DbFields DEF WorkingDb, Structure
  <2> QED
    BY <2>1 DEF NaddrType
<1> HIDE DEF moved, r, bad
<1>4. ASSUME NEW x \in NeighSlots
      PROVE  /\ Cardinality(LeftN(moved, m, k, x)) =
                  c.db.nb[x].process_count - (IF x = n THEN 1 ELSE 0)
             /\ c.db.nb[x].process_count \in Int
  <2>1. /\ LeftN(c.db, m, k, x) = LeftN(c.db, m, k - 1, x) \ {k}
        /\ k \in LeftN(c.db, m, k - 1, x) <=> c.db.na[m.locals[k][1]].neigh = x
    <3>1. Len(m.locals) \in Nat /\ DOMAIN m.locals = 1 .. Len(m.locals)
      BY <1>0 DEF HelloMessage
    <3> QED
      BY <3>1 DEF LeftN
  <2>7. \A j \in DOMAIN m.locals : j > k => m.locals[j][1] /= a
    BY LaterDiffers
  <2>2. LeftN(moved, m, k, x) = LeftN(c.db, m, k, x)
    BY <1>01, <1>1, <2>7 DEF LeftN
  <2>3. /\ IsFiniteSet(LeftN(c.db, m, k - 1, x))
        /\ Cardinality(LeftN(c.db, m, k - 1, x)) \in Nat
    BY <1>0, LeftFinite
  <2>4. c.db.nb[x].process_count = Cardinality(LeftN(c.db, m, k - 1, x))
    BY DEF CountedN
  <2>5. Cardinality(LeftN(c.db, m, k - 1, x) \ {k}) =
          IF k \in LeftN(c.db, m, k - 1, x) THEN Cardinality(LeftN(c.db, m, k - 1, x)) - 1
          ELSE Cardinality(LeftN(c.db, m, k - 1, x))
    BY <2>3, FS_RemoveElement
  <2>6. k \in LeftN(c.db, m, k - 1, x) <=> x = n
    BY <2>1
  <2> HIDE DEF n
  <2> QED
    BY <2>1, <2>2, <2>3, <2>4, <2>5, <2>6
<1> HIDE DEF n
<1>41. \A x : LeftL(moved, m, k, x) = LeftL(c.db, m, k, x)
  BY <1>1 DEF LeftL
<1>42. CountedL(moved, m, k) /\ OldLinksGone(moved, m.if, ownL, c.link)
  BY <1>1, <1>41 DEF CountedL, OldLinksGone, LinksOn, Links
<1>5. CASE n = NoSlot
  <2>1. CountedN(moved, m, k)
    BY <1>1, <1>4, <1>5, NoSlotFree DEF CountedN
  <2>2. OldGone(moved, own, c.neigh)
    BY <1>1 DEF OldGone, Neighs
  <2> QED
    BY <1>2, <1>5, <1>42, <2>1, <2>2 DEF r
<1>6. CASE n /= NoSlot
  <2>1. n \in NeighSlots /\ moved \in DbType
    BY <1>1, <1>3, <1>6 DEF Structure
  <2>2. /\ counted \in DbType /\ Shape(moved, counted)
        /\ counted.ln = moved.ln /\ counted.na = moved.na
        /\ \A x \in NeighSlots : counted.nb[x].process_count =
             moved.nb[x].process_count - (IF x = n THEN 1 ELSE 0)
    BY <2>1, NeighCountDown
  <2> HIDE DEF counted
  <2>3. CountedN(counted, m, k)
    <3>1. \A x : LeftN(counted, m, k, x) = LeftN(moved, m, k, x)
      BY <2>2 DEF LeftN
    <3> QED
      BY <1>1, <1>4, <2>2, <3>1 DEF CountedN
  <2>4. CountedL(counted, m, k) /\ OldLinksGone(counted, m.if, ownL, c.link)
    <3>1. \A x : LeftL(counted, m, k, x) = LeftL(moved, m, k, x)
      BY <2>2 DEF Shape, LeftL
    <3> QED
      BY <1>42, <2>2, <3>1 DEF CountedL, OldLinksGone, LinksOn, Links
  <2>5. CountedN(d, m, k) /\ CountedL(d, m, k) /\ OldLinksGone(d, m.if, ownL, c.link)
    BY <1>0, <2>1, <2>2, <2>3, <2>4, NeighborRemoveBalanced
  <2>6. \A x \in NeighSlots : counted.nb[x].process_count \in Nat
    <3>1. \A x \in NeighSlots : Cardinality(LeftN(counted, m, k, x)) \in Nat
      BY <1>0, LeftFinite
    <3> QED
      BY <2>3, <3>1 DEF CountedN
  <2>7. \A p \in own \ {c.neigh} : (p \in Neighs(counted) /\ p /= n)
                                   => counted.nb[p].process_count > 0
    <3>1. Neighs(counted) = Neighs(c.db)
      BY <1>1, <2>2 DEF Shape, Neighs
    <3>2. \A p \in NeighSlots : p /= n =>
            counted.nb[p].process_count = c.db.nb[p].process_count
      BY <1>1, <1>4, <2>2
    <3> QED
      BY <3>1, <3>2 DEF OldGone, Neighs
  <2>8. OldGone(d, own, c.neigh)
    <3>1. CASE freed
      <4>1. /\ d.nb = [counted.nb EXCEPT ![n] = FreeNeigh]
        BY <2>1, <2>2, <3>1, NeighborRemoveValue
      <4> HIDE DEF d
      <4>2. \A p \in NeighSlots : d.nb[p] = IF p = n THEN FreeNeigh ELSE counted.nb[p]
        BY <2>2, <4>1, DbFields
      <4> QED
        BY <2>7, <4>2 DEF OldGone, Neighs, FreeNeigh
    <3>2. CASE ~freed
      <4>1. n /= c.neigh => counted.nb[n].process_count > 0
        BY <2>1, <2>6, <3>2
      <4> QED
        BY <2>7, <3>2, <4>1 DEF OldGone
    <3> QED
      BY <3>1, <3>2
  <2> HIDE DEF d
  <2> QED
    BY <1>2, <1>6, <2>5, <2>8 DEF r
<1> QED
  BY <1>5, <1>6

(* Both halves of one step of the loop.                                    *)
LEMMA ProcessLocalIfBalanced ==
    ASSUME NEW c, NEW m, WellFormed(m), Working(c, m), NEW ownN, NEW ownL,
           NEW k \in 1 .. Len(m.locals), NEW a, a = m.locals[k][1],
           Balanced(c, m, k - 1, ownN, ownL)
    PROVE  Balanced(ProcessLocalIf(c, m, a, m.locals[k][2]), m, k, ownN, ownL)
<1>0. m \in HelloMessage /\ a \in Addrs
  BY DEF WellFormed, HelloMessage
<1>1. CASE c.bad
  BY <1>1 DEF ProcessLocalIf, Balanced
<1>2. CASE ~c.bad
  <2> DEFINE e == IF m.locals[k][2] = "THIS" THEN ProcessLinkAddr(c, m.if, a) ELSE c
             r == ProcessNeighAddr(e, a)
  <2>1. Working(e, m) /\ ~e.bad /\ e.neigh = c.neigh /\ e.link = c.link
    BY <1>0, <1>2, ProcessLinkAddrWorking
  <2>2. /\ CountedN(c.db, m, k - 1) /\ CountedL(c.db, m, k - 1)
        /\ OldGone(c.db, ownN, c.neigh) /\ OldLinksGone(c.db, m.if, ownL, c.link)
    BY <1>2 DEF Balanced
  <2>3. /\ CountedN(e.db, m, k - 1) /\ CountedL(e.db, m, k)
        /\ OldGone(e.db, ownN, e.neigh) /\ OldLinksGone(e.db, m.if, ownL, e.link)
    <3>1. CASE m.locals[k][2] = "THIS"
      <4>1. /\ CountedL(e.db, m, k) /\ OldLinksGone(e.db, m.if, ownL, c.link)
            /\ e.db.nb = c.db.nb /\ e.db.na = c.db.na
        <5>1. e = ProcessLinkAddr(c, m.if, a)
          BY <3>1
        <5>2. LinksLeft(c.db, m, k - 1, ownL, c.link)
          BY <2>2 DEF LinksLeft
        <5> HIDE DEF e
        <5>3. /\ LinksLeft(e.db, m, k, ownL, c.link)
              /\ e.db.nb = c.db.nb /\ e.db.na = c.db.na
          BY <1>2, <3>1, <5>1, <5>2, ProcessLinkAddrBalanced
        <5> QED
          BY <5>3 DEF LinksLeft
      <4> HIDE DEF e
      <4> QED
        BY <2>1, <2>2, <4>1 DEF CountedN, LeftN, OldGone, Neighs
    <3>2. CASE m.locals[k][2] /= "THIS"
      <4>1. \A l : LeftL(c.db, m, k, l) = LeftL(c.db, m, k - 1, l)
        <5>1. Len(m.locals) \in Nat /\ DOMAIN m.locals = 1 .. Len(m.locals)
          BY <1>0 DEF HelloMessage
        <5> QED
          BY <3>2, <5>1 DEF LeftL
      <4> QED
        BY <2>2, <3>2, <4>1 DEF CountedL
    <3> QED
      BY <3>1, <3>2
  <2>4. ProcessLocalIf(c, m, a, m.locals[k][2]) = r
    BY <1>2 DEF ProcessLocalIf
  <2> HIDE DEF e
  <2>5. /\ CountedN(r.db, m, k) /\ CountedL(r.db, m, k)
        /\ OldGone(r.db, ownN, e.neigh) /\ OldLinksGone(r.db, m.if, ownL, e.link)
    BY <2>1, <2>3, ProcessNeighAddrBalanced
  <2>6. r.neigh = e.neigh /\ r.link = e.link
    BY <1>0, <2>1, ProcessNeighAddrWorking
  <2> HIDE DEF r
  <2> QED
    BY <2>4, <2>5, <2>6 DEF Balanced
<1> QED
  BY <1>1, <1>2

(* All of them: no count is left over.                                     *)
LEMMA Pass2LocalsBalanced ==
    ASSUME NEW c, NEW m, WellFormed(m), Working(c, m), NEW ownN, NEW ownL,
           Balanced(c, m, 0, ownN, ownL)
    PROVE  Balanced(Pass2Locals(c, m), m, Len(m.locals), ownN, ownL)
<1> DEFINE N == Len(m.locals)
<1>1. m \in HelloMessage /\ N \in Nat
  BY DEF WellFormed, HelloMessage
<1>2. PICK h : /\ h[0] = c /\ h[N] = Pass2Locals(c, m)
               /\ \A k \in 0 .. N :
                    Working(h[k], m) /\ h[k].neigh = c.neigh /\ h[k].link = c.link
               /\ \A k \in 1 .. N :
                    h[k] = ProcessLocalIf(h[k - 1], m, m.locals[k][1], m.locals[k][2])
  BY <1>1, Pass2LocalsRuns
<1> DEFINE P == {k \in Nat : k <= N => Balanced(h[k], m, k, ownN, ownL)}
<1>3. 0 \in P
  BY <1>2
<1>4. ASSUME NEW k \in Nat, k \in P
      PROVE  k + 1 \in P
  <2> SUFFICES ASSUME k + 1 <= N
               PROVE  Balanced(h[k + 1], m, k + 1, ownN, ownL)
    OBVIOUS
  <2>1. /\ k + 1 \in 1 .. N /\ (k + 1) - 1 = k /\ k \in 0 .. N
        /\ Balanced(h[k], m, k, ownN, ownL)
    BY <1>1, <1>4
  <2> DEFINE j == k + 1
  <2>2. /\ Balanced(h[k], m, j - 1, ownN, ownL) /\ Working(h[k], m) /\ j \in 1 .. Len(m.locals)
        /\ h[j] = ProcessLocalIf(h[k], m, m.locals[j][1], m.locals[j][2])
    BY <1>2, <2>1
  <2> HIDE DEF j
  <2>3. Balanced(h[j], m, j, ownN, ownL)
    BY <2>2, ProcessLocalIfBalanced
  <2> QED
    BY <2>3 DEF j
<1>5. Nat \subseteq P
  <2> HIDE DEF P
  <2> QED
    BY <1>3, <1>4, Induction
<1> QED
  BY <1>1, <1>2, <1>5
-----------------------------------------------------------------------------
(* Before the loop: every address of the HELLO is counted, and belongs to  *)
(* whom it belonged to before the HELLO.                                   *)
Fresh(c, m, d) ==
    /\ CountedN(c.db, m, 0) /\ CountedL(c.db, m, 0)
    /\ \A a \in Addrs : c.db.na[a].neigh = d.na[a].neigh
    /\ c.db.la = d.la

(* _cb_addresstlvs_pass1.                                                  *)
LEMMA Pass1Fresh ==
    ASSUME NEW d, DbInv(d), NEW m \in HelloMessage
    PROVE  Fresh(Pass1(d, m), m, d)
<1> DEFINE e == CountAddresses(d, m)
<1>1. d \in DbType
  BY DEF DbInv, Structure
<1>2. /\ Shape(d, e) /\ e.na = d.na
      /\ \A n \in NeighSlots : e.nb[n].process_count = CountN(d, m, n)
      /\ \A l \in LinkSlots :
           l \in LinksOn(d, m.if) => e.ln[l].process_count = CountL(d, m, l)
  BY <1>1, CountAddressesValue
<1>3. Pass1(d, m).db = e
  BY DEF Pass1
<1> HIDE DEF e
<1>4. /\ \A n : LeftN(e, m, 0, n) = LeftN(d, m, 0, n)
      /\ \A l : LeftL(e, m, 0, l) = LeftL(d, m, 0, l)
  BY <1>2 DEF Shape, LeftN, LeftL
<1>5. /\ \A n : CountN(d, m, n) = Cardinality(LeftN(d, m, 0, n))
      /\ \A l : CountL(d, m, l) = Cardinality(LeftL(d, m, 0, l))
  <2>1. DOMAIN m.locals = 1 .. Len(m.locals) /\ Len(m.locals) \in Nat
    BY DEF HelloMessage
  <2>2. ASSUME NEW n
        PROVE  LeftN(d, m, 0, n) = {j \in DOMAIN m.locals : d.na[m.locals[j][1]].neigh = n}
    BY <2>1 DEF LeftN
  <2>3. ASSUME NEW l
        PROVE  LeftL(d, m, 0, l) = {j \in DOMAIN m.locals :
                                      /\ m.locals[j][2] = "THIS"
                                      /\ d.la[m.if][m.locals[j][1]] = l}
    BY <2>1 DEF LeftL
  <2> QED
    BY <2>2, <2>3 DEF CountN, CountL
<1>6. LinksOn(e, m.if) = LinksOn(d, m.if) /\ LinksOn(d, m.if) \subseteq LinkSlots
  <2>1. LinksOn(e, m.if) = LinksOn(d, m.if)
    BY <1>2, ShapeSets
  <2> QED
    BY <2>1 DEF LinksOn, Links
<1>7. CountedN(e, m, 0) /\ CountedL(e, m, 0)
  BY <1>2, <1>4, <1>5, <1>6 DEF CountedN, CountedL
<1> QED
  BY <1>2, <1>3, <1>7 DEF Fresh, Shape

(* The counts are those of a database with the same addresses.             *)
LEMMA SameFresh ==
    ASSUME NEW m \in HelloMessage, NEW e, NEW r,
           CountedN(e, m, 0), CountedL(e, m, 0),
           \A a \in Addrs : r.na[a].neigh = e.na[a].neigh, r.la = e.la,
           \A n \in NeighSlots : \/ r.nb[n].process_count = e.nb[n].process_count
                                 \/ r.nb[n].process_count = 0 /\ LeftN(e, m, 0, n) = {},
           \A l \in LinksOn(r, m.if) :
             \/ l \in LinksOn(e, m.if) /\ r.ln[l].process_count = e.ln[l].process_count
             \/ r.ln[l].process_count = 0 /\ LeftL(e, m, 0, l) = {}
    PROVE  CountedN(r, m, 0) /\ CountedL(r, m, 0)
<1>1. /\ \A n : LeftN(r, m, 0, n) = LeftN(e, m, 0, n)
      /\ \A l : LeftL(r, m, 0, l) = LeftL(e, m, 0, l)
  <2>1. \A a \in Addrs : r.la[m.if][a] = e.la[m.if][a]
    OBVIOUS
  <2>2. \A a \in Addrs : r.na[a].neigh = e.na[a].neigh
    OBVIOUS
  <2>3. \A n : LeftN(r, m, 0, n) = LeftN(e, m, 0, n)
    BY <2>2, SameLeft
  <2>4. \A l : LeftL(r, m, 0, l) = LeftL(e, m, 0, l)
    BY <2>1, SameLeft
  <2> QED
    BY <2>3, <2>4
<1>2. Cardinality({}) = 0
  BY FS_EmptySet
<1> QED
  BY <1>1, <1>2 DEF CountedN, CountedL

(* _handle_originator.                                                     *)
LEMMA HandleOriginatorFresh ==
    ASSUME NEW c, NEW m \in HelloMessage, Searching(c, m), NEW d, Fresh(c, m, d)
    PROVE  Fresh(HandleOriginator(c, m), m, d)
<1> DEFINE r == HandleOriginator(c, m)
           n == NeighByOriginator(c.db, m.orig)
           e == SetOriginator(c.db, n, NoOriginator)
<1>0. c \in CtxType /\ Structure(c.db)
  BY DEF Searching, DbInv
<1>1. n \in Neighs(c.db) \cup {NoSlot}
  BY <1>0, NeighByOriginatorValue
<1>2. \/ r.db = c.db
      \/ n /= NoSlot /\ r.db = e
  <2>1. \/ r = c
        \/ r = [c EXCEPT !.neigh = n]
        \/ n /= NoSlot /\ r = [c EXCEPT !.db = e]
    BY DEF HandleOriginator
  <2> HIDE DEF r, n, e
  <2> QED
    BY <1>0, <2>1 DEF CtxType
<1> HIDE DEF n, r
<1>3. CASE r.db = c.db
  BY <1>3 DEF Fresh, r
<1>4. CASE n /= NoSlot /\ r.db = e
  <2>1. n \in Neighs(c.db)
    BY <1>1, <1>4
  <2>2. /\ e.ln = c.db.ln /\ e.na = c.db.na /\ e.la = c.db.la
        /\ \A p \in NeighSlots : e.nb[p].process_count = c.db.nb[p].process_count
    BY <1>0, <2>1, SetOriginatorStructure
  <2> HIDE DEF e
  <2>4. LinksOn(e, m.if) = LinksOn(c.db, m.if)
    BY <2>2 DEF LinksOn, Links
  <2>3. CountedN(e, m, 0) /\ CountedL(e, m, 0)
    BY <2>2, <2>4, SameFresh DEF Fresh
  <2> QED
    BY <1>4, <2>2, <2>3 DEF Fresh, r
<1> QED
  BY <1>2, <1>3, <1>4

(* A new object has no address yet.                                        *)
LEMMA NewObjectLeft ==
    ASSUME NEW d, Structure(d), NEW m \in HelloMessage
    PROVE  /\ \A n \in FreeNeighSlots(d) : LeftN(d, m, 0, n) = {}
           /\ \A l \in FreeLinkSlots(d) : LeftL(d, m, 0, l) = {}
<1>1. m.if \in Ifs /\ \A j \in DOMAIN m.locals : m.locals[j][1] \in Addrs
  BY DEF HelloMessage
<1>2. \A n \in FreeNeighSlots(d) : n /= NoSlot /\ n \notin Neighs(d)
  BY NoSlotFree DEF FreeNeighSlots
<1>3. \A l \in FreeLinkSlots(d) : l /= NoSlot /\ l \notin Links(d)
  BY NoSlotFree DEF FreeLinkSlots
<1>4. ASSUME NEW n \in FreeNeighSlots(d), NEW j \in LeftN(d, m, 0, n)
      PROVE  FALSE
  BY <1>1, <1>2, <1>4 DEF LeftN, Structure, Pointers
<1>5. ASSUME NEW l \in FreeLinkSlots(d), NEW j \in LeftL(d, m, 0, l)
      PROVE  FALSE
  BY <1>1, <1>3, <1>5 DEF LeftL, Structure, Pointers, LinksOn
<1> QED
  BY <1>4, <1>5

(* The neighbor of the message, found or created.                          *)
LEMMA TakeNeighborFresh ==
    ASSUME NEW c, NEW m \in HelloMessage, Searching(c, m), FreeNeighSlots(c.db) /= {},
           NEW d, Fresh(c, m, d)
    PROVE  Fresh(TakeNeighbor(c), m, d)
<1> DEFINE n == Smallest(FreeNeighSlots(c.db))
           e == NeighborAdd(c.db, n)
           r == TakeNeighbor(c)
<1>0. c \in CtxType /\ Structure(c.db)
  BY DEF Searching, DbInv
<1>1. CASE c.neigh = NoSlot
  <2>1. FreeNeighSlots(c.db) \subseteq NeighSlots
    BY DEF FreeNeighSlots
  <2>2. n \in FreeNeighSlots(c.db)
    BY <2>1, NhdpDbAssumption, SmallestValue
  <2>3. r.db = e
    BY <1>0, <1>1 DEF TakeNeighbor, CtxType
  <2> HIDE DEF n
  <2>4. /\ e.ln = c.db.ln /\ e.na = c.db.na /\ e.la = c.db.la
        /\ \A p \in NeighSlots \ {n} : e.nb[p] = c.db.nb[p]
        /\ e.nb[n] = [FreeNeigh EXCEPT !.used = TRUE]
    BY <1>0, <2>2, NeighborAddStructure
  <2> HIDE DEF e, r
  <2>5. e.nb[n].process_count = 0 /\ LeftN(c.db, m, 0, n) = {}
    BY <1>0, <2>2, <2>4, NewObjectLeft DEF FreeNeigh
  <2>6. \A p \in NeighSlots :
          \/ e.nb[p].process_count = c.db.nb[p].process_count
          \/ e.nb[p].process_count = 0 /\ LeftN(c.db, m, 0, p) = {}
    BY <2>4, <2>5
  <2>8. LinksOn(e, m.if) = LinksOn(c.db, m.if)
    BY <2>4 DEF LinksOn, Links
  <2>7. CountedN(e, m, 0) /\ CountedL(e, m, 0)
    BY <2>4, <2>6, <2>8, SameFresh DEF Fresh
  <2> QED
    BY <2>3, <2>4, <2>7 DEF Fresh, r
<1>2. CASE c.neigh /= NoSlot
  <2>1. r.db = c.db
    BY <1>0, <1>2 DEF TakeNeighbor, CtxType
  <2> QED
    BY <2>1 DEF Fresh
<1> QED
  BY <1>1, <1>2

(* And the link.                                                           *)
LEMMA TakeLinkFresh ==
    ASSUME NEW c, NEW m \in HelloMessage, Searching(c, m), c.neigh \in Neighs(c.db),
           FreeLinkSlots(c.db) /= {}, NEW d, Fresh(c, m, d)
    PROVE  Fresh(TakeLink(c, m), m, d)
<1> DEFINE l == Smallest(FreeLinkSlots(c.db))
           e == LinkAdd(c.db, l, c.neigh, m.if)
           r == TakeLink(c, m)
<1>0. c \in CtxType /\ Structure(c.db) /\ m.if \in Ifs
  BY DEF Searching, DbInv, HelloMessage
<1>1. CASE c.link = NoSlot
  <2>1. FreeLinkSlots(c.db) \subseteq LinkSlots
    BY DEF FreeLinkSlots
  <2>2. l \in FreeLinkSlots(c.db)
    BY <2>1, NhdpDbAssumption, SmallestValue
  <2>3. r.db = e
    BY <1>0, <1>1 DEF TakeLink, CtxType
  <2> HIDE DEF l
  <2>4. /\ e.nb = c.db.nb /\ e.na = c.db.na /\ e.la = c.db.la
        /\ \A k \in LinkSlots \ {l} : e.ln[k] = c.db.ln[k]
        /\ e.ln[l].process_count = 0
    BY <1>0, <2>2, LinkAddStructure
  <2> HIDE DEF e, r
  <2>5. LeftL(c.db, m, 0, l) = {}
    BY <1>0, <2>2, NewObjectLeft
  <2>6. \A k \in LinksOn(e, m.if) :
          \/ k \in LinksOn(c.db, m.if) /\ e.ln[k].process_count = c.db.ln[k].process_count
          \/ e.ln[k].process_count = 0 /\ LeftL(c.db, m, 0, k) = {}
    BY <2>4, <2>5 DEF LinksOn, Links
  <2>7. CountedN(e, m, 0) /\ CountedL(e, m, 0)
    BY <2>4, <2>6, SameFresh DEF Fresh
  <2> QED
    BY <2>3, <2>4, <2>7 DEF Fresh, r
<1>2. CASE c.link /= NoSlot
  <2>1. r.db = c.db
    BY <1>0, <1>2 DEF TakeLink, CtxType
  <2> QED
    BY <2>1 DEF Fresh
<1> QED
  BY <1>1, <1>2

(* The context at the start of the loop.                                   *)
Begun(d, m) == TakeLink(TakeNeighbor(HandleOriginator(Pass1(d, m), m)), m)

(* It is one to work on, and every address is counted.                     *)
LEMMA BegunFresh ==
    ASSUME NEW d, DbInv(d), RoomForHello(d), NEW m \in HelloMessage
    PROVE  /\ Working(Begun(d, m), m) /\ ~Begun(d, m).bad
           /\ Fresh(Begun(d, m), m, d)
<1> DEFINE c1 == Pass1(d, m)
           c2 == HandleOriginator(c1, m)
           c3 == TakeNeighbor(c2)
           c4 == TakeLink(c3, m)
<1>1. /\ Searching(c1, m) /\ Neighs(c1.db) = Neighs(d) /\ Links(c1.db) = Links(d)
      /\ Fresh(c1, m, d)
  BY Pass1Searching, Pass1Fresh
<1> HIDE DEF c1
<1>2. /\ Searching(c2, m) /\ Neighs(c2.db) = Neighs(d) /\ Links(c2.db) = Links(d)
      /\ Fresh(c2, m, d)
  BY <1>1, HandleOriginatorSearching, HandleOriginatorFresh
<1>3. FreeNeighSlots(c2.db) /= {}
  BY <1>2 DEF RoomForHello, FreeNeighSlots
<1> HIDE DEF c2
<1>4. /\ Searching(c3, m) /\ c3.neigh \in Neighs(c3.db) /\ Links(c3.db) = Links(d)
      /\ Fresh(c3, m, d)
  BY <1>2, <1>3, TakeNeighborSearching, TakeNeighborFresh
<1>5. FreeLinkSlots(c3.db) /= {}
  BY <1>4 DEF RoomForHello, FreeLinkSlots
<1> HIDE DEF c3
<1>6. Working(c4, m) /\ ~c4.bad /\ Fresh(c4, m, d)
  BY <1>4, <1>5, TakeLinkWorking, TakeLinkFresh
<1>7. Begun(d, m) = c4
  BY DEF Begun, c3, c2, c1
<1> HIDE DEF c4
<1> QED
  BY <1>6, <1>7

(* So the invariant of the loop holds when it starts.                      *)
LEMMA FreshBalanced ==
    ASSUME NEW c, NEW m \in HelloMessage, NEW d, Fresh(c, m, d), Working(c, m), ~c.bad
    PROVE  Balanced(c, m, 0, OwningNeighs(d, m), OwningLinks(d, m))
<1>1. \A j \in DOMAIN m.locals : m.locals[j][1] \in Addrs
  BY DEF HelloMessage
<1>2. DOMAIN m.locals = 1 .. Len(m.locals) /\ Len(m.locals) \in Nat /\ m.if \in Ifs
  BY DEF HelloMessage
<1>3. ASSUME NEW p \in OwningNeighs(d, m), p \in Neighs(c.db)
      PROVE  c.db.nb[p].process_count > 0
  <2>1. PICK a \in LocalAddrs(m) : d.na[a].neigh = p
    BY DEF OwningNeighs
  <2>2. PICK j \in DOMAIN m.locals : m.locals[j][1] = a
    BY <2>1 DEF LocalAddrs
  <2>3. j \in LeftN(c.db, m, 0, p)
    BY <1>1, <1>2, <2>1, <2>2 DEF Fresh, LeftN
  <2>4. IsFiniteSet(LeftN(c.db, m, 0, p)) /\ Cardinality(LeftN(c.db, m, 0, p)) \in Nat
    BY LeftFinite
  <2>5. Cardinality(LeftN(c.db, m, 0, p)) /= 0
    BY <2>3, <2>4, FS_EmptySet
  <2>6. c.db.nb[p].process_count = Cardinality(LeftN(c.db, m, 0, p))
    BY <1>3 DEF Fresh, CountedN, Neighs
  <2> QED
    BY <2>4, <2>5, <2>6
<1>4. ASSUME NEW k \in OwningLinks(d, m), k \in Links(c.db)
      PROVE  k \in LinksOn(c.db, m.if) /\ c.db.ln[k].process_count > 0
  <2>1. PICK a \in ThisIf(m) : d.la[m.if][a] = k /\ k /= NoSlot
    BY DEF OwningLinks
  <2>2. PICK j \in DOMAIN m.locals : m.locals[j][1] = a /\ m.locals[j][2] = "THIS"
    BY <2>1 DEF ThisIf
  <2>3. j \in LeftL(c.db, m, 0, k)
    BY <1>2, <2>1, <2>2 DEF Fresh, LeftL
  <2>4. k \in LinksOn(c.db, m.if)
    BY <1>1, <1>2, <2>1, <2>2 DEF Fresh, Working, Structure, Pointers
  <2>5. IsFiniteSet(LeftL(c.db, m, 0, k)) /\ Cardinality(LeftL(c.db, m, 0, k)) \in Nat
    BY LeftFinite
  <2>6. Cardinality(LeftL(c.db, m, 0, k)) /= 0
    BY <2>3, <2>5, FS_EmptySet
  <2>7. c.db.ln[k].process_count = Cardinality(LeftL(c.db, m, 0, k))
    BY <2>4 DEF Fresh, CountedL
  <2> QED
    BY <2>4, <2>5, <2>6, <2>7
<1> QED
  BY <1>3, <1>4 DEF Balanced, Fresh, OldGone, OldLinksGone

(* A HELLO that is processed to its end leaves none of the old neighbors   *)
(* and links of its addresses.                                             *)
LEMMA ProcessedOwners ==
    ASSUME NEW d, DbInv(d), RoomForHello(d), NEW m, WellFormed(m)
    PROVE  LET c == Processed(d, m)
           IN  ~c.bad => /\ OwningNeighs(d, m) \cap Neighs(c.db) \subseteq {c.neigh}
                         /\ OwningLinks(d, m) \cap Links(c.db) \subseteq {c.link}
<1> DEFINE ownN == OwningNeighs(d, m)
           ownL == OwningLinks(d, m)
           b == Begun(d, m)
           c6 == Pass2Locals(b, m)
           c7 == Pass2TwoHop(c6, m)
           c8 == Pass2End(c7, m)
<1>0. m \in HelloMessage
  BY DEF WellFormed
<1>1. Processed(d, m) = c8
  BY DEF Processed, AfterPass1, DefaultThisIf, WellFormed, Begun
<1>2. Working(b, m) /\ ~b.bad /\ Fresh(b, m, d)
  BY <1>0, BegunFresh
<1> HIDE DEF b
<1>3. Balanced(b, m, 0, ownN, ownL)
  BY <1>0, <1>2, FreshBalanced
<1> HIDE DEF ownN, ownL
<1>4. Working(c6, m) /\ Balanced(c6, m, Len(m.locals), ownN, ownL)
  BY <1>0, <1>2, <1>3, Pass2LocalsWorking, Pass2LocalsBalanced
<1> HIDE DEF c6
<1>5. ASSUME ~c6.bad
      PROVE  /\ \A p \in ownN \ {c6.neigh} : p \notin Neighs(c6.db)
             /\ \A k \in ownL \ {c6.link} : k \notin Links(c6.db)
  <2>1. /\ CountedN(c6.db, m, Len(m.locals)) /\ CountedL(c6.db, m, Len(m.locals))
        /\ OldGone(c6.db, ownN, c6.neigh) /\ OldLinksGone(c6.db, m.if, ownL, c6.link)
    BY <1>4, <1>5 DEF Balanced
  <2>2. Len(m.locals) \in Nat /\ DOMAIN m.locals = 1 .. Len(m.locals)
    BY <1>0 DEF HelloMessage
  <2>3. /\ \A n : LeftN(c6.db, m, Len(m.locals), n) = {}
        /\ \A l : LeftL(c6.db, m, Len(m.locals), l) = {}
    BY <2>2 DEF LeftN, LeftL
  <2>4. /\ \A n \in Neighs(c6.db) : c6.db.nb[n].process_count = 0
        /\ \A l \in LinksOn(c6.db, m.if) : c6.db.ln[l].process_count = 0
    BY <2>1, <2>3, FS_EmptySet DEF CountedN, CountedL, Neighs
  <2> QED
    BY <2>1, <2>4 DEF OldGone, OldLinksGone
<1>6. ASSUME ~c8.bad
      PROVE  /\ ownN \cap Neighs(c8.db) \subseteq {c8.neigh}
             /\ ownL \cap Links(c8.db) \subseteq {c8.link}
  <2>1. Working(c7, m)
    BY <1>0, <1>4, Pass2TwoHopWorking
  <2>2. c8.bad = c7.bad /\ c8.neigh = c7.neigh /\ c8.link = c7.link
    <3> HIDE DEF c7
    <3> QED
      BY <1>0, <2>1, Pass2EndInv
  <2>3. ~c6.bad
    BY <1>6, <2>2 DEF Pass2TwoHop
  <2>4. /\ ~c7.bad /\ c7.neigh = c6.neigh /\ c7.link = c6.link
        /\ Shape(c6.db, c7.db)
    BY <1>0, <1>4, <2>3, Pass2TwoHopValue
  <2> HIDE DEF c7
  <2>5. Neighs(c8.db) = Neighs(c7.db) /\ Links(c8.db) = Links(c7.db)
    BY <1>0, <2>1, <2>4, Pass2EndObjects
  <2>6. Neighs(c7.db) = Neighs(c6.db) /\ Links(c7.db) = Links(c6.db)
    BY <2>4, ShapeSets
  <2> HIDE DEF c8
  <2> QED
    BY <1>5, <2>2, <2>3, <2>4, <2>5, <2>6
<1> HIDE DEF c8
<1> QED
  BY <1>1, <1>6 DEF ownN, ownL

(* After a HELLO whose addresses are distinct, the neighbors and links     *)
(* that owned one of its addresses are gone, all but its sender and the    *)
(* link to it: the counts that decide on it are right whatever moves, and  *)
(* whatever the HELLOs before it were.                                     *)
THEOREM OldOwnersGone == WellFormedHellos => (Spec => OldOwnersRemoved)
<1> DEFINE Removed ==
      \A m \in Hellos :
        Hello(m) => \/ undefined'
                    \/ /\ OwningNeighs(db, m) \cap Neighs(db') \subseteq {current'.neigh}
                       /\ OwningLinks(db, m) \cap Links(db') \subseteq {current'.link}
<1>1. Init => DbInv(db)
  BY InitInv
<1>2. DbInv(db) /\ [Next]_vars => DbInv(db)'
  BY NextInv
<1>3. ASSUME WellFormedHellos
      PROVE  DbInv(db) => Removed
  <2> SUFFICES ASSUME DbInv(db), NEW m \in Hellos, Hello(m), ~undefined'
               PROVE  /\ OwningNeighs(db, m) \cap Neighs(db') \subseteq {current'.neigh}
                      /\ OwningLinks(db, m) \cap Links(db') \subseteq {current'.link}
    OBVIOUS
  <2>1. WellFormed(m) /\ RoomForHello(db)
    BY <1>3 DEF Hello, WellFormedHellos
  <2>2. LET c == Processed(db, m)
        IN  /\ ~c.bad /\ db' = c.db
            /\ current' = [link |-> c.link, neigh |-> c.neigh]
    BY DEF Hello
  <2> QED
    BY <2>1, <2>2, ProcessedOwners
<1>4. ASSUME WellFormedHellos
      PROVE  DbInv(db) /\ [Next]_vars => [Removed]_vars
  BY <1>3, <1>4
<1>5. ASSUME WellFormedHellos
      PROVE  Spec => [][Removed]_vars
  <2> HIDE DEF Removed
  <2> QED
    BY <1>1, <1>2, <1>4, <1>5, PTL DEF Spec
<1> QED
  BY <1>5 DEF OldOwnersRemoved
-----------------------------------------------------------------------------
(* SymmetricCount, NeighborHasLink and SymmetricHasAddress of any database.*)
SymLinks(d, n) == {l \in LinksOf(d, n) : d.ln[l].status = "SYMMETRIC"}
SymCount(d) == \A n \in Neighs(d) : d.nb[n].symmetric = Cardinality(SymLinks(d, n))
HasLinks(d) == \A n \in Neighs(d) : LinksOf(d, n) /= {}
Reach(d) ==
    \A n \in Neighs(d) :
      d.nb[n].symmetric > 0 => \E a \in NaddrsOf(d, n) : ~Active(d.na[a].lost)
Usable(d) == SymCount(d) /\ HasLinks(d) /\ Reach(d)

(* Who the routers say the neighbors are; the addresses of a neighbor and  *)
(* of the links to it are those of this router, and the addresses of one   *)
(* of its interfaces belong to one link, its home among them.              *)
Names(d) == [n \in NeighSlots |-> d.nb[n].originator]
Named(d) == \A n \in Neighs(d) : d.nb[n].originator /= NoOriginator
Owned(d, owner, name) ==
    /\ \A a \in Addrs : d.na[a].neigh /= NoSlot => owner[a] = name[d.na[a].neigh]
    /\ \A i \in Ifs, a \in Addrs :
         d.la[i][a] /= NoSlot => owner[a] = name[d.ln[d.la[i][a]].neigh]
Homed(d, home) ==
    \A i \in Ifs, a \in Addrs :
      d.la[i][a] /= NoSlot => d.la[i][home[i][a]] = d.la[i][a]

(* The inductive invariant, when the HELLOs are steady.                    *)
Steady(d, owner, home) ==
    /\ DbInv(d) /\ Usable(d)
    /\ Named(d) /\ Owned(d, owner, Names(d)) /\ Homed(d, home)

OwnerType == [Addrs -> Originators]
HomeType == [Ifs -> [Addrs -> Addrs]]

(* The links to a neighbor are finitely many.                              *)
LEMMA SymLinksFinite ==
    ASSUME NEW d, NEW n
    PROVE  /\ IsFiniteSet(LinksOf(d, n)) /\ IsFiniteSet(SymLinks(d, n))
           /\ Cardinality(SymLinks(d, n)) \in Nat
<1>1. SymLinks(d, n) \subseteq LinkSlots /\ LinksOf(d, n) \subseteq LinkSlots
  BY DEF SymLinks, LinksOf, Links
<1>2. IsFiniteSet(SymLinks(d, n)) /\ IsFiniteSet(LinksOf(d, n))
  BY <1>1, NhdpDbAssumption, FS_Subset
<1> QED
  BY <1>2, FS_CardinalityType

(* What changes neither the objects nor the status and the symmetric       *)
(* counters, and takes no address that is there away, leaves the neighbors *)
(* usable.                                                                 *)
LEMMA SameUsable ==
    ASSUME NEW d, NEW r, Shape(d, r), Usable(d),
           \A n \in NeighSlots : r.nb[n].symmetric = d.nb[n].symmetric,
           \A l \in LinkSlots : r.ln[l].status = d.ln[l].status,
           \A a \in Addrs : ~Active(d.na[a].lost) => ~Active(r.na[a].lost)
    PROVE  Usable(r)
<1>1. /\ Neighs(r) = Neighs(d)
      /\ \A n : LinksOf(r, n) = LinksOf(d, n) /\ NaddrsOf(r, n) = NaddrsOf(d, n)
  BY ShapeSets
<1>2. \A n : SymLinks(r, n) = SymLinks(d, n)
  BY <1>1 DEF SymLinks, LinksOf, Links
<1>3. SymCount(r) /\ HasLinks(r)
  BY <1>1, <1>2 DEF Usable, SymCount, HasLinks, Neighs
<1>4. Reach(r)
  BY <1>1 DEF Usable, Reach, Neighs, NaddrsOf
<1> QED
  BY <1>3, <1>4 DEF Usable

(* The same objects have the same owners.                                  *)
LEMMA SameOwned ==
    ASSUME NEW d, Structure(d), NEW r, Shape(d, r), NEW owner, NEW home \in HomeType
    PROVE  /\ Named(d) => Named(r)
           /\ \A name : Owned(d, owner, name) => Owned(r, owner, name)
           /\ Names(r) = Names(d)
           /\ Homed(d, home) => Homed(r, home)
<1>1. Named(d) => Named(r)
  BY DEF Shape, Named, Neighs
<1>2. \A i \in Ifs, a \in Addrs : d.la[i][a] /= NoSlot => d.la[i][a] \in LinkSlots
  BY DEF Structure, Pointers, LinksOn, Links
<1>3. ASSUME NEW name, Owned(d, owner, name)
      PROVE  Owned(r, owner, name)
  BY <1>2, <1>3 DEF Shape, Owned
<1>4. Names(r) = Names(d)
  BY DEF Shape, Names
<1>5. Homed(d, home) => Homed(r, home)
  BY DEF Shape, Homed
<1> QED
  BY <1>1, <1>3, <1>4, <1>5

(* So they are as steady.                                                  *)
LEMMA SameSteady ==
    ASSUME NEW d, NEW r, NEW owner, NEW home \in HomeType, Steady(d, owner, home),
           Shape(d, r), DbInv(r), Usable(r)
    PROVE  Steady(r, owner, home)
<1>1. Structure(d)
  BY DEF Steady, DbInv
<1> QED
  BY <1>1, SameOwned DEF Steady

(* nhdp_db_link_update_status counts the link that becomes symmetric, and  *)
(* takes the addresses of its neighbor back if there are any.              *)
LEMMA UpdateStatusUsable ==
    ASSUME NEW d, Structure(d), Usable(d), NEW l \in Links(d),
           IsSymmetric(d, l) => WasSymmetric(d, l) \/ NaddrsOf(d, d.ln[l].neigh) /= {}
    PROVE  Shape(d, UpdateStatus(d, l)) /\ Usable(UpdateStatus(d, l))
<1> DEFINE r == UpdateStatus(d, l)
           n == d.ln[l].neigh
<1>1. /\ d \in DbType /\ l \in LinkSlots /\ n \in Neighs(d) /\ n \in NeighSlots
  BY DEF Structure, Pointers, Links, Neighs
<1>2. /\ \A p \in NeighSlots :
           /\ SameNeigh(d, r, p)
           /\ r.nb[p].symmetric = d.nb[p].symmetric
                + (IF p = n THEN One(IsSymmetric(d, l)) - One(WasSymmetric(d, l)) ELSE 0)
      /\ r.la = d.la
      /\ \A k \in LinkSlots : SameEnds(d, r, k)
      /\ \A k \in LinkSlots \ {l} : r.ln[k] = d.ln[k]
      /\ r.ln[l].status = CalculateStatus(d.ln[l])
      /\ \A a \in Addrs : r.na[a].neigh = d.na[a].neigh /\ r.na[a].lost = LostNow(d, l, a)
  BY <1>1, UpdateStatusValue
<1> HIDE DEF r
<1>3. Shape(d, r)
  BY <1>2 DEF Shape, SameNeigh, SameEnds
<1>4. /\ Neighs(r) = Neighs(d) /\ Links(r) = Links(d)
      /\ \A p : LinksOf(r, p) = LinksOf(d, p) /\ NaddrsOf(r, p) = NaddrsOf(d, p)
  BY <1>3, ShapeSets
<1>5. \A p \in NeighSlots : d.nb[p].symmetric \in Int
  BY <1>1, DbFields DEF NeighType
<1>6. SymCount(r)
  <2> SUFFICES ASSUME NEW p \in Neighs(r)
               PROVE  r.nb[p].symmetric = Cardinality(SymLinks(r, p))
    BY DEF SymCount
  <2>1. p \in Neighs(d) /\ p \in NeighSlots
    BY <1>4 DEF Neighs
  <2>2. /\ IsFiniteSet(SymLinks(d, p)) /\ Cardinality(SymLinks(d, p)) \in Nat
        /\ d.nb[p].symmetric = Cardinality(SymLinks(d, p))
    BY <2>1, SymLinksFinite DEF Usable, SymCount
  <2>3. CASE p /= n
    <3>1. \A k \in LinksOf(d, p) : r.ln[k] = d.ln[k]
      BY <1>2, <2>3 DEF LinksOf, Links
    <3>2. SymLinks(r, p) = SymLinks(d, p)
      BY <1>4, <3>1 DEF SymLinks
    <3> QED
      BY <1>2, <1>5, <2>1, <2>2, <2>3, <3>2
  <2>4. CASE p = n /\ IsSymmetric(d, l)
    <3>1. SymLinks(r, p) = SymLinks(d, p) \cup {l}
      BY <1>1, <1>2, <1>4, <2>4 DEF SymLinks, LinksOf, Links, IsSymmetric
    <3>2. WasSymmetric(d, l) <=> l \in SymLinks(d, p)
      BY <1>1, <2>4 DEF SymLinks, LinksOf, WasSymmetric
    <3>3. Cardinality(SymLinks(r, p)) = Cardinality(SymLinks(d, p)) + 1 - One(WasSymmetric(d, l))
      <4>1. Cardinality(SymLinks(r, p)) = IF l \in SymLinks(d, p) THEN Cardinality(SymLinks(d, p))
                                          ELSE Cardinality(SymLinks(d, p)) + 1
        BY <2>2, <3>1, FS_AddElement
      <4> QED
        BY <2>2, <3>2, <4>1 DEF One
    <3> QED
      BY <1>2, <2>1, <2>2, <2>4, <3>3 DEF One
  <2>5. CASE p = n /\ ~IsSymmetric(d, l)
    <3>1. SymLinks(r, p) = SymLinks(d, p) \ {l}
      BY <1>1, <1>2, <1>4, <2>5 DEF SymLinks, LinksOf, Links, IsSymmetric
    <3>2. WasSymmetric(d, l) <=> l \in SymLinks(d, p)
      BY <1>1, <2>5 DEF SymLinks, LinksOf, WasSymmetric
    <3>3. Cardinality(SymLinks(r, p)) = Cardinality(SymLinks(d, p)) - One(WasSymmetric(d, l))
      <4>1. Cardinality(SymLinks(r, p)) = IF l \in SymLinks(d, p) THEN Cardinality(SymLinks(d, p)) - 1
                                          ELSE Cardinality(SymLinks(d, p))
        BY <2>2, <3>1, FS_RemoveElement
      <4> QED
        BY <2>2, <3>2, <4>1 DEF One
    <3> QED
      BY <1>2, <2>1, <2>2, <2>5, <3>3 DEF One
  <2> QED
    BY <2>3, <2>4, <2>5
<1>7. HasLinks(r)
  BY <1>4 DEF Usable, HasLinks
<1>8. Reach(r)
  <2> SUFFICES ASSUME NEW p \in Neighs(r), r.nb[p].symmetric > 0
               PROVE  \E a \in NaddrsOf(r, p) : ~Active(r.na[a].lost)
    BY DEF Reach
  <2>1. p \in Neighs(d) /\ p \in NeighSlots
    BY <1>4 DEF Neighs
  <2>2. d.nb[p].symmetric \in Nat
    BY <2>1, SymLinksFinite DEF Usable, SymCount
  <2>3. \A a \in NaddrsOf(d, p) : a \in Addrs /\ d.na[a].neigh = p
    BY DEF NaddrsOf
  <2>4. CASE \E a \in NaddrsOf(d, p) : r.na[a].lost = Off
    BY <1>4, <2>4 DEF Active, Off
  <2>5. CASE /\ d.nb[p].symmetric > 0
             /\ \A a \in NaddrsOf(d, p) : r.na[a].lost = d.na[a].lost
    BY <1>4, <2>1, <2>5 DEF Usable, Reach
  <2>6. CASE p /= n
    <3>1. \A a \in NaddrsOf(d, p) : r.na[a].lost = d.na[a].lost
      BY <1>2, <2>3, <2>6 DEF LostNow
    <3>2. r.nb[p].symmetric = d.nb[p].symmetric
      BY <1>2, <1>5, <2>1, <2>6
    <3> QED
      BY <2>5, <3>1, <3>2
  <2>7. CASE p = n /\ (IsSymmetric(d, l) => WasSymmetric(d, l))
    <3>1. r.nb[p].symmetric = d.nb[p].symmetric
            - (IF WasSymmetric(d, l) /\ ~IsSymmetric(d, l) THEN 1 ELSE 0)
      BY <1>2, <1>5, <2>1, <2>7 DEF One
    <3>2. \A a \in NaddrsOf(d, p) : r.na[a].lost = d.na[a].lost
      BY <1>2, <2>2, <2>3, <2>7, <3>1 DEF LostNow
    <3> QED
      BY <2>2, <2>5, <3>1, <3>2
  <2>8. CASE p = n /\ IsSymmetric(d, l) /\ ~WasSymmetric(d, l)
    <3>1. PICK a \in NaddrsOf(d, p) : TRUE
      BY <2>8
    <3>2. CASE d.nb[p].symmetric = 0
      BY <1>2, <2>3, <2>4, <2>8, <3>1, <3>2 DEF LostNow
    <3>3. CASE d.nb[p].symmetric /= 0
      <4>1. \A b \in NaddrsOf(d, p) : r.na[b].lost = d.na[b].lost
        BY <1>2, <2>3, <2>8, <3>3 DEF LostNow
      <4> QED
        BY <2>2, <2>5, <3>3, <4>1
    <3> QED
      BY <3>2, <3>3
  <2> QED
    BY <2>6, <2>7, <2>8
<1> QED
  BY <1>3, <1>6, <1>7, <1>8 DEF Usable, r

(* No neighbor is added and no link becomes symmetric, so that no counter  *)
(* of symmetric links goes up.                                             *)
Calmer(d, r) ==
    /\ Neighs(r) \subseteq Neighs(d)
    /\ \A k \in Links(r) :
         WasSymmetric(r, k) => /\ k \in Links(d) /\ WasSymmetric(d, k)
                               /\ d.ln[k].neigh = r.ln[k].neigh

LEMMA SameCalmer ==
    ASSUME NEW d, NEW r, Shape(d, r),
           \A k \in LinkSlots : r.ln[k].status = "SYMMETRIC" => d.ln[k].status = "SYMMETRIC"
    PROVE  Calmer(d, r)
<1>1. Neighs(r) = Neighs(d) /\ Links(r) = Links(d)
  BY ShapeSets
<1> QED
  BY <1>1 DEF Calmer, WasSymmetric, Shape, Links

LEMMA CalmerCounts ==
    ASSUME NEW d, NEW r, Usable(d), Usable(r), Calmer(d, r), CountersBounded(d)
    PROVE  CountersBounded(r)
<1> SUFFICES ASSUME NEW n \in Neighs(r)
             PROVE  r.nb[n].symmetric \in -MaxCount .. MaxCount
  BY DEF CountersBounded
<1>1. n \in Neighs(d) /\ SymLinks(r, n) \subseteq SymLinks(d, n)
  BY DEF Calmer, SymLinks, LinksOf, WasSymmetric
<1>2. /\ d.nb[n].symmetric = Cardinality(SymLinks(d, n))
      /\ r.nb[n].symmetric = Cardinality(SymLinks(r, n))
      /\ d.nb[n].symmetric \in -MaxCount .. MaxCount
  BY <1>1 DEF Usable, SymCount, CountersBounded
<1>3. IsFiniteSet(SymLinks(d, n)) /\ Cardinality(SymLinks(r, n)) \in Nat
  BY SymLinksFinite
<1>4. Cardinality(SymLinks(r, n)) <= Cardinality(SymLinks(d, n))
  BY <1>1, <1>3, FS_Subset
<1> QED
  BY <1>2, <1>3, <1>4, NhdpAssumption

(* Without interface events the cached status of a link says whether its   *)
(* sym_time runs.                                                          *)
LEMMA CachedSymmetric ==
    ASSUME Unstable = {}, NEW d, DbInv(d), NEW l \in Links(d)
    PROVE  WasSymmetric(d, l) <=> Active(d.ln[l].sym_time)
BY DEF DbInv, LinkFine, Cached, CalculateStatus, WasSymmetric

(* A status update that does not make its link symmetric.                  *)
LEMMA UpdateStatusCalmer ==
    ASSUME NEW d, Structure(d), NEW l \in Links(d), IsSymmetric(d, l) => WasSymmetric(d, l)
    PROVE  \A k \in LinkSlots :
             UpdateStatus(d, l).ln[k].status = "SYMMETRIC" => d.ln[k].status = "SYMMETRIC"
<1>1. d \in DbType /\ l \in LinkSlots /\ d.ln[l].neigh \in NeighSlots
  BY DEF Structure, Pointers, Links, Neighs
<1>2. /\ \A k \in LinkSlots \ {l} : UpdateStatus(d, l).ln[k] = d.ln[k]
      /\ UpdateStatus(d, l).ln[l].status = CalculateStatus(d.ln[l])
  BY <1>1, UpdateStatusValue
<1> QED
  BY <1>2 DEF IsSymmetric, WasSymmetric

(* _cb_link_heard: the link was not symmetric and does not become it.      *)
LEMMA LinkHeardSteady ==
    ASSUME Unstable = {}, NEW d, NEW owner, NEW home \in HomeType, Steady(d, owner, home),
           NEW l \in Links(d), d.ln[l].heard_time = 0
    PROVE  Steady(LinkHeardExpired(d, l), owner, home) /\ Calmer(d, LinkHeardExpired(d, l))
<1> DEFINE e == [d EXCEPT !.ln[l].heard_time = Off]
           r == UpdateStatus(e, l)
<1>1. /\ DbInv(d) /\ Structure(d) /\ d \in DbType /\ l \in LinkSlots
  BY DEF Steady, DbInv, Structure, Links
<1>2. /\ e \in DbType /\ Shape(d, e) /\ e.nb = d.nb /\ e.na = d.na
      /\ \A k \in LinkSlots \ {l} : e.ln[k] = d.ln[k]
      /\ e.ln[l].sym_time = d.ln[l].sym_time
      /\ e.ln[l].status = d.ln[l].status
  <2>1. Off \in Timers
    BY DEF Off, Absent, Timers
  <2> QED
    BY <1>1, <2>1, HeardTimeWrite
<1>3. r = LinkHeardExpired(d, l)
  BY DEF LinkHeardExpired
<1> HIDE DEF e
<1>4. Structure(e) /\ Usable(e) /\ l \in Links(e)
  BY <1>1, <1>2, ShapeStructure, ShapeSets, SameUsable DEF Steady
<1>5. IsSymmetric(e, l) => WasSymmetric(e, l)
  BY <1>1, <1>2, CachedSymmetric DEF IsSymmetric, WasSymmetric, CalculateStatus
<1>6. Shape(e, r) /\ Usable(r)
  BY <1>4, <1>5, UpdateStatusUsable
<1>7. DbInv(r)
  BY <1>1, <1>3, LinkHeardExpiredInv
<1>8. \A k \in LinkSlots : r.ln[k].status = "SYMMETRIC" => d.ln[k].status = "SYMMETRIC"
  BY <1>1, <1>2, <1>4, <1>5, UpdateStatusCalmer DEF WasSymmetric
<1> HIDE DEF r
<1>9. Steady(r, owner, home) /\ Calmer(d, r)
  BY <1>2, <1>6, <1>7, <1>8, ShapeTrans, SameSteady, SameCalmer
<1> QED
  BY <1>3, <1>9

(* _cb_link_symtime                                                        *)
LEMMA LinkSymSteady ==
    ASSUME Unstable = {}, NEW d, NEW owner, NEW home \in HomeType, Steady(d, owner, home),
           NEW l \in Links(d), d.ln[l].sym_time = 0
    PROVE  Steady(LinkSymExpired(d, l), owner, home) /\ Calmer(d, LinkSymExpired(d, l))
<1> DEFINE e == [d EXCEPT !.ln[l].sym_time = Off]
           r == UpdateStatus(e, l)
<1>1. /\ DbInv(d) /\ Structure(d) /\ d \in DbType /\ l \in LinkSlots
  BY DEF Steady, DbInv, Structure, Links
<1>2. /\ e \in DbType /\ Shape(d, e) /\ e.nb = d.nb /\ e.na = d.na
      /\ \A k \in LinkSlots \ {l} : e.ln[k] = d.ln[k]
      /\ e.ln[l].sym_time = Off
      /\ e.ln[l].status = d.ln[l].status
  <2>1. Off \in Timers
    BY DEF Off, Absent, Timers
  <2> QED
    BY <1>1, <2>1, SymTimeWrite
<1>3. r = LinkSymExpired(d, l)
  BY DEF LinkSymExpired
<1> HIDE DEF e
<1>4. Structure(e) /\ Usable(e) /\ l \in Links(e)
  BY <1>1, <1>2, ShapeStructure, ShapeSets, SameUsable DEF Steady
<1>5. ~IsSymmetric(e, l)
  BY <1>2 DEF IsSymmetric, CalculateStatus, Active, Off
<1>6. Shape(e, r) /\ Usable(r)
  BY <1>4, <1>5, UpdateStatusUsable
<1>7. DbInv(r)
  BY <1>1, <1>3, LinkSymExpiredInv
<1>8. \A k \in LinkSlots : r.ln[k].status = "SYMMETRIC" => d.ln[k].status = "SYMMETRIC"
  BY <1>1, <1>2, <1>4, <1>5, UpdateStatusCalmer DEF WasSymmetric
<1> HIDE DEF r
<1>9. Steady(r, owner, home) /\ Calmer(d, r)
  BY <1>2, <1>6, <1>7, <1>8, ShapeTrans, SameSteady, SameCalmer
<1> QED
  BY <1>3, <1>9

(* _cb_l2hop_vtime, and the passing of time.                               *)
LEMMA TwoHopSteady ==
    ASSUME NEW d, NEW owner, NEW home \in HomeType, Steady(d, owner, home),
           NEW l \in Links(d), NEW a \in Addrs
    PROVE  Steady(TwoHopExpired(d, l, a), owner, home) /\ Calmer(d, TwoHopExpired(d, l, a))
<1> DEFINE th == [d.ln[l].twohop EXCEPT ![a] = Absent]
           r == [d EXCEPT !.ln[l].twohop = th]
<1>1. DbInv(d) /\ d \in DbType /\ l \in LinkSlots
  BY DEF Steady, DbInv, Structure, Links
<1>2. th \in [Addrs -> Timers]
  <2>1. d.ln[l].twohop \in [Addrs -> Timers] /\ Absent \in Timers
    BY <1>1, DbFields DEF LinkType, Absent, Timers
  <2> QED
    BY <2>1
<1>3. TwoHopExpired(d, l, a) = r
  BY <1>1 DEF TwoHopExpired, DbType
<1> HIDE DEF th
<1>4. /\ Shape(d, r) /\ r.nb = d.nb /\ r.na = d.na
      /\ \A k \in LinkSlots : r.ln[k].status = d.ln[k].status
  BY <1>1, <1>2, TwoHopUpdate
<1>5. DbInv(r)
  BY <1>1, <1>3, TwoHopExpiredInv
<1> HIDE DEF r
<1>6. Usable(r)
  BY <1>4, SameUsable DEF Steady
<1> QED
  BY <1>3, <1>4, <1>5, <1>6, SameSteady, SameCalmer

(* Time passes; a lost timer that does not run does not start.             *)
LEMMA ElapseDbSteady ==
    ASSUME NEW d, NEW owner, NEW home \in HomeType, Steady(d, owner, home), ~DueTimers(d)
    PROVE  Steady(ElapseDb(d), owner, home) /\ Calmer(d, ElapseDb(d))
<1> DEFINE r == ElapseDb(d)
<1>1. DbInv(d) /\ d \in DbType
  BY DEF Steady, DbInv, Structure
<1>2. /\ Shape(d, r) /\ r.nb = d.nb
      /\ \A l \in LinkSlots : r.ln[l].status = d.ln[l].status
      /\ \A a \in Addrs : r.na[a].lost = Elapse(d.na[a].lost)
  BY <1>1, ElapseDbValue
<1>3. DbInv(r)
  BY <1>1, ElapseDbInv
<1> HIDE DEF r
<1>4. \A a \in Addrs : ~Active(d.na[a].lost) => ~Active(r.na[a].lost)
  <2>1. \A a \in Addrs : d.na[a].lost \in Int
    BY <1>1, DbFields DEF NaddrType
  <2> QED
    BY <1>2, <2>1 DEF Active, Elapse
<1>5. Usable(r)
  BY <1>2, <1>4, SameUsable DEF Steady
<1>6. Steady(r, owner, home) /\ Calmer(d, r)
  BY <1>2, <1>3, <1>5, SameSteady, SameCalmer
<1> QED
  BY <1>6 DEF r

(* _cb_naddr_vtime: the address was lost, so it is none by which a         *)
(* symmetric neighbor can be reached.                                      *)
LEMMA NaddrExpiredSteady ==
    ASSUME NEW d, NEW owner, NEW home \in HomeType, Steady(d, owner, home),
           NEW a \in Addrs, d.na[a].lost = 0
    PROVE  Steady(NaddrExpired(d, a), owner, home) /\ Calmer(d, NaddrExpired(d, a))
<1> DEFINE r == NaddrExpired(d, a)
           na == [d.na EXCEPT ![a] = NoNaddr]
<1>1. DbInv(d) /\ d \in DbType
  BY DEF Steady, DbInv, Structure
<1>2. \A b \in Addrs : na[b] = IF b = a THEN NoNaddr ELSE d.na[b]
  BY <1>1, DbFields
<1>3. r.nb = d.nb /\ r.ln = d.ln /\ r.la = d.la /\ r.na = na
  BY <1>1 DEF NaddrExpired, DbType
<1>4. DbInv(r)
  BY <1>1, NaddrExpiredInv
<1> HIDE DEF r, na
<1>5. /\ Neighs(r) = Neighs(d) /\ Names(r) = Names(d)
      /\ \A n : LinksOf(r, n) = LinksOf(d, n) /\ SymLinks(r, n) = SymLinks(d, n)
  BY <1>3 DEF Neighs, Links, LinksOf, SymLinks, Names
<1>6. SymCount(r) /\ HasLinks(r) /\ Named(r)
  BY <1>3, <1>5 DEF Steady, Usable, SymCount, HasLinks, Named
<1>7. Reach(r)
  <2> SUFFICES ASSUME NEW n \in Neighs(r), r.nb[n].symmetric > 0
               PROVE  \E b \in NaddrsOf(r, n) : ~Active(r.na[b].lost)
    BY DEF Reach
  <2>1. PICK b \in NaddrsOf(d, n) : ~Active(d.na[b].lost)
    BY <1>3, <1>5 DEF Steady, Usable, Reach
  <2>2. b /= a
    BY <2>1 DEF Active
  <2> QED
    BY <1>2, <1>3, <2>1, <2>2 DEF NaddrsOf
<1>8. Owned(r, owner, Names(r))
  BY <1>2, <1>3, <1>5 DEF Steady, Owned, NoNaddr
<1>9. Homed(r, home)
  BY <1>3 DEF Steady, Homed
<1>10. Calmer(d, r)
  BY <1>3 DEF Calmer, Neighs, Links, WasSymmetric
<1> QED
  BY <1>4, <1>6, <1>7, <1>8, <1>9, <1>10 DEF Steady, Usable, r

(* nhdp_db_link_remove of a link that is not symmetric.                    *)
LEMMA LinksRemoveSteady ==
    ASSUME NEW d, Structure(d), NEW owner, NEW home \in HomeType, NEW l \in Links(d),
           ~WasSymmetric(d, l), Usable(d), Named(d), Owned(d, owner, Names(d)), Homed(d, home)
    PROVE  LET r == LinksRemove(d, {l})
           IN  /\ SymCount(r) /\ Reach(r)
               /\ \A p \in Neighs(r) : p /= d.ln[l].neigh => LinksOf(r, p) /= {}
               /\ Named(r) /\ Owned(r, owner, Names(r)) /\ Homed(r, home)
<1> DEFINE r == LinksRemove(d, {l})
<1>1. d \in DbType
  BY DEF Structure
<1>2. /\ r.nb = d.nb /\ r.na = d.na
      /\ \A k \in LinkSlots : r.ln[k] = IF k = l THEN FreeLink ELSE d.ln[k]
      /\ \A i \in Ifs, a \in Addrs :
           r.la[i][a] = IF d.la[i][a] = l THEN NoSlot ELSE d.la[i][a]
  BY <1>1, LinksRemoveValue
<1>3. Links(r) = Links(d) \ {l}
  BY LinksRemoveStructure
<1> HIDE DEF r
<1>4. Neighs(r) = Neighs(d) /\ Names(r) = Names(d) /\ \A n : NaddrsOf(r, n) = NaddrsOf(d, n)
  BY <1>2 DEF Neighs, Names, NaddrsOf
<1>5. \A k \in Links(r) : k \in Links(d) /\ k /= l /\ r.ln[k] = d.ln[k]
  BY <1>2, <1>3 DEF Links
<1>6. \A n : LinksOf(r, n) = LinksOf(d, n) \ {l}
  BY <1>3, <1>5 DEF LinksOf
<1>7. \A n : SymLinks(r, n) = SymLinks(d, n)
  BY <1>5, <1>6 DEF SymLinks, WasSymmetric, LinksOf
<1>8. SymCount(r) /\ Reach(r) /\ Named(r)
  BY <1>2, <1>4, <1>7 DEF Usable, SymCount, Reach, Named
<1>9. ASSUME NEW p \in Neighs(r), p /= d.ln[l].neigh
      PROVE  LinksOf(r, p) /= {}
  BY <1>4, <1>6, <1>9 DEF Usable, HasLinks, LinksOf
<1>10. \A i \in Ifs, a \in Addrs :
         r.la[i][a] /= NoSlot => /\ r.la[i][a] = d.la[i][a]
                                 /\ r.ln[d.la[i][a]] = d.ln[d.la[i][a]]
  <2>1. \A i \in Ifs, a \in Addrs : d.la[i][a] /= NoSlot => d.la[i][a] \in LinkSlots
    BY DEF Structure, Pointers, LinksOn, Links
  <2> QED
    BY <1>2, <2>1
<1>11. Owned(r, owner, Names(r))
  BY <1>2, <1>4, <1>10 DEF Owned
<1>12. Homed(r, home)
  BY <1>2, <1>10 DEF Homed, HomeType
<1> QED
  BY <1>8, <1>9, <1>11, <1>12 DEF r

(* nhdp_db_neighbor_remove of a neighbor without links.                    *)
LEMMA NeighborRemoveSteady ==
    ASSUME NEW d, Structure(d), NEW owner, NEW home \in HomeType, NEW n \in NeighSlots,
           SymCount(d), Reach(d), Named(d), Owned(d, owner, Names(d)), Homed(d, home),
           \A p \in Neighs(d) : p /= n => LinksOf(d, p) /= {}, LinksOf(d, n) = {}
    PROVE  LET r == NeighborRemove(d, n)
           IN  /\ Usable(r)
               /\ Named(r) /\ Owned(r, owner, Names(r)) /\ Homed(r, home)
<1> DEFINE r == NeighborRemove(d, n)
<1>1. d \in DbType /\ d.nb \in [NeighSlots -> NeighType]
  BY DbFields DEF Structure
<1>2. /\ r.nb = [d.nb EXCEPT ![n] = FreeNeigh]
      /\ \A l \in LinkSlots : r.ln[l] = d.ln[l]
      /\ \A i \in Ifs, a \in Addrs : r.la[i][a] = d.la[i][a]
      /\ \A a \in Addrs : r.na[a] = IF d.na[a].neigh = n THEN NoNaddr ELSE d.na[a]
  BY <1>1, NeighborRemoveValue
<1>3. Neighs(r) = Neighs(d) \ {n} /\ Links(r) = Links(d)
  <2>1. Neighs(r) = Neighs(d) \ {n} /\ Links(r) = Links(d) \ LinksOf(d, n)
    BY NeighborRemoveStructure
  <2> HIDE DEF r
  <2> QED
    BY <2>1
<1> HIDE DEF r
<1>4. \A p \in NeighSlots : p /= n => r.nb[p] = d.nb[p] /\ Names(r)[p] = Names(d)[p]
  BY <1>1, <1>2 DEF Names
<1>5. \A p : LinksOf(r, p) = LinksOf(d, p) /\ SymLinks(r, p) = SymLinks(d, p)
  BY <1>2, <1>3 DEF LinksOf, SymLinks, Links
<1>6. \A p \in Neighs(r) : p \in Neighs(d) /\ p /= n /\ p \in NeighSlots /\ r.nb[p] = d.nb[p]
  BY <1>3, <1>4 DEF Neighs
<1>7. SymCount(r) /\ HasLinks(r) /\ Named(r)
  BY <1>5, <1>6 DEF SymCount, HasLinks, Named
<1>8. Reach(r)
  <2> SUFFICES ASSUME NEW p \in Neighs(r), r.nb[p].symmetric > 0
               PROVE  \E b \in NaddrsOf(r, p) : ~Active(r.na[b].lost)
    BY DEF Reach
  <2>1. PICK b \in NaddrsOf(d, p) : ~Active(d.na[b].lost)
    BY <1>6 DEF Reach
  <2> QED
    BY <1>2, <1>6, <2>1 DEF NaddrsOf
<1>9. Owned(r, owner, Names(r))
  <2>1. ASSUME NEW a \in Addrs, r.na[a].neigh /= NoSlot
        PROVE  owner[a] = Names(r)[r.na[a].neigh]
    <3>1. r.na[a] = d.na[a] /\ d.na[a].neigh /= n
      BY <1>2, <2>1 DEF NoNaddr
    <3>2. d.na[a].neigh \in NeighSlots
      BY <2>1, <3>1 DEF Structure, Pointers, Neighs
    <3> QED
      BY <1>4, <2>1, <3>1, <3>2 DEF Owned
  <2>2. ASSUME NEW i \in Ifs, NEW a \in Addrs, r.la[i][a] /= NoSlot
        PROVE  owner[a] = Names(r)[r.ln[r.la[i][a]].neigh]
    <3>1. r.la[i][a] = d.la[i][a] /\ d.la[i][a] \in Links(d) /\ d.la[i][a] \in LinkSlots
      BY <1>2, <2>2 DEF Structure, Pointers, LinksOn, Links
    <3>2. d.ln[d.la[i][a]].neigh /= n /\ d.ln[d.la[i][a]].neigh \in NeighSlots
      BY <3>1 DEF LinksOf, Structure, Pointers, Neighs
    <3> QED
      BY <1>2, <1>4, <2>2, <3>1, <3>2 DEF Owned
  <2> QED
    BY <2>1, <2>2 DEF Owned
<1>10. Homed(r, home)
  BY <1>2 DEF Homed, HomeType
<1> QED
  BY <1>7, <1>8, <1>9, <1>10 DEF Usable, r

(* _cb_link_vtime: by then the link is not symmetric any more, and the     *)
(* neighbor goes with its last link.                                       *)
LEMMA LinkVtimeSteady ==
    ASSUME Unstable = {}, NEW d, NEW owner, NEW home \in HomeType, Steady(d, owner, home),
           NEW l \in Links(d), d.ln[l].vtime = 0
    PROVE  Steady(LinkVtimeExpired(d, l), owner, home) /\ Calmer(d, LinkVtimeExpired(d, l))
<1> DEFINE n == d.ln[l].neigh
           d1 == [d EXCEPT !.ln[l].vtime = Off]
           d3 == LinksRemove(d1, {l})
           r == LinkVtimeExpired(d, l)
<1>1. /\ DbInv(d) /\ Structure(d) /\ d \in DbType /\ l \in LinkSlots
      /\ n \in Neighs(d) /\ n \in NeighSlots
  BY DEF Steady, DbInv, Structure, Pointers, Links, Neighs
<1>2. /\ d1 \in DbType /\ Shape(d, d1) /\ d1.nb = d.nb /\ d1.na = d.na
      /\ \A k \in LinkSlots \ {l} : d1.ln[k] = d.ln[k]
      /\ d1.ln[l].status = d.ln[l].status
  <2>1. Off \in Timers
    BY DEF Off, Absent, Timers
  <2> QED
    BY <1>1, <2>1, VtimeWrite
<1>3. ~WasSymmetric(d, l)
  <2>1. d.ln[l].sym_time \in Int
    BY <1>1, DbFields DEF LinkType, Timers
  <2>2. ~Active(d.ln[l].sym_time)
    BY <1>1, <2>1 DEF DbInv, LinkFine, Ordered, Active
  <2> QED
    BY <1>1, <2>2, CachedSymmetric
<1>4. r = IF LinksOf(d3, n) = {} THEN NeighborRemove(d3, n) ELSE d3
  BY <1>2, <1>3 DEF LinkVtimeExpired, WasSymmetric
<1>5. DbInv(r)
  BY <1>1, LinkVtimeExpiredInv
<1> HIDE DEF r, d1
<1>6. /\ Structure(d1) /\ l \in Links(d1) /\ ~WasSymmetric(d1, l) /\ Usable(d1)
      /\ Named(d1) /\ Owned(d1, owner, Names(d1)) /\ Homed(d1, home) /\ d1.ln[l].neigh = n
  <2>1. Usable(d1)
    BY <1>2, SameUsable DEF Steady
  <2>2. Structure(d1) /\ l \in Links(d1) /\ d1.ln[l].neigh = n
    BY <1>1, <1>2, ShapeStructure, ShapeSets DEF Shape
  <2>3. Named(d1) /\ Owned(d1, owner, Names(d1)) /\ Homed(d1, home)
    BY <1>1, <1>2, SameOwned DEF Steady
  <2> QED
    BY <1>2, <1>3, <2>1, <2>2, <2>3 DEF WasSymmetric
<1>7. /\ SymCount(d3) /\ Reach(d3)
      /\ \A p \in Neighs(d3) : p /= n => LinksOf(d3, p) /= {}
      /\ Named(d3) /\ Owned(d3, owner, Names(d3)) /\ Homed(d3, home)
  BY <1>6, LinksRemoveSteady
<1>8. /\ Structure(d3) /\ Neighs(d3) = Neighs(d)
      /\ \A k \in Links(d3) : k \in Links(d) /\ k /= l /\ d3.ln[k] = d.ln[k]
  <2>1. /\ Structure(d3) /\ Neighs(d3) = Neighs(d1) /\ Links(d3) = Links(d1) \ {l}
    BY <1>6, LinksRemoveStructure
  <2>2. \A k \in LinkSlots \ {l} : d3.ln[k] = d1.ln[k]
    BY <1>2, LinksRemoveValue
  <2>3. Neighs(d1) = Neighs(d) /\ Links(d1) = Links(d)
    BY <1>2, ShapeSets
  <2> HIDE DEF d3
  <2> QED
    BY <1>2, <2>1, <2>2, <2>3 DEF Links
<1> HIDE DEF d3
<1>11. Calmer(d, d3)
  BY <1>8 DEF Calmer, WasSymmetric
<1>9. CASE LinksOf(d3, n) = {}
  <2>1. /\ Usable(r) /\ Named(r) /\ Owned(r, owner, Names(r)) /\ Homed(r, home)
    BY <1>1, <1>4, <1>7, <1>8, <1>9, NeighborRemoveSteady
  <2>2. Calmer(d, r)
    <3>1. d3 \in DbType /\ r = NeighborRemove(d3, n)
      BY <1>4, <1>8, <1>9 DEF Structure
    <3>2. Neighs(r) \subseteq Neighs(d3) /\ Links(r) \subseteq Links(d3)
      BY <1>1, <1>8, <3>1, NeighborRemoveStructure
    <3>3. \A k \in LinkSlots : r.ln[k] = IF k \in LinksOf(d3, n) THEN FreeLink ELSE d3.ln[k]
      <4> HIDE DEF n
      <4>1. n \in NeighSlots /\ d3 \in DbType
        BY <1>1, <3>1
      <4>2. \A k \in LinkSlots :
              NeighborRemove(d3, n).ln[k]
                = IF k \in LinksOf(d3, n) THEN FreeLink ELSE d3.ln[k]
        BY <4>1, NeighborRemoveValue
      <4> QED
        BY <3>1, <4>2
    <3> QED
      BY <1>8, <1>9, <3>2, <3>3 DEF Calmer, WasSymmetric, Links
  <2> QED
    BY <1>5, <2>1, <2>2 DEF Steady, r
<1>10. CASE LinksOf(d3, n) /= {}
  <2>1. HasLinks(d3) /\ r = d3
    BY <1>4, <1>7, <1>10 DEF HasLinks
  <2> QED
    BY <1>5, <1>7, <1>11, <2>1 DEF Steady, Usable, r
<1> QED
  BY <1>9, <1>10

(* The only element of a set of at most one.                               *)
LEMMA UniqueOfOne ==
    ASSUME NEW S, NEW k \in Nat, S \subseteq {k}
    PROVE  Unique(S) = (IF S = {} THEN NoSlot ELSE k) /\ Cardinality(S) <= 1
<1>1. CASE S = {}
  BY <1>1, FS_EmptySet DEF Unique
<1>2. CASE S /= {}
  <2>0. S = {k}
    BY <1>2
  <2>1. S = {k} /\ Cardinality(S) = 1
    BY <2>0, FS_Singleton
  <2>2. Smallest(S) = k
    BY <2>1, SmallestValue
  <2> QED
    BY <1>2, <2>1, <2>2 DEF Unique
<1> QED
  BY <1>1, <1>2

(* The addresses of a HELLO are addresses.                                 *)
LEMMA HelloAddrs ==
    ASSUME NEW m \in HelloMessage
    PROVE  /\ m.if \in Ifs /\ LocalAddrs(m) \subseteq Addrs /\ TheseIf(m) \subseteq Addrs
           /\ ThisIf(m) \subseteq LocalAddrs(m) /\ ThisIf(m) \subseteq TheseIf(m)
<1>1. /\ m.if \in Ifs /\ m.src \in Addrs
      /\ \A j \in DOMAIN m.locals : m.locals[j][1] \in Addrs
  BY DEF HelloMessage
<1> QED
  BY <1>1 DEF LocalAddrs, ThisIf, TheseIf

(* The addresses of the sender of a HELLO belong to the neighbor with its  *)
(* originator or to none.                                                  *)
LEMMA SenderAddrs ==
    ASSUME NEW d, NEW owner, NEW home \in HomeType, Steady(d, owner, home), NEW o
    PROVE  /\ \A a \in Addrs : owner[a] = o /\ d.na[a].neigh /= NoSlot
                => d.na[a].neigh = NeighByOriginator(d, o)
           /\ \A i \in Ifs, a \in Addrs : owner[a] = o /\ d.la[i][a] /= NoSlot
                => /\ d.la[i][a] \in LinksOn(d, i)
                   /\ d.ln[d.la[i][a]].neigh = NeighByOriginator(d, o)
<1>1. Structure(d) /\ Named(d) /\ Owned(d, owner, Names(d))
  BY DEF Steady, DbInv
<1>2. ASSUME NEW n \in Neighs(d), Names(d)[n] = o
      PROVE  n = NeighByOriginator(d, o)
  <2>1. d.nb[n].originator = o /\ o /= NoOriginator
    BY <1>1, <1>2 DEF Names, Named, Neighs
  <2> QED
    BY <1>1, <2>1, NeighByOriginatorValue
<1>3. ASSUME NEW a \in Addrs, owner[a] = o, d.na[a].neigh /= NoSlot
      PROVE  d.na[a].neigh = NeighByOriginator(d, o)
  BY <1>1, <1>2, <1>3 DEF Structure, Pointers, Owned
<1>4. ASSUME NEW i \in Ifs, NEW a \in Addrs, owner[a] = o, d.la[i][a] /= NoSlot
      PROVE  /\ d.la[i][a] \in LinksOn(d, i)
             /\ d.ln[d.la[i][a]].neigh = NeighByOriginator(d, o)
  <2>1. d.la[i][a] \in LinksOn(d, i)
    BY <1>1, <1>4 DEF Structure, Pointers
  <2>2. d.ln[d.la[i][a]].neigh \in Neighs(d)
    BY <1>1, <2>1 DEF Structure, Pointers, LinksOn
  <2>3. Names(d)[d.ln[d.la[i][a]].neigh] = o
    BY <1>1, <1>4 DEF Owned
  <2> QED
    BY <1>2, <2>1, <2>2, <2>3
<1> QED
  BY <1>3, <1>4

(* So pass 1 finds no conflict: at most one neighbor and at most one link. *)
LEMMA SenderOwners ==
    ASSUME NEW d, NEW owner, NEW home \in HomeType, Steady(d, owner, home),
           NEW m \in HelloMessage, SteadyHello(m, owner, home)
    PROVE  LET n == NeighByOriginator(d, m.orig)
               l == Unique(OwningLinks(d, m))
           IN  /\ n \in NeighSlots \cup {NoSlot}
               /\ OwningNeighs(d, m) \subseteq {n} /\ Unique(OwningNeighs(d, m)) \in {n, NoSlot}
               /\ Cardinality(OwningNeighs(d, m)) <= 1
               /\ \A a \in ThisIf(m) : d.la[m.if][a] \in {NoSlot, l}
               /\ l /= NoSlot => /\ l \in LinksOn(d, m.if) /\ d.ln[l].neigh = n
                                 /\ ThisIf(m) /= {}
<1> DEFINE n == NeighByOriginator(d, m.orig)
           S == OwningLinks(d, m)
<1>1. /\ m.if \in Ifs /\ LocalAddrs(m) \subseteq Addrs /\ ThisIf(m) \subseteq Addrs
      /\ ThisIf(m) \subseteq LocalAddrs(m) /\ ThisIf(m) \subseteq TheseIf(m)
      /\ TheseIf(m) \subseteq Addrs
  BY HelloAddrs
<1>2. \A a \in LocalAddrs(m) \cup TheseIf(m) : owner[a] = m.orig
  BY DEF SteadyHello
<1>3. OwningNeighs(d, m) \subseteq {n}
  BY <1>1, <1>2, SenderAddrs DEF OwningNeighs
<1>4. n \in NeighSlots \cup {NoSlot} /\ n \in Nat
  <2>1. Structure(d)
    BY DEF Steady, DbInv
  <2>2. n \in Neighs(d) \cup {NoSlot}
    BY <2>1, NeighByOriginatorValue
  <2> QED
    BY <2>2, NhdpDbAssumption DEF Neighs, NoSlot
<1>5. Unique(OwningNeighs(d, m)) \in {n, NoSlot} /\ Cardinality(OwningNeighs(d, m)) <= 1
  BY <1>3, <1>4, UniqueOfOne
<1>6. PICK h \in TheseIf(m) : \A a \in TheseIf(m) : home[m.if][a] = h
  BY DEF SteadyHello
<1>7. \A a \in ThisIf(m) : d.la[m.if][a] = NoSlot \/ d.la[m.if][a] = d.la[m.if][h]
  BY <1>1, <1>6 DEF Steady, Homed
<1>8. \A a \in ThisIf(m) : d.la[m.if][a] /= NoSlot =>
        d.la[m.if][a] \in LinksOn(d, m.if) /\ d.ln[d.la[m.if][a]].neigh = n
  BY <1>1, <1>2, SenderAddrs
<1>9. CASE S = {}
  <2>1. Unique(S) = NoSlot
    BY <1>9, UniqueOfOne DEF NoSlot
  <2> QED
    BY <1>3, <1>4, <1>5, <1>9, <2>1 DEF OwningLinks
<1>10. CASE S /= {}
  <2>1. PICK a \in ThisIf(m) : d.la[m.if][a] \in S
    BY <1>10 DEF OwningLinks
  <2>2. d.la[m.if][a] /= NoSlot
    BY <2>1 DEF OwningLinks
  <2>3. S \subseteq {d.la[m.if][a]}
    BY <1>7, <2>1, <2>2 DEF OwningLinks
  <2>4. d.la[m.if][a] \in Nat
    BY <1>8, <2>1, <2>2, NhdpDbAssumption DEF LinksOn, Links
  <2>5. Unique(S) = d.la[m.if][a]
    BY <1>10, <2>3, <2>4, UniqueOfOne
  <2>6. \A b \in ThisIf(m) : d.la[m.if][b] \in {NoSlot, Unique(S)}
    BY <2>3, <2>5 DEF OwningLinks
  <2> QED
    BY <1>3, <1>4, <1>5, <1>8, <2>1, <2>2, <2>5, <2>6
<1> QED
  BY <1>9, <1>10

(* What is found of the sender of a HELLO before anything is created.      *)
Found(c, m, owner, home) ==
    /\ Searching(c, m) /\ Steady(c.db, owner, home)
    /\ c.neigh = NeighByOriginator(c.db, m.orig)
    /\ c.link /= NoSlot => /\ c.neigh /= NoSlot /\ c.db.ln[c.link].neigh = c.neigh
                           /\ ThisIf(m) /= {}
    /\ \A a \in ThisIf(m) : c.db.la[m.if][a] \in {NoSlot, c.link}
    /\ c.markN = {} /\ c.markL = {}

(* _cb_addresstlvs_pass1 and _handle_originator.                           *)
LEMMA SenderFound ==
    ASSUME NEW d, NEW owner, NEW home \in HomeType, Steady(d, owner, home),
           NEW m \in HelloMessage, SteadyHello(m, owner, home)
    PROVE  Found(HandleOriginator(Pass1(d, m), m), m, owner, home)
<1> DEFINE e == CountAddresses(d, m)
           n == NeighByOriginator(e, m.orig)
           l == Unique(OwningLinks(d, m))
           c1 == Pass1(d, m)
           c2 == HandleOriginator(c1, m)
<1>1. DbInv(d) /\ d \in DbType
  BY DEF Steady, DbInv, Structure
<1>2. Searching(c1, m) /\ Searching(c2, m)
  <2>1. Searching(c1, m)
    BY <1>1, Pass1Searching
  <2> HIDE DEF c1
  <2> QED
    BY <2>1, HandleOriginatorSearching
<1>3. /\ c1.db = e /\ c1.neigh = Unique(OwningNeighs(d, m)) /\ c1.link = l
      /\ c1.markN = {} /\ c1.markL = {}
  BY DEF Pass1
<1>4. /\ Shape(d, e) /\ e.na = d.na
      /\ \A p \in NeighSlots : e.nb[p].symmetric = d.nb[p].symmetric
      /\ \A k \in LinkSlots : e.ln[k].status = d.ln[k].status
  BY <1>1, CountAddressesValue
<1> HIDE DEF e
<1>5. DbInv(e)
  BY <1>2, <1>3 DEF Searching
<1>6. Steady(e, owner, home)
  <2>1. Usable(e)
    BY <1>4, SameUsable DEF Steady
  <2> QED
    BY <1>4, <1>5, <2>1, SameSteady
<1>7. OwningNeighs(e, m) = OwningNeighs(d, m) /\ OwningLinks(e, m) = OwningLinks(d, m)
  <2>1. e.la = d.la
    BY <1>4 DEF Shape
  <2> QED
    BY <1>4, <2>1 DEF OwningNeighs, OwningLinks
<1>8. /\ OwningNeighs(d, m) \subseteq {n} /\ Unique(OwningNeighs(d, m)) \in {n, NoSlot}
      /\ Cardinality(OwningNeighs(d, m)) <= 1
      /\ \A a \in ThisIf(m) : e.la[m.if][a] \in {NoSlot, l}
      /\ l /= NoSlot => l \in LinksOn(e, m.if) /\ e.ln[l].neigh = n /\ ThisIf(m) /= {}
  BY <1>6, <1>7, SenderOwners
<1>9. l /= NoSlot => n /= NoSlot
  <2>1. \A k \in Links(e) : e.ln[k].neigh \in Neighs(e)
    BY <1>5 DEF DbInv, Structure, Pointers
  <2> QED
    BY <1>8, <2>1, NoSlotFree DEF LinksOn, Neighs
<1>10. c2.neigh = n /\ c2.db = e /\ c2.link = l /\ c2.markN = {} /\ c2.markL = {}
  <2>1. m.orig \notin LocalAddrs(m) \cup m.sym2 \cup m.gone2
    BY DEF SteadyHello
  <2>2. c1 \in CtxType
    BY <1>2 DEF Searching
  <2> HIDE DEF c1, n, l
  <2>3. c2 = IF NeighByOriginator(e, m.orig) \in {NoSlot, c1.neigh} THEN c1
             ELSE [c1 EXCEPT !.neigh = NeighByOriginator(e, m.orig)]
    BY <1>3, <1>7, <1>8, <2>1 DEF HandleOriginator, n
  <2> QED
    BY <1>3, <1>8, <2>2, <2>3 DEF CtxType, n
<1> HIDE DEF c1, c2, n, l
<1> QED
  BY <1>2, <1>6, <1>8, <1>9, <1>10 DEF Found, c1, c2, n

(* The neighbors when the sender is n and has originator o.                *)
SenderNames(d, n, o) == [Names(d) EXCEPT ![n] = o]
SenderKnown(c, m, owner, home) ==
    /\ SymCount(c.db) /\ Reach(c.db)
    /\ \A p \in Neighs(c.db) : p /= c.neigh =>
         c.db.nb[p].originator \notin {NoOriginator, m.orig} /\ LinksOf(c.db, p) /= {}
    /\ Owned(c.db, owner, SenderNames(c.db, c.neigh, m.orig)) /\ Homed(c.db, home)
    /\ \A a \in ThisIf(m) : c.db.la[m.if][a] \in {NoSlot, c.link}
    /\ c.markN = NaddrsOf(c.db, c.neigh)

(* _cb_addresstlvs_pass1_end: the neighbor, found or created.              *)
LEMMA TakeNeighborKnown ==
    ASSUME NEW c, NEW owner, NEW home \in HomeType, NEW m \in HelloMessage,
           SteadyHello(m, owner, home), Found(c, m, owner, home), FreeNeighSlots(c.db) /= {}
    PROVE  LET r == TakeNeighbor(c)
           IN  /\ Searching(r, m) /\ r.neigh \in Neighs(r.db) /\ Links(r.db) = Links(c.db)
               /\ SenderKnown(r, m, owner, home) /\ r.markL = {}
               /\ r.link /= NoSlot => r.db.ln[r.link].neigh = r.neigh /\ ThisIf(m) /= {}
<1> DEFINE n == Smallest(FreeNeighSlots(c.db))
           d == c.db
           e == NeighborAdd(d, n)
           r == TakeNeighbor(c)
<1>0. /\ c \in CtxType /\ Structure(d) /\ Searching(c, m) /\ Steady(d, owner, home)
      /\ m.orig /= NoOriginator
  BY DEF Found, Searching, DbInv, SteadyHello
<1>1. Searching(r, m) /\ r.neigh \in Neighs(r.db) /\ Links(r.db) = Links(d)
  BY <1>0, TakeNeighborSearching
<1>2. CASE c.neigh = NoSlot
  <2>1. FreeNeighSlots(d) \subseteq NeighSlots
    BY DEF FreeNeighSlots
  <2>2. n \in FreeNeighSlots(d)
    BY <2>1, NhdpDbAssumption, SmallestValue
  <2>3. r = [c EXCEPT !.db = e, !.neigh = n]
    BY <1>0, <1>2 DEF TakeNeighbor, CtxType
  <2> HIDE DEF n
  <2>4. /\ Neighs(e) = Neighs(d) \cup {n} /\ e.ln = d.ln /\ e.na = d.na /\ e.la = d.la
        /\ \A p \in NeighSlots \ {n} : e.nb[p] = d.nb[p]
        /\ e.nb[n] = [FreeNeigh EXCEPT !.used = TRUE]
    BY <1>0, <2>2, NeighborAddStructure
  <2>5. n \in NeighSlots /\ n \notin Neighs(d) /\ n /= NoSlot
    BY <2>1, <2>2, NoSlotFree DEF FreeNeighSlots
  <2> HIDE DEF e, r, d
  <2>6. /\ r.db = e /\ r.neigh = n /\ r.link = c.link /\ r.markN = {} /\ r.markL = {}
        /\ c.link = NoSlot
    BY <1>0, <1>2, <2>3 DEF CtxType, Found
  <2>7. /\ \A p : LinksOf(e, p) = LinksOf(d, p) /\ SymLinks(e, p) = SymLinks(d, p)
                  /\ NaddrsOf(e, p) = NaddrsOf(d, p)
        /\ LinksOf(d, n) = {} /\ NaddrsOf(d, n) = {}
    <3>1. /\ \A p : LinksOf(e, p) = LinksOf(d, p) /\ SymLinks(e, p) = SymLinks(d, p)
          /\ \A p : NaddrsOf(e, p) = NaddrsOf(d, p)
      BY <2>4 DEF LinksOf, SymLinks, Links, NaddrsOf
    <3>2. LinksOf(d, n) = {} /\ NaddrsOf(d, n) = {}
      BY <1>0, <2>5 DEF Structure, Pointers, LinksOf, NaddrsOf
    <3> QED
      BY <3>1, <3>2
  <2>8. /\ e.nb[n].symmetric = 0 /\ Cardinality(SymLinks(e, n)) = 0
    <3>1. SymLinks(e, n) = {}
      BY <2>7 DEF SymLinks
    <3> QED
      BY <2>4, <3>1, FS_EmptySet DEF FreeNeigh
  <2>9. \A p \in Neighs(e) : p /= n => p \in Neighs(d) /\ p \in NeighSlots /\ e.nb[p] = d.nb[p]
    BY <2>4 DEF Neighs
  <2>10. SymCount(e) /\ Reach(e)
    <3>1. SymCount(e)
      BY <1>0, <2>7, <2>8, <2>9 DEF Steady, Usable, SymCount
    <3>2. Reach(e)
      <4> SUFFICES ASSUME NEW p \in Neighs(e), e.nb[p].symmetric > 0
                   PROVE  \E a \in NaddrsOf(e, p) : ~Active(e.na[a].lost)
        BY DEF Reach
      <4>1. p \in Neighs(d) /\ d.nb[p].symmetric > 0
        BY <2>8, <2>9
      <4>2. PICK a \in NaddrsOf(d, p) : ~Active(d.na[a].lost)
        BY <1>0, <4>1 DEF Steady, Usable, Reach
      <4> QED
        BY <2>4, <2>7, <4>2
    <3> QED
      BY <3>1, <3>2
  <2>11. \A p \in Neighs(d) : d.nb[p].originator /= m.orig
    <3>1. NeighByOriginator(d, m.orig) = NoSlot
      BY <1>2 DEF Found, d
    <3> QED
      BY <1>0, <3>1, NeighByOriginatorValue, NoSlotFree DEF Neighs
  <2>12. \A p \in Neighs(e) : p /= n =>
           e.nb[p].originator \notin {NoOriginator, m.orig} /\ LinksOf(e, p) /= {}
    BY <1>0, <2>7, <2>9, <2>11 DEF Steady, Usable, Named, HasLinks
  <2>13. Owned(e, owner, SenderNames(e, n, m.orig))
    <3>1. \A p \in NeighSlots \ {n} : SenderNames(e, n, m.orig)[p] = Names(d)[p]
      BY <2>4 DEF SenderNames, Names
    <3>2. \A a \in Addrs : d.na[a].neigh /= NoSlot => d.na[a].neigh \in NeighSlots \ {n}
      BY <1>0, <2>5 DEF Structure, Pointers, Neighs
    <3>3. \A i \in Ifs, a \in Addrs :
            d.la[i][a] /= NoSlot => d.ln[d.la[i][a]].neigh \in NeighSlots \ {n}
      <4>1. \A i \in Ifs, a \in Addrs : d.la[i][a] /= NoSlot => d.la[i][a] \in Links(d)
        BY <1>0 DEF Structure, Pointers, LinksOn
      <4>2. \A l \in Links(d) : d.ln[l].neigh \in NeighSlots \ {n}
        BY <1>0, <2>5 DEF Structure, Pointers, Neighs
      <4> QED
        BY <4>1, <4>2
    <3> QED
      BY <1>0, <2>4, <3>1, <3>2, <3>3 DEF Steady, Owned
  <2>14. Homed(e, home) /\ \A a \in ThisIf(m) : e.la[m.if][a] \in {NoSlot, c.link}
    BY <1>0, <2>4 DEF Steady, Homed, Found, d
  <2>15. SenderKnown(r, m, owner, home)
    BY <2>6, <2>7, <2>10, <2>12, <2>13, <2>14 DEF SenderKnown
  <2> QED
    BY <1>1, <2>6, <2>15 DEF r, d
<1>3. CASE c.neigh /= NoSlot
  <2>1. r = [c EXCEPT !.markN = NaddrsOf(d, c.neigh)]
    BY <1>3 DEF TakeNeighbor
  <2> HIDE DEF r, d
  <2>2. /\ r.db = d /\ r.neigh = c.neigh /\ r.link = c.link
        /\ r.markN = NaddrsOf(d, c.neigh) /\ r.markL = {}
    BY <1>0, <2>1 DEF CtxType, Found, d
  <2>3. \A p \in Neighs(d) : d.nb[p].originator = m.orig <=> p = c.neigh
    <3>1. NeighByOriginator(d, m.orig) = c.neigh
      BY DEF Found, d
    <3> QED
      BY <1>0, <1>3, <3>1, NeighByOriginatorValue
  <2>4. SenderNames(d, c.neigh, m.orig) = Names(d)
    BY <1>1, <2>2, <2>3 DEF SenderNames, Names, Neighs
  <2>5. SenderKnown(r, m, owner, home)
    <3>1. \A p \in Neighs(d) : p /= c.neigh =>
            d.nb[p].originator \notin {NoOriginator, m.orig} /\ LinksOf(d, p) /= {}
      BY <1>0, <2>3 DEF Steady, Usable, Named, HasLinks
    <3>2. \A a \in ThisIf(m) : d.la[m.if][a] \in {NoSlot, c.link}
      BY DEF Found, d
    <3> QED
      BY <1>0, <2>2, <2>4, <3>1, <3>2 DEF Steady, Usable, SenderKnown
  <2> QED
    BY <1>1, <2>2, <2>5 DEF Found, r, d
<1> QED
  BY <1>2, <1>3

(* What holds when the loop over the addresses starts.                     *)
Ready(c, m, owner, home) ==
    /\ Working(c, m) /\ ~c.bad
    /\ SenderKnown(c, m, owner, home)
    /\ c.db.ln[c.link].neigh = c.neigh
    /\ c.markL = {a \in Addrs : c.db.la[m.if][a] = c.link}

(* The link, found or created.                                             *)
LEMMA TakeLinkReady ==
    ASSUME NEW c, NEW owner, NEW home, NEW m \in HelloMessage,
           Searching(c, m), c.neigh \in Neighs(c.db), FreeLinkSlots(c.db) /= {},
           SenderKnown(c, m, owner, home), c.markL = {},
           c.link /= NoSlot => c.db.ln[c.link].neigh = c.neigh /\ ThisIf(m) /= {}
    PROVE  Ready(TakeLink(c, m), m, owner, home)
<1> DEFINE l == Smallest(FreeLinkSlots(c.db))
           d == c.db
           e == LinkAdd(d, l, c.neigh, m.if)
           r == TakeLink(c, m)
<1>0. c \in CtxType /\ Structure(d) /\ m.if \in Ifs /\ c.neigh \in NeighSlots
  BY DEF Searching, DbInv, HelloMessage, Neighs
<1>1. Working(r, m) /\ ~r.bad
  BY TakeLinkWorking
<1>2. CASE c.link = NoSlot
  <2>1. FreeLinkSlots(d) \subseteq LinkSlots
    BY DEF FreeLinkSlots
  <2>2. l \in FreeLinkSlots(d)
    BY <2>1, NhdpDbAssumption, SmallestValue
  <2>3. l \in LinkSlots /\ l \notin Links(d) /\ l /= NoSlot
    BY <2>1, <2>2, NoSlotFree DEF FreeLinkSlots
  <2>4. r = [c EXCEPT !.db = e, !.link = l]
    BY <1>0, <1>2 DEF TakeLink, CtxType
  <2> HIDE DEF l
  <2>5. /\ Structure(e) /\ Links(e) = Links(d) \cup {l}
        /\ e.nb = d.nb /\ e.na = d.na /\ e.la = d.la
        /\ \A k \in LinkSlots \ {l} : e.ln[k] = d.ln[k]
        /\ e.ln[l].neigh = c.neigh /\ e.ln[l].status = "LOST"
    BY <1>0, <2>2, LinkAddStructure
  <2> HIDE DEF e, r, d
  <2>6. /\ r.db = e /\ r.neigh = c.neigh /\ r.link = l /\ r.markN = c.markN /\ r.markL = {}
    BY <1>0, <2>4 DEF CtxType
  <2>7. Neighs(e) = Neighs(d) /\ Names(e) = Names(d)
        /\ \A p : NaddrsOf(e, p) = NaddrsOf(d, p)
    BY <2>5 DEF Neighs, Names, NaddrsOf
  <2>8. \A k \in Links(d) : k \in Links(e) /\ k /= l /\ e.ln[k] = d.ln[k]
    BY <2>3, <2>5 DEF Links
  <2>9. \A p : p /= c.neigh => LinksOf(e, p) = LinksOf(d, p)
    BY <2>5, <2>8 DEF LinksOf
  <2>10. \A p : SymLinks(e, p) = SymLinks(d, p)
    BY <2>5, <2>8 DEF SymLinks, LinksOf
  <2>11. SymCount(e) /\ Reach(e)
    <3>1. SymCount(d) /\ Reach(d)
      BY DEF SenderKnown, d
    <3> QED
      BY <2>5, <2>7, <2>10, <3>1 DEF SymCount, Reach
  <2>12. Owned(e, owner, SenderNames(e, c.neigh, m.orig)) /\ Homed(e, home)
    <3>1. Owned(d, owner, SenderNames(d, c.neigh, m.orig)) /\ Homed(d, home)
      BY DEF SenderKnown, d
    <3>2. \A i \in Ifs, a \in Addrs : d.la[i][a] /= NoSlot => d.la[i][a] \in Links(d)
      BY <1>0 DEF Structure, Pointers, LinksOn
    <3> QED
      BY <2>5, <2>7, <2>8, <3>1, <3>2 DEF Owned, Homed, SenderNames
  <2>13. \A i \in Ifs, a \in Addrs : e.la[i][a] /= l
    BY <1>0, <2>3, <2>5 DEF Structure, Pointers, LinksOn
  <2>14. \A a \in ThisIf(m) : e.la[m.if][a] \in {NoSlot, l}
    BY <1>2, <2>5 DEF SenderKnown, d
  <2>15. \A p \in Neighs(e) : p /= c.neigh =>
           e.nb[p].originator \notin {NoOriginator, m.orig} /\ LinksOf(e, p) /= {}
    BY <2>5, <2>7, <2>9 DEF SenderKnown, d
  <2>16. c.markN = NaddrsOf(e, c.neigh)
    BY <2>7 DEF SenderKnown, d
  <2>17. SenderKnown(r, m, owner, home)
    BY <2>6, <2>11, <2>12, <2>14, <2>15, <2>16 DEF SenderKnown
  <2>18. r.markL = {a \in Addrs : r.db.la[m.if][a] = r.link}
    BY <1>0, <2>6, <2>13
  <2> QED
    BY <1>1, <2>5, <2>6, <2>17, <2>18 DEF Ready, r
<1>3. CASE c.link /= NoSlot
  <2>1. r = [c EXCEPT !.markL = {a \in Addrs : d.la[m.if][a] = c.link}]
    BY <1>3 DEF TakeLink
  <2> HIDE DEF r, d
  <2>2. /\ r.db = d /\ r.neigh = c.neigh /\ r.link = c.link /\ r.markN = c.markN
        /\ r.markL = {a \in Addrs : d.la[m.if][a] = c.link}
    BY <1>0, <2>1 DEF CtxType, d
  <2> QED
    BY <1>1, <1>3, <2>2 DEF SenderKnown, Ready, r, d
<1> QED
  BY <1>2, <1>3

(* All of pass 1.                                                          *)
LEMMA BegunReady ==
    ASSUME NEW d, NEW owner, NEW home \in HomeType, Steady(d, owner, home), RoomForHello(d),
           NEW m \in HelloMessage, SteadyHello(m, owner, home)
    PROVE  Ready(Begun(d, m), m, owner, home)
<1> DEFINE c1 == Pass1(d, m)
           c2 == HandleOriginator(c1, m)
           c3 == TakeNeighbor(c2)
           c4 == TakeLink(c3, m)
<1>0. DbInv(d)
  BY DEF Steady
<1>1. /\ Searching(c1, m) /\ Neighs(c1.db) = Neighs(d) /\ Links(c1.db) = Links(d)
  BY <1>0, Pass1Searching
<1>2. Found(c2, m, owner, home)
  BY SenderFound
<1> HIDE DEF c1
<1>3. Neighs(c2.db) = Neighs(d) /\ Links(c2.db) = Links(d)
  BY <1>1, HandleOriginatorSearching
<1>4. FreeNeighSlots(c2.db) /= {}
  BY <1>3 DEF RoomForHello, FreeNeighSlots
<1> HIDE DEF c2
<1>5. /\ Searching(c3, m) /\ c3.neigh \in Neighs(c3.db) /\ Links(c3.db) = Links(d)
      /\ SenderKnown(c3, m, owner, home) /\ c3.markL = {}
      /\ c3.link /= NoSlot => c3.db.ln[c3.link].neigh = c3.neigh /\ ThisIf(m) /= {}
  BY <1>2, <1>3, <1>4, TakeNeighborKnown
<1>6. FreeLinkSlots(c3.db) /= {}
  BY <1>5 DEF RoomForHello, FreeLinkSlots
<1> HIDE DEF c3
<1>7. Ready(c4, m, owner, home)
  BY <1>5, <1>6, TakeLinkReady
<1>8. Begun(d, m) = c4
  BY DEF Begun, c3, c2, c1
<1> HIDE DEF c4
<1> QED
  BY <1>7, <1>8

(* The addresses of the sender belong to its neighbor or to none.          *)
LEMMA ReadyAddrs ==
    ASSUME NEW b, NEW owner, NEW home, NEW m \in HelloMessage, SteadyHello(m, owner, home),
           Ready(b, m, owner, home)
    PROVE  \A a \in LocalAddrs(m) \cup TheseIf(m) : b.db.na[a].neigh \in {NoSlot, b.neigh}
<1> SUFFICES ASSUME NEW a \in LocalAddrs(m) \cup TheseIf(m), b.db.na[a].neigh /= NoSlot,
                    b.db.na[a].neigh /= b.neigh
             PROVE  FALSE
  OBVIOUS
<1>1. a \in Addrs /\ owner[a] = m.orig
  BY HelloAddrs DEF SteadyHello
<1>2. b.db.na[a].neigh \in Neighs(b.db)
  BY <1>1 DEF Ready, Working, Structure, Pointers
<1>3. SenderNames(b.db, b.neigh, m.orig)[b.db.na[a].neigh] = b.db.nb[b.db.na[a].neigh].originator
  BY <1>2 DEF SenderNames, Names, Neighs
<1>4. owner[a] = SenderNames(b.db, b.neigh, m.orig)[b.db.na[a].neigh]
  BY <1>1 DEF Ready, SenderKnown, Owned
<1> QED
  BY <1>1, <1>2, <1>3, <1>4 DEF Ready, SenderKnown

(* How the loop leaves a context that was b when it started, after the     *)
(* neighbor addresses P and the link addresses Q: it moves them, and it    *)
(* removes nothing.                                                        *)
SameObjects(d, r) ==
    /\ \A n \in NeighSlots : /\ r.nb[n].used = d.nb[n].used
                             /\ r.nb[n].originator = d.nb[n].originator
                             /\ r.nb[n].symmetric = d.nb[n].symmetric
    /\ \A l \in LinkSlots : /\ r.ln[l].used = d.ln[l].used
                            /\ r.ln[l].neigh = d.ln[l].neigh
                            /\ r.ln[l].if = d.ln[l].if
                            /\ r.ln[l].status = d.ln[l].status
Moved(b, r, i, P, Q) ==
    /\ \A a \in Addrs :
         /\ r.na[a].neigh = IF a \in P THEN b.neigh ELSE b.db.na[a].neigh
         /\ r.na[a].lost = IF a \in P THEN Off ELSE b.db.na[a].lost
    /\ \A j \in Ifs, a \in Addrs :
         r.la[j][a] = IF j = i /\ a \in Q THEN b.link ELSE b.db.la[j][a]
Walked(b, c, m, P, Q) ==
    /\ Working(c, m) /\ ~c.bad /\ c.neigh = b.neigh /\ c.link = b.link
    /\ c.markN = b.markN \ P /\ c.markL = b.markL \ Q
    /\ SameObjects(b.db, c.db) /\ Moved(b, c.db, m.if, P, Q)

(* SameObjects is transitive.                                              *)
LEMMA SameObjectsTrans ==
    ASSUME NEW d, NEW e, NEW r, SameObjects(d, e), SameObjects(e, r)
    PROVE  SameObjects(d, r)
BY DEF SameObjects

(* _pass2_process_localif, first half: a link address of the sender, or of *)
(* a link whose count does not come to nothing.                            *)
LEMMA LinkAddrWalked ==
    ASSUME NEW b, NEW c, NEW owner, NEW home, NEW m \in HelloMessage,
           Ready(b, m, owner, home), NEW P, NEW Q, Walked(b, c, m, P, Q), NEW a \in Addrs,
           \/ a \in ThisIf(m)
           \/ c.db.la[m.if][a] = NoSlot
           \/ c.db.ln[c.db.la[m.if][a]].process_count /= 1
    PROVE  Walked(b, ProcessLinkAddr(c, m.if, a), m, P, Q \cup {a})
<1> DEFINE i == m.if
           l == c.db.la[i][a]
           moved == [c.db EXCEPT !.la[i][a] = c.link]
           counted == [moved EXCEPT !.ln[l].process_count = @ - 1]
           done == counted.ln[l].process_count = 0
           d == IF l = NoSlot THEN moved ELSE counted
           r == ProcessLinkAddr(c, i, a)
<1>0. /\ c \in CtxType /\ Structure(c.db) /\ c.db \in DbType
      /\ c.link \in LinksOn(c.db, i) /\ i \in Ifs
  BY DEF Walked, Working, Structure, HelloMessage
<1>1. /\ Structure(moved) /\ moved.nb = c.db.nb /\ moved.ln = c.db.ln /\ moved.na = c.db.na
      /\ \A j \in Ifs, x \in Addrs :
           moved.la[j][x] = IF j = i /\ x = a THEN c.link ELSE c.db.la[j][x]
  BY <1>0, LinkAddrMove
<1>2. l \in LinkSlots \cup {NoSlot}
  BY <1>0, DbFields
<1>12. r = IF l = NoSlot THEN [c EXCEPT !.db = moved]
           ELSE [c EXCEPT !.markL = c.markL \ {a},
                          !.db = IF l /= c.link /\ done THEN LinksRemove(counted, {l})
                                 ELSE counted]
  BY <1>0 DEF ProcessLinkAddr, CtxType
<1>6. Working(r, m) /\ ~r.bad /\ r.neigh = c.neigh /\ r.link = c.link
  BY ProcessLinkAddrWorking DEF Walked
<1> HIDE DEF moved, r, l, i
<1>3. l = NoSlot \/ l = c.link \/ counted.ln[l].process_count /= 0
  <2>1. CASE a \in ThisIf(m)
    BY <1>0, <2>1 DEF Walked, Moved, Ready, SenderKnown, l, i
  <2>3. CASE l = NoSlot
    BY <2>3
  <2>2. CASE l /= NoSlot /\ c.db.ln[l].process_count /= 1
    <3>1. l \in LinkSlots /\ moved \in DbType
      BY <1>1, <1>2, <2>2 DEF Structure
    <3>2. counted.ln[l].process_count = c.db.ln[l].process_count - 1
      <4>1. \A k \in LinkSlots : counted.ln[k].process_count =
              moved.ln[k].process_count - (IF k = l THEN 1 ELSE 0)
        BY <3>1, LinkCountDown
      <4> HIDE DEF counted
      <4> QED
        BY <1>1, <3>1, <4>1
    <3>3. c.db.ln[l].process_count \in Int
      BY <1>0, <3>1, DbFields DEF LinkType
    <3> QED
      BY <2>2, <3>2, <3>3
  <2> QED
    BY <2>1, <2>2, <2>3 DEF l, i
<1>4. r = IF l = NoSlot THEN [c EXCEPT !.db = d] ELSE [c EXCEPT !.markL = c.markL \ {a}, !.db = d]
  BY <1>3, <1>12
<1>5. /\ SameObjects(c.db, d) /\ d.na = c.db.na
      /\ \A j \in Ifs, x \in Addrs :
           d.la[j][x] = IF j = i /\ x = a THEN c.link ELSE c.db.la[j][x]
  <2>1. CASE l = NoSlot
    BY <1>1, <2>1 DEF SameObjects
  <2>2. CASE l /= NoSlot
    <3>1. l \in LinkSlots /\ moved \in DbType
      BY <1>1, <1>2, <2>2 DEF Structure
    <3>2. /\ Shape(moved, counted) /\ counted.nb = moved.nb /\ counted.na = moved.na
          /\ \A k \in LinkSlots : counted.ln[k].status = moved.ln[k].status
      BY <3>1, LinkCountDown
    <3> HIDE DEF counted
    <3>3. d = counted /\ counted.la = moved.la
      BY <2>2, <3>2 DEF Shape
    <3> HIDE DEF d
    <3> QED
      BY <1>1, <3>2, <3>3 DEF Shape, SameObjects
  <2> QED
    BY <2>1, <2>2
<1> HIDE DEF d, counted
<1>7. /\ r.db = d /\ r.markN = c.markN
      /\ r.markL = IF l = NoSlot THEN c.markL ELSE c.markL \ {a}
  BY <1>0, <1>4 DEF CtxType
<1>8. r.markL = c.markL \ {a}
  <2>1. ASSUME l = NoSlot, a \in c.markL
        PROVE  FALSE
    <3>1. a \in b.markL /\ a \notin Q
      BY <2>1 DEF Walked
    <3>2. c.db.la[i][a] = b.link
      BY <1>0, <3>1 DEF Walked, Moved, Ready, i
    <3> QED
      BY <1>0, <2>1, <3>2, NoSlotFree DEF Walked, LinksOn, Links, l
  <2> QED
    BY <1>7, <2>1
<1>9. SameObjects(b.db, r.db)
  <2>1. SameObjects(b.db, c.db)
    BY DEF Walked
  <2>2. SameObjects(c.db, r.db)
    BY <1>5, <1>7
  <2> QED
    BY <2>1, <2>2, SameObjectsTrans
<1>10. Moved(b, r.db, i, P, Q \cup {a})
  BY <1>5, <1>7 DEF Moved, Walked, i
<1>11. r.markN = b.markN \ P /\ r.markL = b.markL \ (Q \cup {a})
  BY <1>7, <1>8 DEF Walked
<1> QED
  BY <1>6, <1>9, <1>10, <1>11 DEF Walked, r, i

(* And the second half: a neighbor address of the sender.                  *)
LEMMA NeighAddrWalked ==
    ASSUME NEW b, NEW c, NEW owner, NEW home, NEW m \in HelloMessage,
           SteadyHello(m, owner, home), Ready(b, m, owner, home),
           NEW P, NEW Q, Walked(b, c, m, P, Q), NEW a \in LocalAddrs(m) \cup TheseIf(m)
    PROVE  Walked(b, ProcessNeighAddr(c, a), m, P \cup {a}, Q)
<1> DEFINE n == c.db.na[a].neigh
           moved == [c.db EXCEPT !.na[a] = [neigh |-> c.neigh, lost |-> Off]]
           counted == [moved EXCEPT !.nb[n].process_count = @ - 1]
           freed == n /= c.neigh /\ counted.nb[n].process_count = 0
           d == IF n = NoSlot THEN moved ELSE counted
           r == ProcessNeighAddr(c, a)
<1>0. /\ c \in CtxType /\ Structure(c.db) /\ c.db \in DbType /\ ~c.bad
      /\ c.neigh \in Neighs(c.db) /\ a \in Addrs
  BY HelloAddrs DEF Walked, Working, Structure
<1>1. /\ Structure(moved) /\ moved.nb = c.db.nb /\ moved.ln = c.db.ln /\ moved.la = c.db.la
      /\ \A x \in Addrs : /\ moved.na[x].neigh = IF x = a THEN c.neigh ELSE c.db.na[x].neigh
                          /\ moved.na[x].lost = IF x = a THEN Off ELSE c.db.na[x].lost
  BY <1>0, NaddrMove
<1>2. n \in {NoSlot, c.neigh}
  BY <1>0, ReadyAddrs DEF Walked, Moved
<1>11. r = IF n = NoSlot THEN [c EXCEPT !.db = moved]
           ELSE [c EXCEPT !.markN = c.markN \ {a},
                          !.db = IF freed THEN NeighborRemove(counted, n) ELSE counted,
                          !.bad = c.bad \/ (freed /\ c.link \in LinksOf(counted, n))]
  BY <1>0 DEF ProcessNeighAddr, CtxType
<1>5. Working(r, m) /\ r.neigh = c.neigh /\ r.link = c.link
  BY <1>0, ProcessNeighAddrWorking DEF Walked
<1> HIDE DEF moved, r, n
<1>3. r = IF n = NoSlot THEN [c EXCEPT !.db = d] ELSE [c EXCEPT !.markN = c.markN \ {a}, !.db = d, !.bad = FALSE]
  BY <1>0, <1>2, <1>11
<1>4. /\ SameObjects(c.db, d) /\ d.la = c.db.la
      /\ \A x \in Addrs : /\ d.na[x].neigh = IF x = a THEN c.neigh ELSE c.db.na[x].neigh
                          /\ d.na[x].lost = IF x = a THEN Off ELSE c.db.na[x].lost
  <2>1. CASE n = NoSlot
    BY <1>1, <2>1 DEF SameObjects
  <2>2. CASE n /= NoSlot
    <3>1. n \in NeighSlots /\ moved \in DbType
      BY <1>0, <1>1, <1>2, <2>2 DEF Structure, Neighs
    <3>2. /\ Shape(moved, counted) /\ counted.ln = moved.ln /\ counted.na = moved.na
          /\ \A p \in NeighSlots : counted.nb[p].symmetric = moved.nb[p].symmetric
      BY <3>1, NeighCountDown
    <3> HIDE DEF counted
    <3>3. d = counted /\ counted.la = moved.la
      BY <2>2, <3>2 DEF Shape
    <3> HIDE DEF d
    <3> QED
      BY <1>1, <3>2, <3>3 DEF Shape, SameObjects
  <2> QED
    BY <2>1, <2>2
<1> HIDE DEF d, counted
<1>6. /\ r.db = d /\ r.markL = c.markL /\ ~r.bad
      /\ r.markN = IF n = NoSlot THEN c.markN ELSE c.markN \ {a}
  BY <1>0, <1>3 DEF CtxType
<1>7. r.markN = c.markN \ {a}
  <2>1. ASSUME n = NoSlot, a \in c.markN
        PROVE  FALSE
    <3>1. a \in b.markN /\ a \notin P
      BY <2>1 DEF Walked
    <3>2. b.db.na[a].neigh = b.neigh
      BY <3>1 DEF Ready, SenderKnown, NaddrsOf
    <3>3. c.db.na[a].neigh = b.neigh
      BY <1>0, <3>1, <3>2 DEF Walked, Moved
    <3> QED
      BY <1>0, <2>1, <3>3, NoSlotFree DEF Walked, Neighs, n
  <2> QED
    BY <1>6, <2>1
<1>8. SameObjects(b.db, r.db)
  <2>1. SameObjects(b.db, c.db)
    BY DEF Walked
  <2>2. SameObjects(c.db, r.db)
    BY <1>4, <1>6
  <2> QED
    BY <2>1, <2>2, SameObjectsTrans
<1>9. Moved(b, r.db, m.if, P \cup {a}, Q)
  BY <1>4, <1>6 DEF Moved, Walked
<1>10. r.markN = b.markN \ (P \cup {a}) /\ r.markL = b.markL \ Q
  BY <1>6, <1>7 DEF Walked
<1> QED
  BY <1>5, <1>6, <1>8, <1>9, <1>10 DEF Walked, r

(* Both halves, and the second alone.                                      *)
LEMMA LocalIfWalked ==
    ASSUME NEW b, NEW c, NEW owner, NEW home, NEW m \in HelloMessage,
           SteadyHello(m, owner, home), Ready(b, m, owner, home),
           NEW P, NEW Q, Walked(b, c, m, P, Q), NEW a \in LocalAddrs(m) \cup TheseIf(m)
    PROVE  /\ (\/ a \in ThisIf(m)
               \/ c.db.la[m.if][a] = NoSlot
               \/ c.db.ln[c.db.la[m.if][a]].process_count /= 1)
              => Walked(b, ProcessLocalIf(c, m, a, "THIS"), m, P \cup {a}, Q \cup {a})
           /\ \A kind : kind /= "THIS"
                => Walked(b, ProcessLocalIf(c, m, a, kind), m, P \cup {a}, Q)
<1>1. a \in Addrs
  BY HelloAddrs
<1>2. ASSUME \/ a \in ThisIf(m)
             \/ c.db.la[m.if][a] = NoSlot
             \/ c.db.ln[c.db.la[m.if][a]].process_count /= 1
      PROVE  Walked(b, ProcessLocalIf(c, m, a, "THIS"), m, P \cup {a}, Q \cup {a})
  <2> DEFINE e == ProcessLinkAddr(c, m.if, a)
             R == Q \cup {a}
  <2>1. Walked(b, e, m, P, R)
    BY <1>1, <1>2, LinkAddrWalked
  <2>2. ProcessLocalIf(c, m, a, "THIS") = ProcessNeighAddr(e, a)
    BY DEF ProcessLocalIf, Walked
  <2> HIDE DEF e, R
  <2>3. Walked(b, ProcessNeighAddr(e, a), m, P \cup {a}, R)
    BY <2>1, NeighAddrWalked
  <2> QED
    BY <2>2, <2>3 DEF R
<1>3. ASSUME NEW kind, kind /= "THIS"
      PROVE  Walked(b, ProcessLocalIf(c, m, a, kind), m, P \cup {a}, Q)
  <2>1. ProcessLocalIf(c, m, a, kind) = ProcessNeighAddr(c, a)
    BY <1>3 DEF ProcessLocalIf, Walked
  <2> QED
    BY <2>1, NeighAddrWalked
<1> QED
  BY <1>2, <1>3

(* A HELLO without THIS_IF address: no link counts its source address, so  *)
(* the old link of it is kept.                                             *)
Default(m) == IF ThisIf(m) = {} THEN {m.src} ELSE {}
LEMMA DefaultWalked ==
    ASSUME NEW b, NEW owner, NEW home, NEW m \in HelloMessage,
           SteadyHello(m, owner, home), Ready(b, m, owner, home), CountedL(b.db, m, 0)
    PROVE  Walked(b, DefaultThisIf(b, m), m, Default(m), Default(m))
<1>1. Walked(b, b, m, {}, {})
  BY DEF Ready, Walked, SameObjects, Moved
<1>2. CASE ThisIf(m) /= {}
  BY <1>1, <1>2 DEF DefaultThisIf, Default
<1>3. CASE ThisIf(m) = {}
  <2>1. m.src \in TheseIf(m) /\ m.src \in Addrs /\ m.if \in Ifs
    BY <1>3 DEF TheseIf, HelloMessage
  <2>2. ASSUME b.db.la[m.if][m.src] /= NoSlot
        PROVE  b.db.ln[b.db.la[m.if][m.src]].process_count = 0
    <3>1. b.db.la[m.if][m.src] \in LinksOn(b.db, m.if)
      BY <2>1, <2>2 DEF Ready, Working, Structure, Pointers
    <3>2. LeftL(b.db, m, 0, b.db.la[m.if][m.src]) = {}
      BY <1>3 DEF LeftL, ThisIf
    <3> QED
      BY <3>1, <3>2, FS_EmptySet DEF CountedL
  <2> DEFINE E == {}
             x == m.src
  <2>3. Walked(b, b, m, E, E)
    BY <1>1
  <2>4. x \in LocalAddrs(m) \cup TheseIf(m)
    BY <2>1
  <2>5. b.db.la[m.if][x] = NoSlot \/ b.db.ln[b.db.la[m.if][x]].process_count /= 1
    BY <2>2
  <2>6. Default(m) = E \cup {x}
    BY <1>3 DEF Default
  <2> HIDE DEF E, x
  <2>7. Walked(b, ProcessLocalIf(b, m, x, "THIS"), m, E \cup {x}, E \cup {x})
    BY <2>3, <2>4, <2>5, LocalIfWalked
  <2> QED
    BY <1>3, <2>6, <2>7 DEF DefaultThisIf, x
<1> QED
  BY <1>2, <1>3

(* The whole loop: all addresses of the HELLO are those of its sender.     *)
LEMMA LoopWalked ==
    ASSUME NEW b, NEW c, NEW owner, NEW home, NEW m \in HelloMessage,
           SteadyHello(m, owner, home), Ready(b, m, owner, home),
           Walked(b, c, m, Default(m), Default(m))
    PROVE  Walked(b, Pass2Locals(c, m), m, LocalAddrs(m) \cup TheseIf(m), TheseIf(m))
<1> DEFINE N == Len(m.locals)
           P(k) == Default(m) \cup {m.locals[j][1] : j \in 1 .. k}
           Q(k) == Default(m) \cup {m.locals[j][1] : j \in {x \in 1 .. k : m.locals[x][2] = "THIS"}}
<1>1. /\ N \in Nat /\ DOMAIN m.locals = 1 .. N
      /\ \A k \in 1 .. N : m.locals[k][2] \in {"THIS", "OTHER"}
  BY DEF HelloMessage
<1>2. PICK h : /\ h[0] = c /\ h[N] = Pass2Locals(c, m)
               /\ \A k \in 1 .. N :
                    h[k] = ProcessLocalIf(h[k - 1], m, m.locals[k][1], m.locals[k][2])
  <2>1. Working(c, m)
    BY DEF Walked
  <2> QED
    BY <2>1, Pass2LocalsRuns
<1> DEFINE S == {k \in Nat : k <= N => Walked(b, h[k], m, P(k), Q(k))}
<1>3. 0 \in S
  <2>1. P(0) = Default(m) /\ Q(0) = Default(m)
    OBVIOUS
  <2> QED
    BY <1>2, <2>1
<1>4. ASSUME NEW k \in Nat, k \in S
      PROVE  k + 1 \in S
  <2> SUFFICES ASSUME k + 1 <= N
               PROVE  Walked(b, h[k + 1], m, P(k + 1), Q(k + 1))
    OBVIOUS
  <2> DEFINE a == m.locals[k + 1][1]
             kind == m.locals[k + 1][2]
  <2>1. k + 1 \in 1 .. N /\ k + 1 \in DOMAIN m.locals /\ (k + 1) - 1 = k
    BY <1>1
  <2>2. a \in LocalAddrs(m) /\ (kind = "THIS" => a \in ThisIf(m))
    BY <2>1 DEF LocalAddrs, ThisIf
  <2>3. h[k + 1] = ProcessLocalIf(h[k], m, a, kind)
    BY <1>2, <2>1
  <2>4. Walked(b, h[k], m, P(k), Q(k))
    BY <1>1, <1>4, <2>1
  <2>5. 1 .. (k + 1) = (1 .. k) \cup {k + 1}
    OBVIOUS
  <2>6. P(k + 1) = P(k) \cup {a} /\ Q(k + 1) = IF kind = "THIS" THEN Q(k) \cup {a} ELSE Q(k)
    BY <2>5
  <2> HIDE DEF P, Q, a, kind
  <2>7. a \in LocalAddrs(m) \cup TheseIf(m)
    BY <2>2
  <2>8. CASE kind = "THIS"
    <3>1. Walked(b, ProcessLocalIf(h[k], m, a, "THIS"), m, P(k) \cup {a}, Q(k) \cup {a})
      BY <2>2, <2>4, <2>7, <2>8, LocalIfWalked
    <3> QED
      BY <2>3, <2>6, <2>8, <3>1
  <2>9. CASE kind /= "THIS"
    <3>1. Walked(b, ProcessLocalIf(h[k], m, a, kind), m, P(k) \cup {a}, Q(k))
      BY <2>4, <2>7, <2>9, LocalIfWalked
    <3> QED
      BY <2>3, <2>6, <2>9, <3>1
  <2> QED
    BY <2>8, <2>9
<1>5. Walked(b, h[N], m, P(N), Q(N))
  <2> HIDE DEF P, Q
  <2>1. Nat \subseteq S
    <3> HIDE DEF S
    <3> QED
      BY <1>3, <1>4, Induction
  <2> QED
    BY <1>1, <2>1
<1>6. P(N) = LocalAddrs(m) \cup TheseIf(m) /\ Q(N) = TheseIf(m)
  <2>1. {m.locals[j][1] : j \in 1 .. N} = LocalAddrs(m)
    BY <1>1 DEF LocalAddrs
  <2>2. {m.locals[j][1] : j \in {x \in 1 .. N : m.locals[x][2] = "THIS"}} = ThisIf(m)
    BY <1>1 DEF ThisIf
  <2>3. ThisIf(m) \subseteq LocalAddrs(m)
    BY HelloAddrs
  <2> QED
    BY <2>1, <2>2, <2>3 DEF Default, TheseIf
<1> QED
  BY <1>2, <1>5, <1>6

(* The database between the loop and the end of the HELLO, of which n is   *)
(* the sender with originator o and l the link to it.                      *)
Received(d, n, l, o, owner, home) ==
    /\ Usable(d) /\ NaddrsOf(d, n) /= {} /\ d.ln[l].neigh = n
    /\ Owned(d, owner, SenderNames(d, n, o)) /\ Homed(d, home)
    /\ \A p \in Neighs(d) : p /= n => d.nb[p].originator \notin {NoOriginator, o}

(* What keeps the objects and leaves the neighbors usable keeps it.        *)
LEMMA SameReceived ==
    ASSUME NEW d, Structure(d), NEW n, NEW l \in LinkSlots, NEW o, NEW owner,
           NEW home \in HomeType, Received(d, n, l, o, owner, home),
           NEW r, Shape(d, r), Usable(r)
    PROVE  Received(r, n, l, o, owner, home)
<1>1. Neighs(r) = Neighs(d) /\ NaddrsOf(r, n) = NaddrsOf(d, n) /\ Names(r) = Names(d)
  BY ShapeSets, SameOwned
<1>2. /\ \A name : Owned(d, owner, name) => Owned(r, owner, name)
      /\ Homed(d, home) => Homed(r, home)
  BY SameOwned
<1>3. Owned(r, owner, SenderNames(r, n, o)) /\ Homed(r, home)
  BY <1>1, <1>2 DEF Received, SenderNames
<1>4. r.ln[l].neigh = n /\ \A p \in NeighSlots : r.nb[p].originator = d.nb[p].originator
  BY DEF Received, Shape
<1> QED
  BY <1>1, <1>3, <1>4 DEF Received, Neighs

(* The addresses that the loop moved, without those it did not reach.      *)
Left(b, r, i, P, Q) ==
    /\ \A a \in Addrs :
         /\ r.na[a].neigh = IF a \in P THEN b.neigh ELSE b.db.na[a].neigh
         /\ r.na[a].lost = IF a \in P THEN Off
                           ELSE IF a \in b.markN THEN HoldTime ELSE b.db.na[a].lost
    /\ \A j \in Ifs, a \in Addrs :
         r.la[j][a] = IF j /= i THEN b.db.la[j][a]
                      ELSE IF a \in Q THEN b.link
                      ELSE IF a \in b.markL THEN NoSlot ELSE b.db.la[j][a]

(* _cb_msg_pass2_end: after the marked addresses are dropped, the sender   *)
(* has the addresses of the HELLO, and every other neighbor those it had.  *)
LEMMA LeftReceived ==
    ASSUME NEW b, NEW owner, NEW home \in HomeType, NEW m \in HelloMessage,
           SteadyHello(m, owner, home), Ready(b, m, owner, home),
           NEW r, SameObjects(b.db, r),
           Left(b, r, m.if, LocalAddrs(m) \cup TheseIf(m), TheseIf(m))
    PROVE  Received(r, b.neigh, b.link, m.orig, owner, home)
<1> DEFINE P == LocalAddrs(m) \cup TheseIf(m)
           Q == TheseIf(m)
           n == b.neigh
           l == b.link
           d == b.db
<1>1. /\ m.if \in Ifs /\ P \subseteq Addrs /\ Q \subseteq P /\ ThisIf(m) \subseteq Q
      /\ Structure(d) /\ d \in DbType /\ n \in Neighs(d) /\ n \in NeighSlots
      /\ l \in LinksOn(d, m.if) /\ l \in Links(d) /\ l \in LinkSlots /\ d.ln[l].neigh = n
  BY HelloAddrs DEF Ready, Working, Structure, Neighs, LinksOn, Links
<1>2. PICK h \in Q : \A a \in Q : home[m.if][a] = h
  BY DEF SteadyHello
<1>3. \A a \in P : owner[a] = m.orig
  BY DEF SteadyHello
<1>4. \A a \in P : d.na[a].neigh \in {NoSlot, n}
  BY ReadyAddrs
<1> HIDE DEF P, d
<1>5. /\ Neighs(r) = Neighs(d) /\ Links(r) = Links(d) /\ Names(r) = Names(d)
      /\ \A p : LinksOf(r, p) = LinksOf(d, p)
  BY DEF SameObjects, Neighs, Links, Names, LinksOf, d
<1>6. \A p : SymLinks(r, p) = SymLinks(d, p)
  BY <1>5 DEF SameObjects, SymLinks, LinksOf, Links, d
<1>7. \A p \in Neighs(d) : p \in NeighSlots /\ r.nb[p].originator = d.nb[p].originator
                           /\ r.nb[p].symmetric = d.nb[p].symmetric
  BY DEF SameObjects, Neighs, d
<1>8. /\ SymCount(d) /\ Reach(d)
      /\ \A p \in Neighs(d) : p /= n =>
           d.nb[p].originator \notin {NoOriginator, m.orig} /\ LinksOf(d, p) /= {}
      /\ Owned(d, owner, SenderNames(d, n, m.orig)) /\ Homed(d, home)
      /\ \A a \in ThisIf(m) : d.la[m.if][a] \in {NoSlot, l}
      /\ b.markN = NaddrsOf(d, n) /\ b.markL = {a \in Addrs : d.la[m.if][a] = l}
  BY DEF Ready, SenderKnown, d
<1>9. SymCount(r) /\ HasLinks(r)
  <2>1. SymCount(r)
    BY <1>5, <1>6, <1>7, <1>8 DEF SymCount
  <2>2. l \in LinksOf(d, n)
    BY <1>1 DEF LinksOf
  <2>3. HasLinks(r)
    BY <1>5, <1>8, <2>2 DEF HasLinks
  <2> QED
    BY <2>1, <2>3
<1>10. /\ \A a \in Addrs : r.na[a].neigh = IF a \in P THEN n ELSE d.na[a].neigh
       /\ \A a \in Addrs : r.na[a].lost = IF a \in P THEN Off
                             ELSE IF a \in b.markN THEN HoldTime ELSE d.na[a].lost
       /\ \A j \in Ifs, a \in Addrs :
            r.la[j][a] = IF j /= m.if THEN d.la[j][a]
                         ELSE IF a \in Q THEN l
                         ELSE IF d.la[j][a] = l THEN NoSlot ELSE d.la[j][a]
  <2>1. \A a \in Addrs : a \in b.markL <=> d.la[m.if][a] = l
    BY <1>8
  <2> QED
    BY <2>1 DEF Left, P, d
<1>11. h \in NaddrsOf(r, n) /\ r.na[h].lost = Off
  BY <1>1, <1>2, <1>10 DEF NaddrsOf
<1>12. Reach(r)
  <2> SUFFICES ASSUME NEW p \in Neighs(r), r.nb[p].symmetric > 0, p /= n
               PROVE  \E a \in NaddrsOf(r, p) : ~Active(r.na[a].lost)
    BY <1>11 DEF Reach, Active, Off
  <2>1. PICK a \in NaddrsOf(d, p) : ~Active(d.na[a].lost)
    BY <1>5, <1>7, <1>8 DEF Reach
  <2>2. a \in Addrs /\ d.na[a].neigh = p /\ p /= NoSlot
    BY <1>5, <2>1, NoSlotFree DEF NaddrsOf, Neighs
  <2>3. a \notin P /\ a \notin b.markN
    BY <1>4, <1>8, <2>2 DEF NaddrsOf
  <2> QED
    BY <1>10, <2>1, <2>2, <2>3 DEF NaddrsOf
<1>13. Owned(r, owner, SenderNames(r, n, m.orig))
  <2> DEFINE name == SenderNames(d, n, m.orig)
  <2>1. SenderNames(r, n, m.orig) = name /\ name[n] = m.orig
    BY <1>1, <1>5 DEF SenderNames, Names
  <2> HIDE DEF name
  <2>2. Owned(d, owner, name)
    BY <1>8 DEF name
  <2>3. \A a \in Addrs : r.na[a].neigh /= NoSlot => owner[a] = name[r.na[a].neigh]
    BY <1>3, <1>10, <2>1, <2>2 DEF Owned
  <2>4. ASSUME NEW j \in Ifs, NEW a \in Addrs, r.la[j][a] /= NoSlot
        PROVE  owner[a] = name[r.ln[r.la[j][a]].neigh]
    <3>1. \A k \in Links(d) : r.ln[k].neigh = d.ln[k].neigh
      BY DEF SameObjects, Links, d
    <3>2. CASE j = m.if /\ a \in Q
      BY <1>1, <1>3, <1>10, <2>1, <3>1, <3>2
    <3>3. CASE ~(j = m.if /\ a \in Q)
      <4>1. r.la[j][a] = d.la[j][a]
        BY <1>10, <2>4, <3>3
      <4>2. d.la[j][a] \in Links(d)
        BY <1>1, <2>4, <4>1 DEF Structure, Pointers, LinksOn
      <4> QED
        BY <2>2, <2>4, <3>1, <4>1, <4>2 DEF Owned
    <3> QED
      BY <3>2, <3>3
  <2> QED
    BY <2>1, <2>3, <2>4 DEF Owned
<1>14. Homed(r, home)
  <2> SUFFICES ASSUME NEW j \in Ifs, NEW a \in Addrs, r.la[j][a] /= NoSlot
               PROVE  r.la[j][home[j][a]] = r.la[j][a]
    BY DEF Homed
  <2>1. home[j][a] \in Addrs /\ h \in Addrs
    BY <1>1, <1>2 DEF HomeType
  <2>2. CASE j /= m.if
    BY <1>8, <1>10, <2>1, <2>2 DEF Homed
  <2>3. CASE j = m.if /\ a \in Q
    BY <1>2, <1>10, <2>1, <2>3
  <2>4. CASE j = m.if /\ a \notin Q
    <3>1. r.la[j][a] = d.la[j][a] /\ d.la[j][a] /= l
      BY <1>10, <2>4
    <3>2. d.la[j][home[j][a]] = d.la[j][a]
      BY <1>8, <3>1 DEF Homed
    <3>3. home[j][a] \notin Q
      <4>1. CASE ThisIf(m) /= {}
        <5>1. Q = ThisIf(m)
          BY <4>1 DEF TheseIf
        <5> QED
          BY <1>8, <2>4, <3>1, <3>2, <5>1
      <4>2. CASE ThisIf(m) = {}
        <5>1. Q = {m.src} /\ \A x \in Addrs : home[m.if][x] = m.src => x = m.src
          BY <4>2 DEF TheseIf, SteadyHello
        <5> QED
          BY <2>4, <5>1
      <4> QED
        BY <4>1, <4>2
    <3> QED
      BY <1>10, <2>1, <2>4, <3>1, <3>2, <3>3
  <2> QED
    BY <2>2, <2>3, <2>4
<1>15. r.ln[l].neigh = n
  BY <1>1 DEF SameObjects, d
<1>16. \A p \in Neighs(r) : p /= n => r.nb[p].originator \notin {NoOriginator, m.orig}
  BY <1>5, <1>7, <1>8
<1> QED
  BY <1>9, <1>11, <1>12, <1>13, <1>14, <1>15, <1>16 DEF Received, Usable

(* The two-hop addresses and the dropped addresses.                        *)
LEMMA DroppedReceived ==
    ASSUME NEW b, NEW c, NEW owner, NEW home \in HomeType, NEW m \in HelloMessage,
           SteadyHello(m, owner, home), Ready(b, m, owner, home),
           Walked(b, c, m, LocalAddrs(m) \cup TheseIf(m), TheseIf(m))
    PROVE  LET e == Pass2TwoHop(c, m)
               r == DropLeftovers(e, m)
           IN  /\ WorkingDb(r, b.neigh, b.link, m.if)
               /\ Received(r, b.neigh, b.link, m.orig, owner, home)
<1> DEFINE P == LocalAddrs(m) \cup TheseIf(m)
           Q == TheseIf(m)
           e == Pass2TwoHop(c, m)
           r == DropLeftovers(e, m)
<1>1. /\ Working(c, m) /\ ~c.bad /\ c.neigh = b.neigh /\ c.link = b.link
      /\ c.markN = b.markN \ P /\ c.markL = b.markL \ Q
      /\ SameObjects(b.db, c.db) /\ Moved(b, c.db, m.if, P, Q)
  BY DEF Walked
<1>2. /\ Working(e, m) /\ ~e.bad /\ e.neigh = c.neigh /\ e.link = c.link
      /\ e.markN = c.markN /\ e.markL = c.markL
      /\ Shape(c.db, e.db) /\ e.db.nb = c.db.nb /\ e.db.na = c.db.na
      /\ \A k \in LinkSlots : e.db.ln[k].status = c.db.ln[k].status
  BY <1>1, Pass2TwoHopValue
<1> HIDE DEF e, P, Q
<1>3. /\ WorkingDb(r, e.neigh, e.link, m.if)
      /\ r.nb = e.db.nb
      /\ \A k \in LinkSlots :
           /\ r.ln[k].used = e.db.ln[k].used
           /\ r.ln[k].neigh = e.db.ln[k].neigh
           /\ r.ln[k].if = e.db.ln[k].if
           /\ r.ln[k].status = e.db.ln[k].status
      /\ \A a \in Addrs :
           /\ r.na[a].neigh = e.db.na[a].neigh
           /\ r.na[a].lost = IF a \in e.markN THEN HoldTime ELSE e.db.na[a].lost
      /\ \A j \in Ifs, a \in Addrs :
           r.la[j][a] = IF j = m.if /\ a \in e.markL THEN NoSlot ELSE e.db.la[j][a]
  BY <1>2, DropLeftoversValue
<1> HIDE DEF r
<1>4. SameObjects(b.db, r)
  <2>1. SameObjects(c.db, r)
    BY <1>2, <1>3 DEF SameObjects, Shape
  <2> QED
    BY <1>1, <2>1, SameObjectsTrans
<1>5. e.db.la = c.db.la
  BY <1>2 DEF Shape
<1>6. Left(b, r, m.if, P, Q)
  <2>1. \A a \in Addrs :
          /\ r.na[a].neigh = IF a \in P THEN b.neigh ELSE b.db.na[a].neigh
          /\ r.na[a].lost = IF a \in P THEN Off
                            ELSE IF a \in b.markN THEN HoldTime ELSE b.db.na[a].lost
    BY <1>1, <1>2, <1>3 DEF Moved
  <2>2. \A j \in Ifs, a \in Addrs :
          r.la[j][a] = IF j /= m.if THEN b.db.la[j][a]
                       ELSE IF a \in Q THEN b.link
                       ELSE IF a \in b.markL THEN NoSlot ELSE b.db.la[j][a]
    BY <1>1, <1>2, <1>3, <1>5 DEF Moved
  <2> QED
    BY <2>1, <2>2 DEF Left
<1>7. Received(r, b.neigh, b.link, m.orig, owner, home)
  BY <1>4, <1>6, LeftReceived DEF P, Q
<1> QED
  BY <1>1, <1>2, <1>3, <1>7 DEF e, r

(* nhdp_db_link_update_status of the link to the sender.                   *)
LEMMA UpdateStatusReceived ==
    ASSUME NEW d, NEW n, NEW l, NEW i, WorkingDb(d, n, l, i), NEW o, NEW owner,
           NEW home \in HomeType, Received(d, n, l, o, owner, home)
    PROVE  /\ Received(UpdateStatus(d, l), n, l, o, owner, home)
           /\ Shape(d, UpdateStatus(d, l)) /\ Usable(UpdateStatus(d, l))
<1>1. Structure(d) /\ l \in Links(d) /\ l \in LinkSlots
  BY DEF WorkingDb, LinksOn, Links
<1>2. Usable(d) /\ NaddrsOf(d, d.ln[l].neigh) /= {}
  BY DEF Received
<1>3. Shape(d, UpdateStatus(d, l)) /\ Usable(UpdateStatus(d, l))
  BY <1>1, <1>2, UpdateStatusUsable
<1> QED
  BY <1>1, <1>3, SameReceived

(* The timers of the link, and the status that follows from sym_time.      *)
LEMMA TimesReceived ==
    ASSUME NEW d, NEW n, NEW l, NEW o, NEW owner, NEW home \in HomeType,
           NEW m \in HelloMessage, WorkingDb(d, n, l, m.if),
           Received(d, n, l, o, owner, home)
    PROVE  LET e == UpdateSymTime(d, l, m)
               r == UpdateLinkTimes(e, l, m)
           IN  WorkingDb(r, n, l, m.if) /\ Received(r, n, l, o, owner, home)
<1> DEFINE e == UpdateSymTime(d, l, m)
           r == UpdateLinkTimes(e, l, m)
<1>1. \A x : WorkingDb(x, n, l, m.if) => Structure(x) /\ l \in LinkSlots
  BY DEF WorkingDb, LinksOn, Links
<1>2. PICK x : TimersWritten(d, x, n, l, m.if) /\ (e = x \/ e = UpdateStatus(x, l))
  BY UpdateSymTimeValue
<1>3. WorkingDb(e, n, l, m.if)
  BY UpdateSymTimeWorking
<1> HIDE DEF e
<1>4. Received(x, n, l, o, owner, home)
  <2>1. Usable(x)
    BY <1>2, SameUsable DEF Received, TimersWritten
  <2> QED
    BY <1>1, <1>2, <2>1, SameReceived DEF TimersWritten
<1>5. Received(e, n, l, o, owner, home)
  <2>1. WorkingDb(x, n, l, m.if)
    BY <1>2 DEF TimersWritten
  <2>2. Received(UpdateStatus(x, l), n, l, o, owner, home)
    BY <1>4, <2>1, UpdateStatusReceived
  <2> QED
    BY <1>2, <1>4, <2>2
<1>6. /\ WorkingDb(r, n, l, m.if) /\ Shape(e, r) /\ r.nb = e.nb /\ r.na = e.na
      /\ \A k \in LinkSlots : r.ln[k].status = e.ln[k].status
  BY <1>3, UpdateLinkTimesValue
<1> HIDE DEF r
<1>7. Received(r, n, l, o, owner, home)
  <2>1. Usable(r)
    BY <1>5, <1>6, SameUsable DEF Received
  <2> QED
    BY <1>1, <1>3, <1>5, <1>6, <2>1, SameReceived
<1> QED
  BY <1>6, <1>7 DEF e, r

(* nhdp_db_neighbor_set_originator: the sender gets its name, and no other *)
(* neighbor loses its own.                                                 *)
LEMMA SetOriginatorReceived ==
    ASSUME NEW d, NEW n, NEW l, NEW i, WorkingDb(d, n, l, i),
           NEW o \in Originators, o /= NoOriginator, NEW owner,
           NEW home \in HomeType, Received(d, n, l, o, owner, home)
    PROVE  LET r == SetOriginator(d, n, o)
           IN  /\ WorkingDb(r, n, l, i) /\ Usable(r) /\ NaddrsOf(r, n) /= {}
               /\ r.ln[l].neigh = n
               /\ Named(r) /\ Owned(r, owner, Names(r)) /\ Homed(r, home)
<1> DEFINE r == SetOriginator(d, n, o)
           q == NeighByOriginator(d, o)
<1>1. Structure(d) /\ n \in Neighs(d) /\ n \in NeighSlots
  BY DEF WorkingDb, Neighs
<1>2. q \in {NoSlot, n}
  <2>1. \A p \in Neighs(d) : p /= n => d.nb[p].originator /= o
    BY DEF Received
  <2> QED
    BY <1>1, <2>1, NeighByOriginatorValue
<1>3. /\ Structure(r) /\ Neighs(r) = Neighs(d)
      /\ r.ln = d.ln /\ r.na = d.na /\ r.la = d.la
      /\ \A p \in NeighSlots :
           /\ r.nb[p].symmetric = d.nb[p].symmetric
           /\ r.nb[p].originator = IF p = n THEN o
                                   ELSE IF p = q THEN NoOriginator ELSE d.nb[p].originator
  BY <1>1, SetOriginatorStructure
<1> HIDE DEF r, q
<1>4. \A p \in NeighSlots : r.nb[p].originator = IF p = n THEN o ELSE d.nb[p].originator
  BY <1>2, <1>3, NoSlotFree
<1>5. Names(r) = SenderNames(d, n, o)
  BY <1>1, <1>4 DEF Names, SenderNames
<1>6. /\ Links(r) = Links(d) /\ \A p : LinksOf(r, p) = LinksOf(d, p)
      /\ \A p : SymLinks(r, p) = SymLinks(d, p) /\ NaddrsOf(r, p) = NaddrsOf(d, p)
      /\ \A j : LinksOn(r, j) = LinksOn(d, j)
  BY <1>3 DEF Links, LinksOf, LinksOn, SymLinks, NaddrsOf
<1>7. WorkingDb(r, n, l, i)
  BY <1>3, <1>6 DEF WorkingDb, LinksFineBut
<1>8. Usable(r)
  <2>1. \A p \in Neighs(d) : p \in NeighSlots
    BY DEF Neighs
  <2>2. SymCount(r) /\ HasLinks(r)
    BY <1>3, <1>6, <2>1 DEF Received, Usable, SymCount, HasLinks
  <2>3. Reach(r)
    BY <1>3, <1>6, <2>1 DEF Received, Usable, Reach
  <2> QED
    BY <2>2, <2>3 DEF Usable
<1>9. Named(r)
  BY <1>3, <1>4 DEF Received, Named, Neighs
<1>10. Owned(r, owner, Names(r)) /\ Homed(r, home)
  BY <1>3, <1>5 DEF Received, Owned, Homed
<1>11. NaddrsOf(r, n) /= {} /\ r.ln[l].neigh = n
  BY <1>3, <1>6 DEF Received
<1> QED
  BY <1>7, <1>8, <1>9, <1>10, <1>11 DEF r

(* A whole HELLO.                                                          *)
LEMMA HelloSteady ==
    ASSUME NEW d, NEW owner \in OwnerType, NEW home \in HomeType, Steady(d, owner, home),
           RoomForHello(d), NEW m \in HelloMessage, SteadyHello(m, owner, home)
    PROVE  LET c == Processed(d, m)
           IN  ~c.bad /\ Steady(c.db, owner, home)
<1> DEFINE b == Begun(d, m)
           c5 == DefaultThisIf(b, m)
           c6 == Pass2Locals(c5, m)
           c7 == Pass2TwoHop(c6, m)
           c8 == Pass2End(c7, m)
           d1 == DropLeftovers(c7, m)
           d3 == UpdateLinkTimes(UpdateSymTime(d1, b.link, m), b.link, m)
           d4 == SetOriginator(d3, b.neigh, m.orig)
           r == UpdateStatus(d4, b.link)
<1>1. DbInv(d)
  BY DEF Steady
<1>2. Processed(d, m) = c8
  BY DEF Processed, AfterPass1, Begun
<1>3. Ready(b, m, owner, home) /\ CountedL(b.db, m, 0)
  BY <1>1, BegunReady, BegunFresh DEF Fresh
<1> HIDE DEF b
<1>4. Walked(b, c5, m, Default(m), Default(m))
  BY <1>3, DefaultWalked
<1> HIDE DEF c5
<1>5. Walked(b, c6, m, LocalAddrs(m) \cup TheseIf(m), TheseIf(m))
  BY <1>3, <1>4, LoopWalked
<1> HIDE DEF c6
<1>6. /\ Working(c7, m) /\ ~c7.bad /\ c7.neigh = b.neigh /\ c7.link = b.link
  BY <1>5, Pass2TwoHopValue DEF Walked
<1>7. WorkingDb(d1, b.neigh, b.link, m.if) /\ Received(d1, b.neigh, b.link, m.orig, owner, home)
  BY <1>3, <1>5, DroppedReceived
<1> HIDE DEF c7, d1
<1>8. c8.bad = c7.bad /\ DbInv(c8.db)
  BY <1>6, Pass2EndInv
<1>9. c8.db = r
  <2>1. c7 \in CtxType
    BY <1>6 DEF Working
  <2> QED
    BY <1>6, <2>1 DEF Pass2End, CtxType, d1
<1>10. WorkingDb(d3, b.neigh, b.link, m.if) /\ Received(d3, b.neigh, b.link, m.orig, owner, home)
  BY <1>7, TimesReceived
<1> HIDE DEF c8, d3
<1>11. m.orig \in Originators /\ m.orig /= NoOriginator
  BY DEF SteadyHello, HelloMessage
<1>12. /\ WorkingDb(d4, b.neigh, b.link, m.if) /\ Usable(d4) /\ NaddrsOf(d4, b.neigh) /= {}
       /\ d4.ln[b.link].neigh = b.neigh
       /\ Named(d4) /\ Owned(d4, owner, Names(d4)) /\ Homed(d4, home)
  BY <1>10, <1>11, SetOriginatorReceived
<1> HIDE DEF d4
<1>13. Structure(d4) /\ b.link \in Links(d4)
  BY <1>12 DEF WorkingDb, LinksOn
<1>14. Shape(d4, r) /\ Usable(r)
  BY <1>12, <1>13, UpdateStatusUsable
<1> HIDE DEF r
<1>15. Named(r) /\ Owned(r, owner, Names(r)) /\ Homed(r, home)
  BY <1>12, <1>13, <1>14, SameOwned
<1>16. Steady(c8.db, owner, home)
  BY <1>8, <1>9, <1>14, <1>15 DEF Steady
<1> QED
  BY <1>2, <1>6, <1>8, <1>16

(* The initial database, and what the actions other than a HELLO do.       *)
LEMMA InitSteady ==
    ASSUME Init, NEW owner, NEW home \in HomeType
    PROVE  Steady(db, owner, home)
<1>1. /\ \A n \in NeighSlots : db.nb[n] = FreeNeigh
      /\ \A a \in Addrs : db.na[a] = NoNaddr
      /\ \A i \in Ifs, a \in Addrs : db.la[i][a] = NoSlot
  BY DEF Init, EmptyDb
<1>2. Neighs(db) = {}
  BY <1>1 DEF Neighs, FreeNeigh
<1>3. Usable(db) /\ Named(db)
  BY <1>2 DEF Usable, SymCount, HasLinks, Reach, Named
<1>4. Owned(db, owner, Names(db)) /\ Homed(db, home)
  BY <1>1 DEF Owned, Homed, NoNaddr, HomeType
<1> QED
  BY <1>3, <1>4, InitInv DEF Steady

(* A timer that fires, or time that passes, leaves the database steady.    *)
LEMMA TimerSteady ==
    ASSUME Unstable = {}, NEW owner, NEW home \in HomeType, Steady(db, owner, home),
           TimerFires
    PROVE  Steady(db', owner, home) /\ Calmer(db, db')
<1>1. ASSUME NEW l \in LinkSlots, LinkVtime(l)
      PROVE  Steady(db', owner, home) /\ Calmer(db, db')
  BY <1>1, LinkVtimeSteady DEF LinkVtime
<1>2. ASSUME NEW l \in LinkSlots, LinkHeard(l)
      PROVE  Steady(db', owner, home) /\ Calmer(db, db')
  BY <1>2, LinkHeardSteady DEF LinkHeard
<1>3. ASSUME NEW l \in LinkSlots, LinkSym(l)
      PROVE  Steady(db', owner, home) /\ Calmer(db, db')
  BY <1>3, LinkSymSteady DEF LinkSym
<1>4. ASSUME NEW l \in LinkSlots, NEW a \in Addrs, TwoHopVtime(l, a)
      PROVE  Steady(db', owner, home) /\ Calmer(db, db')
  BY <1>4, TwoHopSteady DEF TwoHopVtime
<1>5. ASSUME NEW a \in Addrs, NaddrVtime(a)
      PROVE  Steady(db', owner, home) /\ Calmer(db, db')
  BY <1>5, NaddrExpiredSteady DEF NaddrVtime
<1> QED
  BY <1>1, <1>2, <1>3, <1>4, <1>5 DEF TimerFires

(* The inductive invariant: no freed object was used, and the database is  *)
(* steady for the routers that send the HELLOs.                            *)
SteadyInv ==
    /\ ~undefined
    /\ \E owner \in OwnerType, home \in HomeType :
         (\A m \in Hellos : SteadyHello(m, owner, home)) /\ Steady(db, owner, home)

LEMMA NextSteady ==
    ASSUME SteadyHellos, SteadyInv, [Next]_vars
    PROVE  SteadyInv'
<1>1. /\ BadMessageTlv = {} /\ BadAddressTlv = {} /\ Unstable = {}
  BY DEF SteadyHellos
<1>2. PICK owner \in OwnerType, home \in HomeType :
        (\A m \in Hellos : SteadyHello(m, owner, home)) /\ Steady(db, owner, home)
  BY DEF SteadyInv
<1>3. ~undefined
  BY DEF SteadyInv
<1>4. ASSUME NEW m \in Hellos, Hello(m)
      PROVE  ~undefined' /\ Steady(db', owner, home)
  <2>1. m \in HelloMessage
    BY NhdpAssumption
  <2>2. RoomForHello(db) /\ SteadyHello(m, owner, home)
    BY <1>2, <1>4 DEF Hello
  <2>3. LET c == Processed(db, m)
        IN  ~c.bad /\ Steady(c.db, owner, home)
    BY <1>2, <2>1, <2>2, HelloSteady
  <2> QED
    BY <1>4, <2>3 DEF Hello
<1>5. CASE TimerFires
  <2>1. ~undefined' /\ Steady(db', owner, home)
    BY <1>1, <1>2, <1>5, TimerSteady DEF TimerFires
  <2> QED
    BY <1>2, <2>1 DEF SteadyInv
<1>6. CASE Tick
  <2>1. ~undefined' /\ Steady(db', owner, home)
    BY <1>2, <1>6, ElapseDbSteady DEF Tick
  <2> QED
    BY <1>2, <2>1 DEF SteadyInv
<1>7. CASE FallSilent \/ UNCHANGED vars
  BY <1>2, <1>3, <1>7 DEF FallSilent, vars, SteadyInv
<1>8. CASE \E m \in Hellos : Hello(m)
  <2>1. ~undefined' /\ Steady(db', owner, home)
    BY <1>4, <1>8
  <2> QED
    BY <1>2, <2>1 DEF SteadyInv
<1> QED
  BY <1>1, <1>5, <1>6, <1>7, <1>8 DEF Next

(* It always holds when routers keep their addresses: each HELLO finds the *)
(* neighbor and the link of its sender, or makes them, and takes nothing   *)
(* from another (nhdp_reader.c, both passes).                              *)
THEOREM SteadyAlways == SteadyHellos => (Spec => []SteadyInv)
<1>1. ASSUME SteadyHellos
      PROVE  Init => SteadyInv
  <2>1. PICK owner \in OwnerType, home \in HomeType :
          \A m \in Hellos : SteadyHello(m, owner, home)
    BY <1>1 DEF SteadyHellos, OwnerType, HomeType
  <2>2. Init => ~undefined /\ Steady(db, owner, home)
    BY InitSteady DEF Init
  <2> QED
    BY <2>1, <2>2 DEF SteadyInv
<1>2. ASSUME SteadyHellos
      PROVE  SteadyInv /\ [Next]_vars => SteadyInv'
  BY <1>2, NextSteady
<1>3. ASSUME SteadyHellos
      PROVE  Spec => []SteadyInv
  BY <1>1, <1>2, <1>3, PTL DEF Spec
<1> QED
  BY <1>3

(* The types of the session, and the bound of the counters of symmetric    *)
(* links.                                                                  *)
Sized ==
    /\ current.link \in LinkSlots \cup {NoSlot}
    /\ current.neigh \in NeighSlots \cup {NoSlot}
    /\ CountersBounded(db) /\ undefined \in BOOLEAN /\ silent \in BOOLEAN

LEMMA NextSized ==
    ASSUME SteadyHellos, SteadyInv, SteadyInv', Sized, [Next]_vars
    PROVE  Sized'
<1>1. /\ BadMessageTlv = {} /\ BadAddressTlv = {} /\ Unstable = {}
  BY DEF SteadyHellos
<1>2. PICK owner \in OwnerType, home \in HomeType : Steady(db, owner, home)
  BY DEF SteadyInv
<1>3. DbInv(db) /\ Usable(db) /\ Usable(db')
  BY <1>2 DEF SteadyInv, Steady
<1>4. ASSUME NEW m \in Hellos, Hello(m)
      PROVE  Sized'
  <2>1. m \in HelloMessage /\ RoomForHello(db)
    BY <1>4, NhdpAssumption DEF Hello
  <2>2. Processed(db, m) \in CtxType
    BY <1>3, <2>1, ProcessedInv
  <2>3. /\ Processed(db, m).link \in LinkSlots \cup {NoSlot}
        /\ Processed(db, m).neigh \in NeighSlots \cup {NoSlot}
        /\ Processed(db, m).bad \in BOOLEAN
    BY <2>2 DEF CtxType
  <2>4. /\ current' = [link |-> Processed(db, m).link, neigh |-> Processed(db, m).neigh]
        /\ undefined' = Processed(db, m).bad /\ silent' = silent
        /\ ~undefined' => db' = Processed(db, m).db
        /\ CountersBounded(Processed(db, m).db)
    BY <1>4 DEF Hello
  <2>5. ~undefined'
    BY DEF SteadyInv
  <2> QED
    BY <2>3, <2>4, <2>5 DEF Sized
<1>5. CASE TimerFires \/ Tick
  <2>1. Calmer(db, db')
    BY <1>1, <1>2, <1>5, TimerSteady, ElapseDbSteady DEF Tick
  <2>2. CountersBounded(db')
    BY <1>3, <2>1, CalmerCounts DEF Sized
  <2> QED
    BY <1>5, <2>2 DEF Sized, TimerFires, Tick
<1>6. CASE FallSilent \/ UNCHANGED vars
  BY <1>6 DEF FallSilent, vars, Sized
<1> QED
  BY <1>1, <1>4, <1>5, <1>6 DEF Next

(* Every timer, counter and pointer of the database and of the session     *)
(* keeps its type, and neigh->symmetric the bound that HELLOs respect.     *)
THEOREM TypesAlwaysOK == SteadyHellos => (Spec => []TypeOK)
<1>1. Init => Sized
  <2> SUFFICES ASSUME Init PROVE Sized
    OBVIOUS
  <2>1. Neighs(db) = {}
    BY DEF Init, EmptyDb, Neighs, FreeNeigh
  <2> QED
    BY <2>1 DEF Init, Sized, CountersBounded, NoSession
<1>2. ASSUME SteadyHellos
      PROVE  SteadyInv /\ SteadyInv' /\ Sized /\ [Next]_vars => Sized'
  BY <1>2, NextSized
<1>3. SteadyInv /\ Sized => TypeOK
  <2> SUFFICES ASSUME SteadyInv, Sized PROVE TypeOK
    OBVIOUS
  <2>1. db \in DbType
    BY DEF SteadyInv, Steady, DbInv, Structure
  <2>2. ASSUME NEW n \in NeighSlots
        PROVE  /\ db.nb[n].used \in BOOLEAN
               /\ db.nb[n].originator \in Originators \cup {NoOriginator}
               /\ db.nb[n].symmetric \in Int
               /\ db.nb[n].process_count \in Int
    BY <2>1, DbFields DEF NeighType
  <2>3. ASSUME NEW l \in LinkSlots
        PROVE  /\ db.ln[l].status \in Statuses
               /\ {db.ln[l].sym_time, db.ln[l].heard_time, db.ln[l].vtime}
                    \subseteq Timers
               /\ db.ln[l].twohop \in [Addrs -> Timers]
               /\ db.ln[l].process_count \in Int
    BY <2>1, DbFields DEF LinkType, LinkStatus, Statuses
  <2> QED
    BY <2>2, <2>3 DEF TypeOK, Sized, CountersBounded
<1>4. ASSUME SteadyHellos
      PROVE  Spec => []TypeOK
  <2>1. Spec => []SteadyInv
    BY <1>4, SteadyAlways
  <2> QED
    BY <1>1, <1>2, <1>3, <1>4, <2>1, PTL DEF Spec
<1> QED
  BY <1>4

(* What NHDP caches of the timers of a link agrees with them: link->status *)
(* is what the timers say, neigh->symmetric counts the symmetric links of  *)
(* the neighbor, and no link is removed while it is symmetric, as long as  *)
(* the routers keep their addresses, whatever HELLOs they send and in      *)
(* whatever order timers run out.                                          *)
THEOREM LinkStateAlwaysCached == SteadyHellos => (Spec => []LinkStateCached)
<1>1. ASSUME SteadyHellos
      PROVE  SteadyInv => LinkStateCached
  <2> SUFFICES ASSUME SteadyInv PROVE LinkStateCached
    OBVIOUS
  <2>1. Unstable = {}
    BY <1>1 DEF SteadyHellos
  <2>2. DbInv(db) /\ SymCount(db)
    BY DEF SteadyInv, Steady, Usable
  <2>3. StatusCached /\ SymmetricOutlived
    BY <2>1, <2>2 DEF DbInv, LinkFine, Cached, Ordered, StatusCached, SymmetricOutlived
  <2>4. SymmetricCount
    BY <2>2 DEF SymCount, SymLinks, SymmetricCount
  <2> QED
    BY <2>3, <2>4 DEF LinkStateCached
<1>2. ASSUME SteadyHellos
      PROVE  Spec => []LinkStateCached
  BY <1>1, <1>2, SteadyAlways, PTL
<1> QED
  BY <1>2

(* Every neighbor has a link, and every symmetric one an address by which  *)
(* it can be reached: HELLOs that add and drop addresses, addresses that   *)
(* expire while links go and come do not leave a symmetric neighbor behind *)
(* that has none.                                                          *)
THEOREM NeighborsStayUsable == SteadyHellos => (Spec => []NeighborUsable)
<1>1. SteadyInv => NeighborUsable
  BY DEF SteadyInv, Steady, Usable, HasLinks, Reach, NeighborUsable, NeighborHasLink,
         SymmetricHasAddress
<1>2. ASSUME SteadyHellos
      PROVE  Spec => []NeighborUsable
  BY <1>1, <1>2, SteadyAlways, PTL
<1> QED
  BY <1>2
-----------------------------------------------------------------------------
(* A link is freed in the middle of a HELLO only if its addresses have     *)
(* several owners.  With one owner, or none, all addresses of the HELLO    *)
(* belong to the neighbor of the session or to nobody, from the beginning  *)
(* of pass 2 to its end, so that no neighbor is removed.                   *)
OneOwner(c, m) == \A a \in LocalAddrs(m) : c.db.na[a].neigh \in {NoSlot, c.neigh}
SoleSender(c, m) == Working(c, m) /\ ~c.bad /\ OneOwner(c, m)

(* _pass2_process_localif, first half, leaves neighbors and their          *)
(* addresses alone.                                                        *)
LEMMA ProcessLinkAddrNeighs ==
    ASSUME NEW c, NEW m \in HelloMessage, Working(c, m), ~c.bad, NEW a \in Addrs
    PROVE  LET r == ProcessLinkAddr(c, m.if, a)
           IN  r.db.nb = c.db.nb /\ r.db.na = c.db.na
<1> DEFINE i == m.if
           l == c.db.la[i][a]
           moved == [c.db EXCEPT !.la[i][a] = c.link]
           counted == [moved EXCEPT !.ln[l].process_count = @ - 1]
           done == counted.ln[l].process_count = 0
           d == IF l /= c.link /\ done THEN LinksRemove(counted, {l}) ELSE counted
           r == ProcessLinkAddr(c, i, a)
<1>0. c \in CtxType /\ WorkingDb(c.db, c.neigh, c.link, i) /\ i \in Ifs
  BY DEF Working, WorkingDb, HelloMessage
<1>1. Structure(moved) /\ moved.nb = c.db.nb /\ moved.na = c.db.na
  BY <1>0, LinkAddrMove DEF WorkingDb
<1>2. r = IF l = NoSlot THEN [c EXCEPT !.db = moved]
          ELSE [c EXCEPT !.markL = c.markL \ {a}, !.db = d]
  BY <1>0 DEF ProcessLinkAddr, CtxType
<1>3. l \in LinkSlots \cup {NoSlot}
  BY <1>0, DbFields DEF WorkingDb, Structure
<1> HIDE DEF moved, r, l, i
<1>4. CASE l = NoSlot
  <2>1. r.db = moved
    BY <1>0, <1>2, <1>4 DEF CtxType
  <2> QED
    BY <1>1, <2>1 DEF r, i
<1>5. CASE l /= NoSlot
  <2>1. l \in LinkSlots /\ moved \in DbType
    BY <1>1, <1>3, <1>5 DEF Structure
  <2>2. counted \in DbType /\ counted.nb = moved.nb /\ counted.na = moved.na
    BY <2>1, LinkCountDown
  <2> HIDE DEF counted, done
  <2>3. d.nb = moved.nb /\ d.na = moved.na
    BY <2>2, LinksRemoveValue
  <2> HIDE DEF d
  <2>4. r.db = d
    BY <1>0, <1>2, <1>5 DEF CtxType
  <2> QED
    BY <1>1, <2>3, <2>4 DEF r, i
<1> QED
  BY <1>4, <1>5

(* The second half removes no neighbor when the address had no other owner *)
(* or one that the HELLO does not count.                                   *)
LEMMA ProcessNeighAddrSole ==
    ASSUME NEW c, NEW m \in HelloMessage, Working(c, m), ~c.bad, NEW a \in Addrs,
           \/ c.db.na[a].neigh \in {NoSlot, c.neigh}
           \/ c.db.nb[c.db.na[a].neigh].process_count = 0
    PROVE  LET r == ProcessNeighAddr(c, a)
           IN  /\ ~r.bad
               /\ \A b \in Addrs :
                    r.db.na[b].neigh = IF b = a THEN c.neigh ELSE c.db.na[b].neigh
<1> DEFINE n == c.db.na[a].neigh
           moved == [c.db EXCEPT !.na[a] = [neigh |-> c.neigh, lost |-> Off]]
           counted == [moved EXCEPT !.nb[n].process_count = @ - 1]
           freed == n /= c.neigh /\ counted.nb[n].process_count = 0
           d == IF freed THEN NeighborRemove(counted, n) ELSE counted
           bad == c.bad \/ (freed /\ c.link \in LinksOf(counted, n))
           r == ProcessNeighAddr(c, a)
<1>0. c \in CtxType /\ WorkingDb(c.db, c.neigh, c.link, m.if)
  BY DEF Working, WorkingDb, HelloMessage
<1>1. /\ Structure(moved) /\ moved.nb = c.db.nb
      /\ \A b \in Addrs :
           moved.na[b].neigh = IF b = a THEN c.neigh ELSE c.db.na[b].neigh
  BY <1>0, NaddrMove DEF WorkingDb
<1>2. r = IF n = NoSlot THEN [c EXCEPT !.db = moved]
          ELSE [c EXCEPT !.markN = c.markN \ {a}, !.db = d, !.bad = bad]
  BY <1>0 DEF ProcessNeighAddr, CtxType
<1>3. n \in NeighSlots \cup {NoSlot}
  <2>1. c.db.na[a] \in NaddrType
    BY <1>0, DbFields DEF WorkingDb, Structure
  <2> QED
    BY <2>1 DEF NaddrType
<1>30. n \in {NoSlot, c.neigh} \/ c.db.nb[n].process_count = 0
  OBVIOUS
<1> HIDE DEF moved, r, n
<1>4. CASE n = NoSlot
  <2>1. r.db = moved /\ r.bad = c.bad
    BY <1>0, <1>2, <1>4 DEF CtxType
  <2> QED
    BY <1>1, <2>1 DEF r
<1>5. CASE n /= NoSlot
  <2>1. n \in NeighSlots /\ moved \in DbType
    BY <1>1, <1>3, <1>5 DEF Structure
  <2>2. /\ counted.na = moved.na
        /\ counted.nb[n].process_count = moved.nb[n].process_count - 1
    BY <2>1, NeighCountDown
  <2> HIDE DEF counted
  <2>3. ~freed
    BY <1>1, <1>30, <1>5, <2>2
  <2>4. d = counted /\ ~bad
    BY <2>3
  <2> HIDE DEF d, bad
  <2>5. r.db = d /\ r.bad = bad
    BY <1>0, <1>2, <1>5 DEF CtxType
  <2> QED
    BY <1>1, <2>2, <2>4, <2>5 DEF r
<1> QED
  BY <1>4, <1>5

(* Both halves.                                                            *)
LEMMA ProcessLocalIfSole ==
    ASSUME NEW c, NEW m \in HelloMessage, SoleSender(c, m), NEW a \in Addrs, NEW kind,
           \/ c.db.na[a].neigh \in {NoSlot, c.neigh}
           \/ c.db.nb[c.db.na[a].neigh].process_count = 0
    PROVE  SoleSender(ProcessLocalIf(c, m, a, kind), m)
<1> DEFINE e == IF kind = "THIS" THEN ProcessLinkAddr(c, m.if, a) ELSE c
           r == ProcessNeighAddr(e, a)
<1>0. Working(c, m) /\ ~c.bad /\ OneOwner(c, m)
  BY DEF SoleSender
<1>1. /\ Working(e, m) /\ ~e.bad /\ e.neigh = c.neigh
      /\ e.db.nb = c.db.nb /\ e.db.na = c.db.na
  BY <1>0, ProcessLinkAddrWorking, ProcessLinkAddrNeighs
<1>2. ProcessLocalIf(c, m, a, kind) = r
  BY <1>0 DEF ProcessLocalIf
<1> HIDE DEF e
<1>3. Working(r, m) /\ r.neigh = c.neigh
  BY <1>1, ProcessNeighAddrWorking
<1>4. /\ ~r.bad
      /\ \A b \in Addrs : r.db.na[b].neigh = IF b = a THEN c.neigh ELSE c.db.na[b].neigh
  BY <1>1, ProcessNeighAddrSole
<1> HIDE DEF r
<1>5. OneOwner(r, m)
  <2>1. LocalAddrs(m) \subseteq Addrs
    BY HelloAddrs
  <2> QED
    BY <1>0, <1>3, <1>4, <2>1 DEF OneOwner
<1> QED
  BY <1>2, <1>3, <1>4, <1>5 DEF SoleSender

(* The loop, up to any of the addresses.                                   *)
LEMMA Pass2UntilSole ==
    ASSUME NEW c, NEW m \in HelloMessage, SoleSender(c, m), NEW N \in 0 .. Len(m.locals)
    PROVE  SoleSender(Pass2Until(c, m, N), m)
<1> DEFINE S == {x \in CtxType : SoleSender(x, m)}
<1>0. PICK h : Rounds(h, c, m, N) /\ h[N] = Pass2Until(c, m, N)
  BY Pass2UntilRuns DEF SoleSender
<1>1. /\ h[0] = c /\ h[N] = Pass2Until(c, m, N)
      /\ \A k \in 1 .. N :
           h[k] = ProcessLocalIf(h[k - 1], m, m.locals[k][1], m.locals[k][2])
  BY <1>0 DEF Rounds
<1>2. /\ N \in Nat
      /\ \A k \in 1 .. N : m.locals[k][1] \in Addrs /\ m.locals[k][1] \in LocalAddrs(m)
  <2>1. Len(m.locals) \in Nat /\ DOMAIN m.locals = 1 .. Len(m.locals)
    BY DEF HelloMessage
  <2>2. LocalAddrs(m) \subseteq Addrs
    BY HelloAddrs
  <2> QED
    BY <2>1, <2>2 DEF LocalAddrs
<1>3. h[0] \in S
  BY <1>1 DEF SoleSender, Working
<1>4. ASSUME NEW k \in 1 .. N, h[k - 1] \in S
      PROVE  h[k] \in S
  <2> DEFINE x == h[k - 1]
             a == m.locals[k][1]
  <2>1. SoleSender(x, m) /\ a \in Addrs /\ x.db.na[a].neigh \in {NoSlot, x.neigh}
    BY <1>2, <1>4 DEF SoleSender, OneOwner
  <2> HIDE DEF x, a
  <2>2. SoleSender(ProcessLocalIf(x, m, a, m.locals[k][2]), m)
    BY <2>1, ProcessLocalIfSole
  <2>3. SoleSender(h[k], m)
    BY <1>1, <2>2 DEF x, a
  <2> QED
    BY <2>3 DEF SoleSender, Working
<1> HIDE DEF S
<1>5. \A k \in 0 .. N : h[k] \in S
  BY <1>2, <1>3, <1>4, LoopInvariant
<1> QED
  BY <1>1, <1>2, <1>5 DEF S

(* The neighbor that owns an address of the HELLO is its sender, whatever  *)
(* the originator says.                                                    *)
LEMMA BegunSender ==
    ASSUME NEW d, DbInv(d), NEW m \in HelloMessage, NEW p,
           OwningNeighs(d, m) = {p}, p /= NoSlot, p \in NeighSlots
    PROVE  Begun(d, m).neigh = p
<1> DEFINE c1 == Pass1(d, m)
           c2 == HandleOriginator(c1, m)
           c3 == TakeNeighbor(c2)
           c4 == TakeLink(c3, m)
<1>1. Unique({p}) = p
  BY NhdpDbAssumption, UniqueOfOne
<1>2. c1.neigh = p
  BY <1>1 DEF Pass1
<1>3. Searching(c1, m)
  BY Pass1Searching
<1> HIDE DEF c1
<1>4. c2.neigh = p
  BY <1>2, <1>3 DEF HandleOriginator, Searching, CtxType
<1>5. Searching(c2, m)
  BY <1>3, HandleOriginatorSearching
<1> HIDE DEF c2
<1>6. c3 \in CtxType /\ c3.neigh = p
  <2>1. NaddrsOf(c2.db, c2.neigh) \subseteq Addrs
    BY DEF NaddrsOf
  <2> QED
    BY <1>4, <1>5, <2>1 DEF TakeNeighbor, Searching, CtxType
<1>7. Begun(d, m) = c4
  BY DEF Begun, c1, c2
<1> HIDE DEF c3
<1>8. c4.neigh = p
  BY <1>6 DEF TakeLink, CtxType
<1> QED
  BY <1>7, <1>8

(* So the loop begins with all addresses at the sender, or nowhere.        *)
LEMMA BegunSole ==
    ASSUME NEW d, DbInv(d), RoomForHello(d), NEW m \in HelloMessage,
           ~(Cardinality(OwningNeighs(d, m)) > 1)
    PROVE  SoleSender(Begun(d, m), m)
<1> DEFINE b == Begun(d, m)
           O == OwningNeighs(d, m)
<1>1. Working(b, m) /\ ~b.bad /\ \A a \in Addrs : b.db.na[a].neigh = d.na[a].neigh
  BY BegunFresh DEF Fresh
<1>2. LocalAddrs(m) \subseteq Addrs
  BY HelloAddrs
<1>3. O \subseteq NeighSlots /\ IsFiniteSet(O)
  <2>1. O \subseteq NeighSlots
    BY <1>2 DEF OwningNeighs, DbInv, Structure, Pointers, Neighs
  <2> DEFINE D == DOMAIN m.locals
             img == [j \in D |-> d.na[m.locals[j][1]].neigh]
             I == {img[j] : j \in D}
  <2>2. IsFiniteSet(D) /\ img \in Surjection(D, I)
    BY CountType DEF Surjection
  <2>3. O \subseteq I
    BY DEF OwningNeighs, LocalAddrs
  <2> HIDE DEF O, D, I, img
  <2>4. IsFiniteSet(I)
    BY <2>2, FS_Surjection
  <2> QED
    BY <2>1, <2>3, <2>4, FS_Subset
<1>4. \A a \in LocalAddrs(m) : d.na[a].neigh \in O \cup {NoSlot}
  BY DEF OwningNeighs
<1>5. NoSlot \notin O
  BY DEF OwningNeighs
<1>6. \A a \in LocalAddrs(m) : b.db.na[a].neigh \in {NoSlot, b.neigh}
  <2>1. CASE O = {}
    BY <1>1, <1>2, <1>4, <2>1
  <2>2. CASE O /= {}
    <3>1. PICK p : O = {p}
      <4>1. Cardinality(O) \in Nat /\ Cardinality(O) /= 0
        BY <1>3, <2>2, FS_CardinalityType, FS_EmptySet
      <4>2. Cardinality(O) = 1
        BY <4>1
      <4> QED
        BY <1>3, <4>2, FS_Singleton
    <3>2. b.neigh = p
      <4>1. p \in NeighSlots /\ p /= NoSlot
        BY <1>3, <1>5, <3>1
      <4> QED
        BY <3>1, <4>1, BegunSender
    <3> HIDE DEF O, b
    <3> QED
      BY <1>1, <1>2, <1>4, <3>1, <3>2
  <2> QED
    BY <2>1, <2>2
<1> HIDE DEF b
<1> QED
  BY <1>1, <1>6 DEF SoleSender, OneOwner, b

(* The source address of a HELLO without THIS_IF may have another owner,   *)
(* one the HELLO does not count: its _process_count only becomes negative. *)
LEMMA AfterPass1Sole ==
    ASSUME NEW d, DbInv(d), RoomForHello(d), NEW m \in HelloMessage,
           ~(Cardinality(OwningNeighs(d, m)) > 1)
    PROVE  SoleSender(AfterPass1(d, m), m)
<1> DEFINE b == Begun(d, m)
           q == b.db.na[m.src].neigh
<1>1. AfterPass1(d, m) = DefaultThisIf(b, m)
  BY DEF AfterPass1, Begun
<1>2. SoleSender(b, m)
  BY BegunSole
<1>3. CountedN(b.db, m, 0) /\ Working(b, m) /\ ~b.bad
  BY BegunFresh DEF Fresh
<1>4. m.src \in Addrs
  BY DEF HelloMessage
<1> HIDE DEF b
<1>5. ASSUME q \notin {NoSlot, b.neigh}
      PROVE  b.db.nb[q].process_count = 0
  <2>1. q \in NeighSlots
    BY <1>3, <1>4, <1>5 DEF Working, Structure, Pointers, Neighs
  <2>2. LeftN(b.db, m, 0, q) = {}
    BY <1>2, <1>5 DEF SoleSender, OneOwner, LocalAddrs, LeftN
  <2> QED
    BY <1>3, <2>1, <2>2, FS_EmptySet DEF CountedN
<1>6. SoleSender(ProcessLocalIf(b, m, m.src, "THIS"), m)
  BY <1>2, <1>4, <1>5, ProcessLocalIfSole
<1> QED
  BY <1>1, <1>2, <1>6 DEF DefaultThisIf

(* A whole HELLO.                                                          *)
LEMMA ProcessedSole ==
    ASSUME NEW d, DbInv(d), RoomForHello(d), NEW m \in HelloMessage,
           ~(Cardinality(OwningNeighs(d, m)) > 1)
    PROVE  ~Processed(d, m).bad
<1> DEFINE c5 == AfterPass1(d, m)
           c6 == Pass2Locals(c5, m)
           c7 == Pass2TwoHop(c6, m)
<1>1. Processed(d, m) = Pass2End(c7, m)
  BY DEF Processed
<1>2. SoleSender(c5, m)
  BY AfterPass1Sole
<1> HIDE DEF c5
<1>3. SoleSender(c6, m)
  <2>1. Len(m.locals) \in 0 .. Len(m.locals)
    BY DEF HelloMessage
  <2> QED
    BY <1>2, <2>1, Pass2UntilSole DEF Pass2Locals
<1> HIDE DEF c6
<1>4. Working(c7, m) /\ ~c7.bad
  BY <1>3, Pass2TwoHopWorking, Pass2TwoHopValue DEF SoleSender
<1> HIDE DEF c7
<1> QED
  BY <1>1, <1>4, Pass2EndInv

(* The link that is being processed is freed only by a HELLO that merges   *)
(* neighbors (nhdp_reader.c, 291 to 311), whatever the addresses of the    *)
(* HELLO are, repeated ones and a foreign source address included, whether *)
(* the HELLO is processed to its end or dropped in pass 2, and whatever    *)
(* became of the database before.                                          *)
THEOREM MergesAloneFree == Spec => FreedOnlyByMerge
<1> DEFINE Merged ==
      \A m \in Hellos \cup BadAddressTlv :
        undefined' /\ (Hello(m) \/ HelloBadPass2Tlv(m))
        => Cardinality(OwningNeighs(db, m)) > 1
<1>1. Init => DbInv(db)
  BY InitInv
<1>2. DbInv(db) /\ [Next]_vars => DbInv(db)'
  BY NextInv
<1>3. DbInv(db) => Merged
  <2> SUFFICES ASSUME DbInv(db), NEW m \in Hellos \cup BadAddressTlv,
                      Hello(m) \/ HelloBadPass2Tlv(m),
                      ~(Cardinality(OwningNeighs(db, m)) > 1)
               PROVE  ~undefined'
    OBVIOUS
  <2>1. m \in HelloMessage
    BY NhdpAssumption
  <2>2. RoomForHello(db)
    BY DEF Hello, HelloBadPass2Tlv
  <2>3. CASE Hello(m)
    <3>1. ~Processed(db, m).bad
      BY <2>1, <2>2, ProcessedSole
    <3> QED
      BY <2>3, <3>1 DEF Hello
  <2>4. CASE HelloBadPass2Tlv(m)
    <3>1. PICK k \in 0 .. Len(m.locals) :
            undefined' = Pass2Until(AfterPass1(db, m), m, k).bad
      BY <2>4 DEF HelloBadPass2Tlv
    <3>2. SoleSender(AfterPass1(db, m), m)
      BY <2>1, <2>2, AfterPass1Sole
    <3>3. SoleSender(Pass2Until(AfterPass1(db, m), m, k), m)
      BY <2>1, <3>2, Pass2UntilSole
    <3> QED
      BY <3>1, <3>3 DEF SoleSender
  <2> QED
    BY <2>3, <2>4
<1>4. DbInv(db) /\ [Next]_vars => [Merged]_vars
  BY <1>3
<1>5. Spec => [][Merged]_vars
  <2> HIDE DEF Merged
  <2> QED
    BY <1>1, <1>2, <1>4, PTL DEF Spec
<1> QED
  BY <1>5 DEF FreedOnlyByMerge
=============================================================================
