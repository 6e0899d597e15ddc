------------------------- MODULE OlsrRoutingProofs --------------------------
(***************************************************************************)
(* For every set of destinations, topologies and tables, every size of a   *)
(* netlink buffer, any kernel errors and any lateness of the kernel: the   *)
(* assert of os_routing_linux_set never fails, in_processing agrees with   *)
(* the feedback tree, a topology change is never forgotten, and the state  *)
(* has its type.  With a kernel that answers promptly and rejects no route *)
(* the kernel agrees with the routing entries whenever nothing is under    *)
(* way, and the direct route of a gateway that has one is in the kernel    *)
(* before a route through the gateway.                                     *)
(*                                                                         *)
(* Four invariants, each with the one before it.  Inv needs only the      *)
(* types: what the netlink buffers hold does not matter, since an answer   *)
(* for a route that no longer waits is ignored.  FullInv adds what the     *)
(* buffers hold: a wanted request or answer is of a route in the feedback  *)
(* tree, so the answer finds an entry that is in the routing tree.         *)
(* PromptInv adds what the requests under way will still do, and that the  *)
(* kernel has done the rest; GatewayInv adds the order of the requests.    *)
(***************************************************************************)
EXTENDS OlsrRouting, Integers, SequenceTheorems, WellFoundedInduction, TLAPS

Entry == [present : BOOLEAN, set : BOOLEAN, in_processing : BOOLEAN,
          p : Param, old : Param]

(* The types the argument needs.                                           *)
RtType ==
    /\ rt \in [Dests -> Entry]
    /\ feedback \subseteq Dests
    /\ want \in [Dests -> Hops \cup {NoRoute}]
    /\ table \in Tables
    /\ stopped \in BOOLEAN
    /\ trigger \in BOOLEAN
    /\ failed \in BOOLEAN

(* The inductive invariant.                                                *)
Inv ==
    /\ RtType
    /\ NoAssertFails
    /\ ProcessingMeansFeedback
    /\ NoLostTrigger
-----------------------------------------------------------------------------
(* _cb_route_finished always ends the processing of its entry.             *)
LEMMA RouteFinishedEnds ==
    ASSUME NEW e \in Entry, NEW err
    PROVE  /\ RouteFinished(e, err) \in Entry
           /\ ~RouteFinished(e, err).in_processing
<1>1. Absent \in Entry /\ ~Absent.in_processing
  BY DEF Absent, NoParam, Entry, Param
<1>2. /\ [e EXCEPT !.in_processing = FALSE] \in Entry
      /\ ~[e EXCEPT !.in_processing = FALSE].in_processing
      /\ [[e EXCEPT !.in_processing = FALSE] EXCEPT !.set = TRUE] \in Entry
      /\ ~[[e EXCEPT !.in_processing = FALSE] EXCEPT !.set = TRUE].in_processing
  BY DEF Entry
<1>3. QED
  BY <1>1, <1>2 DEF RouteFinished

(* _process_kernel_queue takes exactly the queued entries that are not in  *)
(* processing, so it keeps in_processing and the feedback tree together,   *)
(* and no request meets an open one of its route.                          *)
LEMMA ProcessKernelQueueKeeps ==
    ASSUME NEW r \in [Dests -> Entry], NEW n, NEW f \in SUBSET Dests,
           NEW D \in SUBSET Dests,
           \A d \in f : r[d].in_processing
    PROVE  LET s == ProcessKernelQueue(r, n, f, D)
           IN  /\ s.rt \in [Dests -> Entry]
               /\ s.feedback \in SUBSET Dests
               /\ ~s.failed
               /\ \A d \in s.feedback : s.rt[d].in_processing
               /\ (\A d \in Dests : r[d].in_processing => d \in f) =>
                     \A d \in Dests : s.rt[d].in_processing => d \in s.feedback
<1> DEFINE todo == {d \in D : ~r[d].in_processing}
           s == ProcessKernelQueue(r, n, f, D)
<1>1. /\ s.rt = [d \in Dests |-> [r[d] EXCEPT !.in_processing = @ \/ d \in todo]]
      /\ s.feedback = f \cup todo
      /\ s.failed = (todo \cap f # {})
  BY DEF ProcessKernelQueue
<1>2. ASSUME NEW d \in Dests
      PROVE  /\ s.rt[d] \in Entry
             /\ s.rt[d].in_processing <=> (r[d].in_processing \/ d \in todo)
  <2> DEFINE b == r[d].in_processing \/ d \in todo
  <2>1. b \in BOOLEAN
    OBVIOUS
  <2>2. s.rt[d] = [r[d] EXCEPT !.in_processing = b]
    BY <1>1
  <2> HIDE DEF b
  <2>3. s.rt[d] \in Entry /\ s.rt[d].in_processing = b
    BY <2>1, <2>2 DEF Entry
  <2>4. QED
    BY <2>3 DEF b
<1>3. todo \cap f = {}
  OBVIOUS
<1>4. s.rt \in [Dests -> Entry]
  <2>1. s.rt = [d \in Dests |-> s.rt[d]]
    BY <1>1
  <2>2. QED
    BY <2>1, <1>2
<1>5. \A d \in s.feedback : s.rt[d].in_processing
  BY <1>1, <1>2
<1>6. ASSUME \A d \in Dests : r[d].in_processing => d \in f,
             NEW d \in Dests, s.rt[d].in_processing
      PROVE  d \in s.feedback
  BY <1>1, <1>2, <1>6
<1> HIDE DEF s
<1>7. QED
  BY <1>1, <1>3, <1>4, <1>5, <1>6 DEF s

(* The passes of a Dijkstra change neither in_processing nor the types.    *)
LEMMA DijkstraKeeps ==
    ASSUME RtType
    PROVE  LET r == InitializeParameters(DijkstraResult(PrepareRoutes(rt)))
           IN  /\ r \in [Dests -> Entry]
               /\ \A d \in Dests : r[d].in_processing = rt[d].in_processing
<1> DEFINE r1 == PrepareRoutes(rt)
           r2 == DijkstraResult(r1)
           r3 == InitializeParameters(r2)
<1>1. /\ r1 \in [Dests -> Entry]
      /\ \A d \in Dests : r1[d].in_processing = rt[d].in_processing
  BY DEF RtType, PrepareRoutes, Entry
<1> HIDE DEF r1
<1>2. /\ r2 \in [Dests -> Entry]
      /\ \A d \in Dests : r2[d].in_processing = r1[d].in_processing
  <2>1. ASSUME NEW e \in Entry, NEW h \in Hops \cup {NoRoute}
        PROVE  /\ UpdateRoutingEntry(e, h) \in Entry
               /\ UpdateRoutingEntry(e, h).in_processing = e.in_processing
    BY DEF UpdateRoutingEntry, Entry, Param
  <2>2. \A d \in Dests : want[d] \in Hops \cup {NoRoute}
    BY DEF RtType
  <2>3. QED
    BY <1>1, <2>1, <2>2 DEF DijkstraResult
<1> HIDE DEF r2
<1>3. /\ r3 \in [Dests -> Entry]
      /\ \A d \in Dests : r3[d].in_processing = r2[d].in_processing
  <2>1. ASSUME NEW e \in Entry
        PROVE  /\ [e EXCEPT !.p.table = table] \in Entry
               /\ [e EXCEPT !.p.table = table].in_processing = e.in_processing
    BY DEF RtType, Entry, Param
  <2>2. QED
    BY <1>2, <2>1 DEF InitializeParameters
<1>4. QED
  BY <1>1, <1>2, <1>3 DEF r1, r2

(* The initial state satisfies the invariant.                              *)
LEMMA InitInv == Init => Inv
<1> SUFFICES ASSUME Init PROVE Inv
  OBVIOUS
<1>1. Absent \in Entry /\ ~Absent.in_processing
  BY DEF Absent, NoParam, Entry, Param
<1>2. RtType
  BY <1>1 DEF Init, RtType
<1>3. QED
  BY <1>1, <1>2 DEF Init, Inv, NoAssertFails, ProcessingMeansFeedback, NoLostTrigger

(* A timer that fires, with the Dijkstra it may run.                       *)
LEMMA TimerFiresInv == Inv /\ TimerFires => Inv'
<1> SUFFICES ASSUME Inv, TimerFires PROVE Inv'
  OBVIOUS
<1> USE DEF Inv
<1>1. CASE trigger /\ ~stopped
  <2> DEFINE r == InitializeParameters(DijkstraResult(PrepareRoutes(rt)))
             s == ProcessKernelQueue(r, nl, feedback, Modified(r))
  <2>1. /\ r \in [Dests -> Entry]
        /\ \A d \in Dests : r[d].in_processing = rt[d].in_processing
    BY DijkstraKeeps
  <2>2. /\ rt' = s.rt /\ feedback' = s.feedback /\ failed' = (failed \/ s.failed)
        /\ ratelimit' = TRUE /\ computed' = want
        /\ UNCHANGED <<want, table, stopped>> /\ trigger' = FALSE
    BY <1>1 DEF TimerFires, Commit
  <2>3. Modified(r) \in SUBSET Dests
    BY DEF Modified
  <2> HIDE DEF r
  <2>4. /\ \A d \in feedback : r[d].in_processing
        /\ \A d \in Dests : r[d].in_processing => d \in feedback
    BY <1>1, <2>1 DEF RtType, ProcessingMeansFeedback
  <2>5. /\ s.rt \in [Dests -> Entry]
        /\ s.feedback \in SUBSET Dests
        /\ ~s.failed
        /\ \A d \in s.feedback : s.rt[d].in_processing
        /\ \A d \in Dests : s.rt[d].in_processing => d \in s.feedback
    BY <2>1, <2>3, <2>4, ProcessKernelQueueKeeps DEF RtType
  <2> HIDE DEF s
  <2>6. QED
    BY <2>2, <2>5
    DEF RtType, NoAssertFails, ProcessingMeansFeedback, NoLostTrigger
<1>2. CASE ~(trigger /\ ~stopped)
  BY <1>2 DEF TimerFires, RtType, NoAssertFails, ProcessingMeansFeedback, NoLostTrigger
<1>3. QED
  BY <1>1, <1>2

(* A new routing table: the entries that are being set are interrupted     *)
(* first, so their removals are not second requests.                       *)
LEMMA SetDomainParameterInv ==
    ASSUME NEW t \in Tables
    PROVE  Inv /\ SetDomainParameter(t) => Inv'
<1> SUFFICES ASSUME Inv, SetDomainParameter(t) PROVE Inv'
  OBVIOUS
<1> USE DEF Inv
<1>1. CASE \A d \in Dests : ~rt[d].present
  BY <1>1 DEF SetDomainParameter, RtType, NoAssertFails, ProcessingMeansFeedback,
              NoLostTrigger
<1>2. CASE ~(\A d \in Dests : ~rt[d].present)
  <2> DEFINE D == {d \in Dests : rt[d].present /\ rt[d].set}
             I == {d \in D : rt[d].in_processing /\ d \in feedback}
             r == [d \in Dests |->
                     IF d \in D
                     THEN [rt[d] EXCEPT !.set = FALSE,
                                        !.in_processing = @ /\ d \notin I]
                     ELSE rt[d]]
             s == ProcessKernelQueue(r, Interrupt(nl, I), feedback \ I, D)
  <2>1. /\ rt' = s.rt /\ feedback' = s.feedback /\ failed' = (failed \/ s.failed)
        /\ ratelimit' = TRUE /\ trigger' = TRUE /\ table' = t
        /\ UNCHANGED <<want, computed, stopped>> /\ ~stopped
    BY <1>2 DEF SetDomainParameter, Commit
  <2>2. ASSUME NEW d \in Dests
        PROVE  /\ r[d] \in Entry
               /\ r[d].in_processing <=> rt[d].in_processing /\ d \notin I
    <3> DEFINE b == rt[d].in_processing /\ d \notin I
    <3>1. CASE d \in D
      <4>1. b \in BOOLEAN
        OBVIOUS
      <4>2. r[d] = [rt[d] EXCEPT !.set = FALSE, !.in_processing = b]
        BY <3>1
      <4> HIDE DEF b, r
      <4>3. r[d] \in Entry /\ r[d].in_processing = b
        BY <4>1, <4>2 DEF RtType, Entry
      <4>4. QED
        BY <4>3 DEF b
    <3>2. CASE d \notin D
      BY <3>2 DEF RtType
    <3>3. QED
      BY <3>1, <3>2
  <2>3. r \in [Dests -> Entry]
    BY <2>2
  <2>4. D \in SUBSET Dests /\ I \in SUBSET Dests
    OBVIOUS
  <2> HIDE DEF r, I, D
  <2>5. /\ \A d \in feedback \ I : r[d].in_processing
        /\ \A d \in Dests : r[d].in_processing => d \in feedback \ I
    BY <2>1, <2>2 DEF RtType, ProcessingMeansFeedback
  <2>6. /\ s.rt \in [Dests -> Entry]
        /\ s.feedback \in SUBSET Dests
        /\ ~s.failed
        /\ \A d \in s.feedback : s.rt[d].in_processing
        /\ \A d \in Dests : s.rt[d].in_processing => d \in s.feedback
    BY <2>3, <2>4, <2>5, ProcessKernelQueueKeeps DEF RtType
  <2> HIDE DEF s
  <2>7. QED
    BY <2>1, <2>6
    DEF RtType, NoAssertFails, ProcessingMeansFeedback, NoLostTrigger
<1>3. QED
  BY <1>1, <1>2

(* A shutdown interrupts every request without telling the entries.        *)
LEMMA ShutdownInv == Inv /\ Shutdown => Inv'
<1> SUFFICES ASSUME Inv, Shutdown PROVE Inv'
  OBVIOUS
<1> USE DEF Inv
<1> DEFINE D == {d \in Dests : rt[d].present /\ rt[d].set}
           r == [d \in Dests |-> [rt[d] EXCEPT !.set = FALSE]]
           s == ProcessKernelQueue(r, Interrupt(nl, Dests), {}, D)
<1>1. /\ rt' = s.rt /\ feedback' = s.feedback /\ failed' = (failed \/ s.failed)
      /\ UNCHANGED <<want, computed, table, trigger, ratelimit>> /\ stopped' = TRUE
  BY DEF Shutdown, Commit
<1>2. r \in [Dests -> Entry] /\ D \in SUBSET Dests
  BY DEF RtType, Entry
<1> HIDE DEF r, D
<1>3. /\ s.rt \in [Dests -> Entry]
      /\ s.feedback \in SUBSET Dests
      /\ ~s.failed
      /\ \A d \in s.feedback : s.rt[d].in_processing
  BY <1>2, ProcessKernelQueueKeeps
<1> HIDE DEF s
<1>4. QED
  BY <1>1, <1>3 DEF RtType, NoAssertFails, ProcessingMeansFeedback, NoLostTrigger

(* An answer of the kernel, and a timeout for all of them.                 *)
LEMMA AnswerInv == Inv /\ (ReadAnswer \/ NetlinkTimeout) => Inv'
<1> SUFFICES ASSUME Inv, ReadAnswer \/ NetlinkTimeout PROVE Inv'
  OBVIOUS
<1> USE DEF Inv
<1>1. \A d \in Dests : rt[d] \in Entry
  BY DEF RtType
<1>2. CASE ReadAnswer
  <2> DEFINE a == Head(nl.answers)
  <2>1. /\ feedback' = IF a.wanted THEN feedback \ {a.dst} ELSE feedback
        /\ rt' = IF a.wanted THEN [rt EXCEPT ![a.dst] = RouteFinished(@, a.err)] ELSE rt
        /\ UNCHANGED <<want, computed, table, trigger, ratelimit, stopped, failed>>
    BY <1>2 DEF ReadAnswer
  <2> HIDE DEF a
  <2>2. CASE a.wanted
    <3>1. ASSUME NEW d \in Dests
          PROVE  /\ rt'[d] \in Entry
                 /\ IF d = a.dst THEN ~rt'[d].in_processing ELSE rt'[d] = rt[d]
      BY <1>1, <2>1, <2>2, RouteFinishedEnds DEF RtType
    <3>2. rt' \in [Dests -> Entry]
      <4>1. rt' = [d \in Dests |-> rt'[d]]
        BY <2>1, <2>2 DEF RtType
      <4>2. QED
        BY <4>1, <3>1
    <3>3. QED
      BY <2>1, <2>2, <3>1, <3>2
      DEF RtType, NoAssertFails, ProcessingMeansFeedback, NoLostTrigger
  <2>3. CASE ~a.wanted
    BY <2>1, <2>3 DEF RtType, NoAssertFails, ProcessingMeansFeedback, NoLostTrigger
  <2>4. QED
    BY <2>2, <2>3
<1>3. CASE NetlinkTimeout
  <2>1. /\ feedback' = {}
        /\ rt' = [d \in Dests |-> IF d \in feedback THEN RouteFinished(rt[d], "INTR")
                                  ELSE rt[d]]
        /\ UNCHANGED <<want, computed, table, trigger, ratelimit, stopped, failed>>
    BY <1>3 DEF NetlinkTimeout
  <2>2. ASSUME NEW d \in Dests
        PROVE  /\ rt'[d] \in Entry
               /\ IF d \in feedback THEN ~rt'[d].in_processing ELSE rt'[d] = rt[d]
    BY <1>1, <2>1, RouteFinishedEnds
  <2>3. rt' \in [Dests -> Entry]
    <3>1. rt' = [d \in Dests |-> rt'[d]]
      BY <2>1
    <3>2. QED
      BY <3>1, <2>2
  <2>4. QED
    BY <2>1, <2>2, <2>3
    DEF RtType, NoAssertFails, ProcessingMeansFeedback, NoLostTrigger
<1>4. QED
  BY <1>2, <1>3

(* Every step keeps the invariant; ConstantsAssumption types want.         *)
LEMMA NextInv == Inv /\ [Next]_vars => Inv'
<1> SUFFICES ASSUME Inv, [Next]_vars PROVE Inv'
  OBVIOUS
<1> USE DEF Inv
<1>1. ASSUME NEW w \in Topologies, TopologyChange(w) PROVE Inv'
  BY <1>1, ConstantsAssumption
  DEF TopologyChange, TriggerUpdate, RtType, NoAssertFails, ProcessingMeansFeedback,
      NoLostTrigger
<1>2. CASE Flush
  BY <1>2 DEF Flush, RtType, NoAssertFails, ProcessingMeansFeedback, NoLostTrigger
<1>3. CASE AnswerLost
  BY <1>3 DEF AnswerLost, RtType, NoAssertFails, ProcessingMeansFeedback, NoLostTrigger
<1>4. CASE Calm
  BY <1>4 DEF Calm, RtType, NoAssertFails, ProcessingMeansFeedback, NoLostTrigger
<1>5. CASE UNCHANGED vars
  BY <1>5 DEF vars, RtType, NoAssertFails, ProcessingMeansFeedback, NoLostTrigger
<1>6. QED
  BY <1>1, <1>2, <1>3, <1>4, <1>5, TimerFiresInv, SetDomainParameterInv, ShutdownInv,
     AnswerInv
  DEF Next

(* The assert of os_routing_linux_set never fails, whatever the kernel     *)
(* does and whenever it does it.                                           *)
THEOREM AssertNeverFails == Spec => []NoAssertFails
<1>1. Inv => NoAssertFails
  BY DEF Inv
<1>2. QED
  BY InitInv, NextInv, <1>1, PTL DEF Spec

(* in_processing of an entry and the feedback tree agree until shutdown.   *)
THEOREM ProcessingIsTrue == Spec => []ProcessingMeansFeedback
<1>1. Inv => ProcessingMeansFeedback
  BY DEF Inv
<1>2. QED
  BY InitInv, NextInv, <1>1, PTL DEF Spec

(* Both together: the feedback tree matches the entries.                   *)
THEOREM FeedbackAgrees == Spec => []FeedbackMatches
<1>1. Inv => FeedbackMatches
  BY DEF Inv, FeedbackMatches
<1>2. QED
  BY InitInv, NextInv, <1>1, PTL DEF Spec

(* No change of the topology is forgotten by trigger and rate limitation.  *)
THEOREM TriggerNeverLost == Spec => []NoLostTrigger
<1>1. Inv => NoLostTrigger
  BY DEF Inv
<1>2. QED
  BY InitInv, NextInv, <1>1, PTL DEF Spec
-----------------------------------------------------------------------------
(* Every set of natural numbers has a least element.                       *)
LEMMA HasMinimum ==
    ASSUME NEW S, S \subseteq Nat, S /= {}
    PROVE  \E x \in S : \A y \in S : x <= y
<1> DEFINE R == OpToRel(<, Nat)
<1>1. IsWellFoundedOn(R, Nat)
  BY NatLessThanWellFounded
<1>2. \A x \in Nat : \A y \in Nat : y < x => <<y, x>> \in R
  BY DEF OpToRel
<1> HIDE DEF R
<1>3. PICK x \in S : \A y \in S : ~ (<<y, x>> \in R)
  BY <1>1, WFMin
<1>4. \A y \in S : ~(y < x)
  BY <1>2, <1>3
<1> QED
  BY <1>4

(* So what holds of zero and of every successor holds of every number.     *)
LEMMA Induction ==
    ASSUME NEW S, 0 \in S, \A n \in Nat : n \in S => n + 1 \in S
    PROVE  Nat \subseteq S
<1> SUFFICES ASSUME Nat \ S /= {} PROVE FALSE
  OBVIOUS
<1>1. PICK x \in Nat \ S : \A y \in Nat \ S : x <= y
  BY HasMinimum
<1> QED
  BY <1>1

(* A loop of the code is a function of the number of its steps; it exists  *)
(* for every number of them.                                               *)
Loop(f, b, N, step) == \A k \in 0 .. N : f[k] = IF k = 0 THEN b ELSE step[k][f[k - 1]]

(* Every loop has a function of its rounds, whatever its body does.        *)
LEMMA LoopRuns ==
    ASSUME NEW S, NEW b \in S, NEW N \in Nat, NEW step \in [Nat -> [S -> S]]
    PROVE  \E f \in [0 .. N -> S] : Loop(f, b, N, step)
<1> DEFINE P == {n \in Nat : \E f \in [0 .. n -> S] :
                   \A k \in 0 .. n : f[k] = IF k = 0 THEN b ELSE step[k][f[k - 1]]}
<1>1. 0 \in P
  <2> DEFINE f == [k \in 0 .. 0 |-> b]
  <2>1. /\ f \in [0 .. 0 -> S]
        /\ \A k \in 0 .. 0 : f[k] = IF k = 0 THEN b ELSE step[k][f[k - 1]]
    OBVIOUS
  <2> QED
    BY <2>1
<1>2. ASSUME NEW n \in Nat, n \in P
      PROVE  n + 1 \in P
  <2>1. PICK f \in [0 .. n -> S] :
          \A k \in 0 .. n : f[k] = IF k = 0 THEN b ELSE step[k][f[k - 1]]
    BY <1>2
  <2> DEFINE g == [k \in 0 .. n + 1 |-> IF k <= n THEN f[k] ELSE step[n + 1][f[n]]]
  <2>2. f[n] \in S
    OBVIOUS
  <2>3. g \in [0 .. n + 1 -> S]
    BY <2>2
  <2>4. ASSUME NEW k \in 0 .. n + 1
        PROVE  g[k] = IF k = 0 THEN b ELSE step[k][g[k - 1]]
    <3>1. CASE k <= n
      BY <2>1, <3>1
    <3>2. CASE k = n + 1
      BY <2>1, <3>2
    <3> QED
      BY <3>1, <3>2
  <2> HIDE DEF g
  <2>5. \A k \in 0 .. n + 1 : g[k] = IF k = 0 THEN b ELSE step[k][g[k - 1]]
    BY <2>4
  <2> QED
    BY <2>3, <2>5
<1>3. N \in P
  <2> HIDE DEF P
  <2> QED
    BY <1>1, <1>2, Induction
<1> QED
  BY <1>3 DEF Loop
-----------------------------------------------------------------------------
(* The kernel queue of the destinations D: each of them, once.             *)
QueueOf(q, D) ==
    /\ q \in Seq(Dests)
    /\ \A d \in Dests : d \in D <=> \E i \in 1 .. Len(q) : q[i] = d
    /\ \A i, j \in 1 .. Len(q) : q[i] = q[j] => i = j

(* list_add_head and list_add_tail of a destination that is not queued.    *)
LEMMA QueueAdd ==
    ASSUME NEW q, NEW D, QueueOf(q, D), NEW d \in Dests, d \notin D
    PROVE  QueueOf(<<d>> \o q, D \cup {d}) /\ QueueOf(q \o <<d>>, D \cup {d})
<1>1. q \in Seq(Dests) /\ Len(q) \in Nat
  BY LenProperties DEF QueueOf
<1>2. <<d>> \in Seq(Dests) /\ Len(<<d>>) = 1 /\ <<d>>[1] = d
  OBVIOUS
<1>3. \A i \in 1 .. Len(q) : q[i] # d
  BY DEF QueueOf
<1>4. QueueOf(<<d>> \o q, D \cup {d})
  <2> DEFINE r == <<d>> \o q
  <2>1. /\ r \in Seq(Dests) /\ Len(r) = 1 + Len(q)
        /\ \A i \in 1 .. 1 + Len(q) : r[i] = IF i <= 1 THEN <<d>>[i] ELSE q[i - 1]
    BY <1>1, <1>2, ConcatProperties
  <2> HIDE DEF r
  <2>2. r[1] = d /\ \A i \in 1 .. Len(q) : r[i + 1] = q[i]
    BY <1>1, <1>2, <2>1
  <2>3. \A i \in 2 .. Len(r) : i - 1 \in 1 .. Len(q) /\ r[i] = q[i - 1]
    BY <1>1, <2>1
  <2>4. ASSUME NEW x \in Dests
        PROVE  x \in D \cup {d} <=> \E i \in 1 .. Len(r) : r[i] = x
    <3>1. CASE x = d
      BY <1>1, <2>1, <2>2, <3>1
    <3>2. CASE x # d
      <4>1. x \in D <=> \E i \in 1 .. Len(q) : q[i] = x
        BY DEF QueueOf
      <4>2. ASSUME NEW i \in 1 .. Len(q), q[i] = x
            PROVE  i + 1 \in 1 .. Len(r) /\ r[i + 1] = x
        BY <1>1, <2>1, <2>2, <4>2
      <4>3. ASSUME NEW i \in 1 .. Len(r), r[i] = x
            PROVE  i - 1 \in 1 .. Len(q) /\ q[i - 1] = x
        <5>1. i \in 2 .. Len(r)
          BY <1>1, <2>1, <2>2, <3>2, <4>3
        <5> QED
          BY <2>3, <4>3, <5>1
      <4> QED
        BY <3>2, <4>1, <4>2, <4>3
    <3> QED
      BY <3>1, <3>2
  <2>5. ASSUME NEW i \in 1 .. Len(r), NEW j \in 1 .. Len(r), r[i] = r[j]
        PROVE  i = j
    <3>1. CASE i = 1 /\ j = 1
      BY <3>1
    <3>2. CASE i = 1 /\ j # 1
      BY <1>1, <1>3, <2>1, <2>2, <2>3, <2>5, <3>2
    <3>3. CASE i # 1 /\ j = 1
      BY <1>1, <1>3, <2>1, <2>2, <2>3, <2>5, <3>3
    <3>4. CASE i # 1 /\ j # 1
      <4>1. i \in 2 .. Len(r) /\ j \in 2 .. Len(r)
        BY <1>1, <2>1, <3>4
      <4>2. q[i - 1] = q[j - 1] /\ i - 1 \in 1 .. Len(q) /\ j - 1 \in 1 .. Len(q)
        BY <2>3, <2>5, <4>1
      <4>3. i - 1 = j - 1
        BY <4>2 DEF QueueOf
      <4> QED
        BY <1>1, <2>1, <4>3
    <3> QED
      BY <3>1, <3>2, <3>3, <3>4
  <2> QED
    BY <2>1, <2>4, <2>5 DEF QueueOf, r
<1>5. QueueOf(q \o <<d>>, D \cup {d})
  <2> DEFINE r == q \o <<d>>
             n == Len(q) + 1
  <2>1. /\ r \in Seq(Dests) /\ Len(r) = n
        /\ \A i \in 1 .. n : r[i] = IF i <= Len(q) THEN q[i] ELSE <<d>>[i - Len(q)]
    BY <1>1, <1>2, ConcatProperties
  <2> HIDE DEF r
  <2>2. r[n] = d /\ \A i \in 1 .. Len(q) : r[i] = q[i]
    BY <1>1, <1>2, <2>1
  <2>4. ASSUME NEW x \in Dests
        PROVE  x \in D \cup {d} <=> \E i \in 1 .. Len(r) : r[i] = x
    <3>1. CASE x = d
      BY <1>1, <2>1, <2>2, <3>1
    <3>2. CASE x # d
      BY <1>1, <2>1, <2>2, <3>2 DEF QueueOf
    <3> QED
      BY <3>1, <3>2
  <2>5. ASSUME NEW i \in 1 .. Len(r), NEW j \in 1 .. Len(r), r[i] = r[j]
        PROVE  i = j
    <3>1. CASE i = n /\ j = n
      BY <3>1
    <3>2. CASE i = n /\ j # n
      <4>1. j \in 1 .. Len(q)
        BY <1>1, <2>1, <3>2
      <4> QED
        BY <1>3, <2>2, <2>5, <3>2, <4>1
    <3>3. CASE i # n /\ j = n
      <4>1. i \in 1 .. Len(q)
        BY <1>1, <2>1, <3>3
      <4> QED
        BY <1>3, <2>2, <2>5, <3>3, <4>1
    <3>4. CASE i # n /\ j # n
      <4>1. i \in 1 .. Len(q) /\ j \in 1 .. Len(q)
        BY <1>1, <2>1, <3>4
      <4>2. q[i] = q[j]
        BY <2>2, <2>5, <4>1
      <4> QED
        BY <4>1, <4>2 DEF QueueOf
    <3> QED
      BY <3>1, <3>2, <3>3, <3>4
  <2> QED
    BY <2>1, <2>4, <2>5 DEF QueueOf, r
<1> QED
  BY <1>4, <1>5

(* A route that _add_route_to_kernel_queue puts in front of the others.    *)
Early(r, d) == r[d].set <=> (r[d].p.gw = Direct)

(* In the queue q no such route is behind another one.                     *)
EarlyFirst(r, q) ==
    \A i, j \in 1 .. Len(q) : i < j /\ Early(r, q[j]) => Early(r, q[i])

(* list_add_head of an early route and list_add_tail of another keep that. *)
LEMMA EarlyAdd ==
    ASSUME NEW r, NEW q \in Seq(Dests), EarlyFirst(r, q), NEW d \in Dests
    PROVE  /\ Early(r, d) => EarlyFirst(r, <<d>> \o q)
           /\ ~Early(r, d) => EarlyFirst(r, q \o <<d>>)
<1>1. /\ Len(q) \in Nat /\ <<d>> \in Seq(Dests) /\ Len(<<d>>) = 1 /\ <<d>>[1] = d
  BY LenProperties
<1> DEFINE h == <<d>> \o q
           t == q \o <<d>>
<1>2. /\ Len(h) = 1 + Len(q)
      /\ \A i \in 1 .. 1 + Len(q) : h[i] = IF i <= 1 THEN d ELSE q[i - 1]
      /\ Len(t) = Len(q) + 1
      /\ \A i \in 1 .. Len(q) + 1 : t[i] = IF i <= Len(q) THEN q[i] ELSE d
  <2>1. /\ Len(h) = 1 + Len(q)
        /\ \A i \in 1 .. 1 + Len(q) : h[i] = IF i <= 1 THEN <<d>>[i] ELSE q[i - 1]
    BY <1>1, ConcatProperties
  <2>2. /\ Len(t) = Len(q) + 1
        /\ \A i \in 1 .. Len(q) + 1 : t[i] = IF i <= Len(q) THEN q[i] ELSE <<d>>[i - Len(q)]
    BY <1>1, ConcatProperties
  <2> HIDE DEF h, t
  <2>3. ASSUME NEW i \in 1 .. 1 + Len(q)
        PROVE  h[i] = IF i <= 1 THEN d ELSE q[i - 1]
    BY <1>1, <2>1
  <2>4. ASSUME NEW i \in 1 .. Len(q) + 1
        PROVE  t[i] = IF i <= Len(q) THEN q[i] ELSE d
    BY <1>1, <2>2
  <2> QED
    BY <2>1, <2>2, <2>3, <2>4
<1> HIDE DEF h, t
<1>3. ASSUME Early(r, d), NEW i \in 1 .. Len(h), NEW j \in 1 .. Len(h), i < j, Early(r, h[j])
      PROVE  Early(r, h[i])
  <2>1. CASE i = 1
    BY <1>2, <1>3, <2>1
  <2>2. CASE i # 1
    <3>1. /\ i - 1 \in 1 .. Len(q) /\ j - 1 \in 1 .. Len(q) /\ i - 1 < j - 1
          /\ h[i] = q[i - 1] /\ h[j] = q[j - 1]
      BY <1>1, <1>2, <1>3, <2>2
    <3> QED
      BY <1>3, <3>1 DEF EarlyFirst
  <2> QED
    BY <2>1, <2>2
<1>4. ASSUME ~Early(r, d), NEW i \in 1 .. Len(t), NEW j \in 1 .. Len(t), i < j, Early(r, t[j])
      PROVE  Early(r, t[i])
  <2>1. j <= Len(q)
    BY <1>1, <1>2, <1>4
  <2>2. i \in 1 .. Len(q) /\ j \in 1 .. Len(q) /\ t[i] = q[i] /\ t[j] = q[j]
    BY <1>1, <1>2, <1>4, <2>1
  <2> QED
    BY <1>4, <2>2 DEF EarlyFirst
<1>5. Early(r, d) => EarlyFirst(r, h)
  BY <1>3 DEF EarlyFirst
<1>6. ~Early(r, d) => EarlyFirst(r, t)
  BY <1>4 DEF EarlyFirst
<1> QED
  BY <1>5, <1>6 DEF h, t

(* _add_route_to_kernel_queue for every entry of the tree.                 *)
LEMMA KernelQueueValue ==
    ASSUME NEW r, NEW D \in SUBSET Dests
    PROVE  QueueOf(KernelQueue(r, D), D) /\ EarlyFirst(r, KernelQueue(r, D))
<1> DEFINE N == Len(DestSeq)
           early(d) == r[d].set <=> (r[d].p.gw = Direct)
           G(q, d) == IF d \notin D THEN q
                      ELSE IF early(d) THEN <<d>> \o q ELSE q \o <<d>>
           S == Seq(Dests)
           step == [k \in Nat |-> [q \in S |-> IF k \in 1 .. N THEN G(q, DestSeq[k]) ELSE q]]
           h == CHOOSE f : f = [k \in 0 .. N |->
                                 IF k = 0 THEN <<>> ELSE G(f[k - 1], DestSeq[k])]
           E(k) == {DestSeq[i] : i \in 1 .. k} \cap D
<1>1. /\ N \in Nat /\ <<>> \in S
      /\ \A k \in 1 .. N : DestSeq[k] \in Dests
      /\ \A i, j \in 1 .. N : DestSeq[i] = DestSeq[j] => i = j
      /\ \A d \in Dests : \E i \in 1 .. N : DestSeq[i] = d
  BY ConstantsAssumption, LenProperties DEF IsInjective, Dests, ToSet
<1>2. ASSUME NEW q \in S, NEW k \in 1 .. N
      PROVE  G(q, DestSeq[k]) \in S
  <2>1. <<DestSeq[k]>> \in S
    BY <1>1
  <2> QED
    BY <2>1, ConcatProperties
<1>3. KernelQueue(r, D) = h[N]
  BY DEF KernelQueue
<1> HIDE DEF S, N
<1>4. step \in [Nat -> [S -> S]]
  <2> HIDE DEF G
  <2> QED
    BY <1>2
<1>5. PICK f \in [0 .. N -> S] : Loop(f, <<>>, N, step)
  <2> HIDE DEF step
  <2> QED
    BY <1>1, <1>4, LoopRuns
<1> HIDE DEF G
<1>6. \A k \in 0 .. N : f[k] = IF k = 0 THEN <<>> ELSE G(f[k - 1], DestSeq[k])
  <2>1. ASSUME NEW k \in 0 .. N, k # 0
        PROVE  step[k][f[k - 1]] = G(f[k - 1], DestSeq[k])
    <3>1. f[k - 1] \in S /\ k \in 1 .. N
      BY <1>1, <1>5, <2>1
    <3> QED
      BY <3>1
  <2> QED
    BY <1>5, <2>1 DEF Loop
<1>7. f = [k \in 0 .. N |-> IF k = 0 THEN <<>> ELSE G(f[k - 1], DestSeq[k])]
  BY <1>6
<1>8. h = [k \in 0 .. N |-> IF k = 0 THEN <<>> ELSE G(h[k - 1], DestSeq[k])]
  BY <1>7
<1> HIDE DEF h
<1>9. h[0] = <<>> /\ \A k \in 1 .. N : h[k] = G(h[k - 1], DestSeq[k])
  BY <1>1, <1>8
<1> DEFINE P == {k \in Nat : k <= N => QueueOf(h[k], E(k)) /\ EarlyFirst(r, h[k])}
<1>10. 0 \in P
  <2>1. E(0) = {} /\ Len(<<>>) = 0 /\ <<>> \in Seq(Dests)
    OBVIOUS
  <2>2. QueueOf(<<>>, E(0))
    BY <2>1 DEF QueueOf
  <2>3. EarlyFirst(r, <<>>)
    BY <2>1 DEF EarlyFirst
  <2> QED
    BY <1>9, <2>2, <2>3
<1>11. ASSUME NEW n \in Nat, n \in P
       PROVE  n + 1 \in P
  <2> SUFFICES ASSUME n + 1 <= N
               PROVE  QueueOf(h[n + 1], E(n + 1)) /\ EarlyFirst(r, h[n + 1])
    OBVIOUS
  <2> DEFINE d == DestSeq[n + 1]
  <2>1. n + 1 \in 1 .. N /\ (n + 1) - 1 = n /\ n <= N
    BY <1>1
  <2>2. h[n + 1] = G(h[n], d) /\ d \in Dests
    BY <1>1, <1>9, <2>1
  <2>3. QueueOf(h[n], E(n)) /\ EarlyFirst(r, h[n])
    BY <1>11, <2>1
  <2>4. 1 .. n + 1 = 1 .. n \cup {n + 1}
    OBVIOUS
  <2>5. E(n + 1) = IF d \in D THEN E(n) \cup {d} ELSE E(n)
    BY <2>4
  <2>6. d \notin E(n)
    BY <1>1, <2>1
  <2> HIDE DEF E
  <2>7. CASE d \notin D
    BY <2>2, <2>3, <2>5, <2>7 DEF G
  <2>8. CASE d \in D
    <3>1. QueueOf(<<d>> \o h[n], E(n + 1)) /\ QueueOf(h[n] \o <<d>>, E(n + 1))
      <4> HIDE DEF d
      <4> QED
        BY <2>2, <2>3, <2>5, <2>6, <2>8, QueueAdd
    <3>2. h[n] \in Seq(Dests)
      BY <2>3 DEF QueueOf
    <3>3. /\ early(d) => EarlyFirst(r, <<d>> \o h[n])
          /\ ~early(d) => EarlyFirst(r, h[n] \o <<d>>)
      <4>1. early(d) <=> Early(r, d)
        BY DEF Early
      <4> HIDE DEF d, early
      <4> QED
        BY <2>2, <2>3, <3>2, <4>1, EarlyAdd
    <3> QED
      BY <2>2, <2>8, <3>1, <3>3 DEF G
  <2> QED
    BY <2>7, <2>8
<1>12. N \in P
  <2> HIDE DEF P
  <2> QED
    BY <1>1, <1>10, <1>11, Induction
<1>13. QueueOf(h[N], E(N)) /\ EarlyFirst(r, h[N])
  BY <1>1, <1>12
<1>14. E(N) = D
  BY <1>1
<1> QED
  BY <1>3, <1>13, <1>14

-----------------------------------------------------------------------------
(* What the netlink buffers and the socket hold.                           *)
Goal == [gw : Hops, table : Tables]
Req == [dst : Dests, set : BOOLEAN, p : Goal, wanted : BOOLEAN]
Ans == [dst : Dests, err : {"OK", "ESRCH", "ENETUNREACH"}, wanted : BOOLEAN]
Netlink == [buffered : Seq(Req), answers : Seq(Ans), transit : Nat, timer : BOOLEAN]
Kernel == [Tables -> [Dests -> Hops \cup {NoRoute}]]

(* An entry of the tree has parameters the kernel understands.             *)
EntryFine(e) ==
    /\ e \in Entry
    /\ IF e.present THEN e.p \in Goal ELSE e = Absent

(* The wanted requests B and answers A are of routes in the feedback tree  *)
(* f, at most one of each.                                                 *)
WantedOnce(f, B, A) ==
    /\ \A i \in 1 .. Len(B) : B[i].wanted => B[i].dst \in f
    /\ \A i \in 1 .. Len(A) : A[i].wanted => A[i].dst \in f
    /\ \A i, j \in 1 .. Len(B) : i # j /\ B[i].wanted /\ B[j].wanted => B[i].dst # B[j].dst
    /\ \A i, j \in 1 .. Len(A) : i # j /\ A[i].wanted /\ A[j].wanted => A[i].dst # A[j].dst
    /\ \A i \in 1 .. Len(A), j \in 1 .. Len(B) :
         A[i].wanted /\ B[j].wanted => A[i].dst # B[j].dst

Shapes(r, f, k, n) ==
    /\ \A d \in Dests : EntryFine(r[d])
    /\ k \in Kernel /\ n \in Netlink
    /\ WantedOnce(f, n.buffered, n.answers)
-----------------------------------------------------------------------------
(* A request to set or to remove the route to d is buffered.               *)
Has(B, d, set) == \E i \in 1 .. Len(B) : B[i].dst = d /\ B[i].set = set

(* The requests B and answers A under way: a request is of an entry in     *)
(* processing and has its parameters; the second of two requests for a     *)
(* destination removes what the first, forgotten one sets; a wanted answer *)
(* is the last of its destination, and the kernel has no errors.           *)
UnderWay(r, f, st, B, A) ==
    /\ \A i \in 1 .. Len(B) :
         LET e == r[B[i].dst]
         IN  /\ e.present /\ e.in_processing /\ B[i].p = e.p
             /\ ~B[i].set => ~e.set
             /\ B[i].set /\ ~e.set /\ ~st => Has(B, B[i].dst, FALSE)
             /\ B[i].set /\ st => B[i].dst \notin f
    /\ \A i, j \in 1 .. Len(B) :
         i < j /\ B[i].dst = B[j].dst => B[i].set /\ ~B[i].wanted /\ ~B[j].set
    /\ \A i \in 1 .. Len(A) :
         /\ A[i].err = "OK"
         /\ A[i].wanted => \A j \in 1 .. Len(B) : B[j].dst # A[i].dst
    /\ \A d \in f : \/ \E i \in 1 .. Len(B) : B[i].wanted /\ B[i].dst = d
                    \/ \E i \in 1 .. Len(A) : A[i].wanted /\ A[i].dst = d

(* The kernel k has a route only for an entry and in its table; it has the *)
(* route as the entry says, when no request to set it is buffered; and it  *)
(* has no route that is removed, unless a shutdown left it.                *)
Follows(r, f, st, k, B) ==
    \A d \in Dests :
      /\ \A t \in Tables : k[t][d] # NoRoute => r[d].present /\ t = r[d].p.table
      /\ r[d].present /\ ~Has(B, d, TRUE) /\ (r[d].set \/ Has(B, d, FALSE))
           => k[r[d].p.table][d] = r[d].p.gw
      /\ ~r[d].set /\ ~Has(B, d, FALSE) =>
           \A t \in Tables :
             k[t][d] # NoRoute => st /\ r[d].in_processing /\ d \notin f

(* Until the shutdown the entries are what the configuration asks for, and *)
(* what Dijkstra asked for; then none is set.                              *)
Asked(r, st, tab) ==
    \A d \in Dests :
      IF st THEN ~r[d].set
      ELSE /\ r[d].present /\ ~r[d].set => r[d].in_processing
           /\ r[d].present /\ r[d].set => r[d].p.table = tab
Computed(r, st, trig, w) ==
    ~trig /\ ~st =>
        \A d \in Dests : IF w[d] # NoRoute
                         THEN r[d].present /\ r[d].set /\ r[d].p.gw = w[d]
                         ELSE ~r[d].set
(* B2 are the requests B with one more for every destination of todo, the  *)
(* early ones first.                                                       *)
Enqueued(B, B2, r, todo) ==
    /\ B2 \in Seq(Req) /\ Len(B) \in Nat /\ Len(B2) \in Nat /\ Len(B) <= Len(B2)
    /\ \A i \in 1 .. Len(B) : B2[i] = B[i]
    /\ \A i \in Len(B) + 1 .. Len(B2) :
         /\ B2[i].dst \in todo
         /\ B2[i].set = r[B2[i].dst].set /\ B2[i].p = r[B2[i].dst].p /\ B2[i].wanted
    /\ \A d \in todo : \E i \in Len(B) + 1 .. Len(B2) : B2[i].dst = d
    /\ \A i, j \in Len(B) + 1 .. Len(B2) : i # j => B2[i].dst # B2[j].dst
    /\ \A i, j \in Len(B) + 1 .. Len(B2) :
         i < j /\ Early(r, B2[j].dst) => Early(r, B2[i].dst)

(* _process_kernel_queue sends a request for every entry of the queue that *)
(* is not in processing.                                                   *)
LEMMA ProcessKernelQueueValue ==
    ASSUME NEW r \in [Dests -> Entry], NEW n \in Netlink, NEW f \in SUBSET Dests,
           NEW D \in SUBSET Dests,
           \A d \in D : r[d].p \in Goal
    PROVE  LET s == ProcessKernelQueue(r, n, f, D)
               todo == {d \in D : ~r[d].in_processing}
           IN  /\ s.feedback = f \cup todo
               /\ s.nl \in Netlink
               /\ s.nl.answers = n.answers
               /\ Enqueued(n.buffered, s.nl.buffered, r, todo)
               /\ \A d \in Dests :
                    /\ s.rt[d].present = r[d].present
                    /\ s.rt[d].set = r[d].set
                    /\ s.rt[d].p = r[d].p
                    /\ s.rt[d].old = r[d].old
                    /\ s.rt[d].in_processing <=> r[d].in_processing \/ d \in todo
<1> DEFINE todo == {d \in D : ~r[d].in_processing}
           q == KernelQueue(r, todo)
           s == ProcessKernelQueue(r, n, f, D)
           new == [j \in DOMAIN q |-> Request(q[j], r[q[j]])]
           B == n.buffered
           B2 == B \o new
<1>1. todo \in SUBSET Dests /\ QueueOf(q, todo) /\ EarlyFirst(r, q)
  BY KernelQueueValue
<1>2. /\ q \in Seq(Dests) /\ Len(q) \in Nat /\ DOMAIN q = 1 .. Len(q)
      /\ \A j \in 1 .. Len(q) : q[j] \in todo
      /\ \A d \in todo : \E j \in 1 .. Len(q) : q[j] = d
      /\ \A i, j \in 1 .. Len(q) : q[i] = q[j] => i = j
  <2>1. q \in Seq(Dests)
    BY <1>1 DEF QueueOf
  <2>2. Len(q) \in Nat /\ DOMAIN q = 1 .. Len(q) /\ \A j \in 1 .. Len(q) : q[j] \in Dests
    <3> HIDE DEF q, todo
    <3> QED
      BY <2>1, LenProperties, ElementOfSeq
  <2> HIDE DEF q, todo
  <2> QED
    BY <1>1, <2>1, <2>2 DEF QueueOf
<1>3. /\ s.rt = [d \in Dests |-> [r[d] EXCEPT !.in_processing = @ \/ d \in todo]]
      /\ s.nl = [n EXCEPT !.buffered = B2]
      /\ s.feedback = f \cup todo
  BY DEF ProcessKernelQueue, Netlink
<1> HIDE DEF q, s
<1>4. ASSUME NEW d \in todo
      PROVE  /\ Request(d, r[d]) \in Req
             /\ Request(d, r[d]).dst = d /\ Request(d, r[d]).set = r[d].set
             /\ Request(d, r[d]).p = r[d].p /\ Request(d, r[d]).wanted = TRUE
  <2>1. d \in Dests /\ r[d].p \in Goal /\ r[d].set \in BOOLEAN
    BY DEF Entry
  <2> QED
    BY <2>1 DEF Request, Req
<1> HIDE DEF todo
<1>5. /\ new \in Seq(Req) /\ Len(new) = Len(q)
      /\ \A j \in 1 .. Len(q) : /\ new[j].dst = q[j] /\ new[j].wanted
                                /\ new[j].set = r[q[j]].set /\ new[j].p = r[q[j]].p
  <2>1. new = [j \in 1 .. Len(q) |-> Request(q[j], r[q[j]])]
    BY <1>2
  <2>2. \A j \in 1 .. Len(q) : new[j] = Request(q[j], r[q[j]]) /\ new[j] \in Req
    BY <1>2, <1>4, <2>1
  <2>3. new \in [1 .. Len(q) -> Req]
    BY <2>1, <2>2
  <2>4. new \in Seq(Req) /\ Len(new) = Len(q)
    BY <1>2, <2>3
  <2> QED
    BY <1>2, <1>4, <2>2, <2>4
<1>6. B \in Seq(Req) /\ Len(B) \in Nat
  BY LenProperties DEF Netlink
<1> HIDE DEF new, B
<1>7. /\ B2 \in Seq(Req) /\ Len(B2) = Len(B) + Len(q)
      /\ \A i \in 1 .. Len(B) + Len(q) : B2[i] = IF i <= Len(B) THEN B[i] ELSE new[i - Len(B)]
  <2>1. new \in Seq(Req) /\ B \in Seq(Req)
    BY <1>5, <1>6
  <2>2. /\ B \o new \in Seq(Req) /\ Len(B \o new) = Len(B) + Len(new)
        /\ \A i \in 1 .. Len(B) + Len(new) :
             (B \o new)[i] = IF i <= Len(B) THEN B[i] ELSE new[i - Len(B)]
    BY <2>1, ConcatProperties
  <2> QED
    BY <1>5, <2>2
<1> HIDE DEF B2
<1>8. Enqueued(B, B2, r, todo)
  <2>1. ASSUME NEW i \in Len(B) + 1 .. Len(B2)
        PROVE  i - Len(B) \in 1 .. Len(q) /\ B2[i] = new[i - Len(B)]
    <3>1. /\ i \in 1 .. Len(B) + Len(q) /\ ~(i <= Len(B))
          /\ i - Len(B) \in 1 .. Len(q)
      BY <1>2, <1>6, <1>7
    <3> QED
      BY <1>7, <3>1
  <2>2. ASSUME NEW i \in Len(B) + 1 .. Len(B2)
        PROVE  /\ B2[i].dst = q[i - Len(B)] /\ B2[i].dst \in todo /\ B2[i].wanted
               /\ B2[i].set = r[B2[i].dst].set /\ B2[i].p = r[B2[i].dst].p
    BY <1>2, <1>5, <2>1
  <2>3. ASSUME NEW d \in todo
        PROVE  \E i \in Len(B) + 1 .. Len(B2) : B2[i].dst = d
    <3>1. PICK j \in 1 .. Len(q) : q[j] = d
      BY <1>2
    <3>2. j + Len(B) \in Len(B) + 1 .. Len(B2) /\ (j + Len(B)) - Len(B) = j
      BY <1>2, <1>6, <1>7
    <3>3. B2[j + Len(B)].dst = q[j]
      BY <2>2, <3>2
    <3> QED
      BY <3>1, <3>2, <3>3
  <2>4. ASSUME NEW i \in Len(B) + 1 .. Len(B2), NEW j \in Len(B) + 1 .. Len(B2), i # j
        PROVE  B2[i].dst # B2[j].dst
    <3>1. i - Len(B) # j - Len(B)
      BY <1>6, <2>4
    <3> QED
      BY <1>2, <2>1, <2>2, <3>1
  <2>7. ASSUME NEW i \in Len(B) + 1 .. Len(B2), NEW j \in Len(B) + 1 .. Len(B2), i < j,
               Early(r, B2[j].dst)
        PROVE  Early(r, B2[i].dst)
    <3>1. i - Len(B) \in 1 .. Len(q) /\ j - Len(B) \in 1 .. Len(q)
          /\ i - Len(B) < j - Len(B)
      BY <1>6, <2>1, <2>7
    <3>2. B2[i].dst = q[i - Len(B)] /\ B2[j].dst = q[j - Len(B)]
      BY <2>2
    <3> QED
      BY <1>1, <2>7, <3>1, <3>2 DEF EarlyFirst
  <2>5. ASSUME NEW i \in 1 .. Len(B)
        PROVE  B2[i] = B[i]
    <3>1. i \in 1 .. Len(B) + Len(q) /\ i <= Len(B)
      BY <1>2, <1>6
    <3> QED
      BY <1>7, <3>1
  <2>6. Len(B2) \in Nat /\ Len(B) <= Len(B2)
    BY <1>2, <1>6, <1>7
  <2> QED
    BY <1>6, <1>7, <2>2, <2>3, <2>4, <2>5, <2>6, <2>7 DEF Enqueued
<1>9. s.nl \in Netlink /\ s.nl.buffered = B2 /\ s.nl.answers = n.answers
  BY <1>3, <1>7 DEF Netlink
<1>10. ASSUME NEW d \in Dests
       PROVE  /\ s.rt[d].present = r[d].present
              /\ s.rt[d].set = r[d].set
              /\ s.rt[d].p = r[d].p
              /\ s.rt[d].old = r[d].old
              /\ s.rt[d].in_processing <=> r[d].in_processing \/ d \in todo
  <2> DEFINE b == r[d].in_processing \/ d \in todo
  <2>1. s.rt[d] = [r[d] EXCEPT !.in_processing = b]
    BY <1>3
  <2>2. b \in BOOLEAN /\ r[d] \in Entry
    OBVIOUS
  <2> HIDE DEF b
  <2>3. /\ s.rt[d].present = r[d].present /\ s.rt[d].set = r[d].set
        /\ s.rt[d].p = r[d].p /\ s.rt[d].old = r[d].old
        /\ s.rt[d].in_processing = b
    BY <2>1, <2>2 DEF Entry
  <2> QED
    BY <2>3 DEF b
<1> QED
  BY <1>3, <1>8, <1>9, <1>10 DEF s, todo, B

(* The requests or answers B without those of D, which are not wanted.     *)
Forgotten(B, C, D) ==
    /\ Len(C) = Len(B) /\ Len(B) \in Nat
    /\ \A i \in 1 .. Len(B) :
         C[i].dst = B[i].dst /\ (C[i].wanted <=> B[i].wanted /\ B[i].dst \notin D)

(* os_routing_linux_interrupt forgets what is under way for D.             *)
LEMMA InterruptValue ==
    ASSUME NEW n \in Netlink, NEW D
    PROVE  LET m == Interrupt(n, D)
           IN  /\ m \in Netlink
               /\ Forgotten(n.buffered, m.buffered, D)
               /\ Forgotten(n.answers, m.answers, D)
               /\ \A i \in 1 .. Len(n.buffered) :
                    /\ m.buffered[i].set = n.buffered[i].set
                    /\ m.buffered[i].p = n.buffered[i].p
               /\ \A i \in 1 .. Len(n.answers) : m.answers[i].err = n.answers[i].err
<1> DEFINE forget(q) == [j \in DOMAIN q |-> [q[j] EXCEPT !.wanted = @ /\ q[j].dst \notin D]]
           B == n.buffered
           A == n.answers
           m == Interrupt(n, D)
<1>1. /\ B \in Seq(Req) /\ Len(B) \in Nat /\ DOMAIN B = 1 .. Len(B)
      /\ A \in Seq(Ans) /\ Len(A) \in Nat /\ DOMAIN A = 1 .. Len(A)
      /\ \A i \in 1 .. Len(B) : B[i] \in Req
      /\ \A i \in 1 .. Len(A) : A[i] \in Ans
  <2>1. B \in Seq(Req) /\ A \in Seq(Ans)
    BY DEF Netlink
  <2> QED
    BY <2>1, LenProperties
<1>2. m = [n EXCEPT !.buffered = forget(B), !.answers = forget(A)]
  BY DEF Interrupt, Netlink
<1> HIDE DEF m, B, A
<1>3. ASSUME NEW i \in 1 .. Len(B)
      PROVE  /\ forget(B)[i] \in Req /\ forget(B)[i].dst = B[i].dst
             /\ forget(B)[i].set = B[i].set /\ forget(B)[i].p = B[i].p
             /\ forget(B)[i].wanted <=> B[i].wanted /\ B[i].dst \notin D
  <2> DEFINE w == B[i].wanted /\ B[i].dst \notin D
  <2>1. forget(B)[i] = [B[i] EXCEPT !.wanted = w]
    BY <1>1
  <2>2. w \in BOOLEAN
    OBVIOUS
  <2> HIDE DEF w, forget
  <2> QED
    BY <1>1, <2>1, <2>2 DEF Req, w
<1>4. ASSUME NEW i \in 1 .. Len(A)
      PROVE  /\ forget(A)[i] \in Ans /\ forget(A)[i].dst = A[i].dst
             /\ forget(A)[i].err = A[i].err
             /\ forget(A)[i].wanted <=> A[i].wanted /\ A[i].dst \notin D
  <2> DEFINE w == A[i].wanted /\ A[i].dst \notin D
  <2>1. forget(A)[i] = [A[i] EXCEPT !.wanted = w]
    BY <1>1
  <2>2. w \in BOOLEAN
    OBVIOUS
  <2> HIDE DEF w, forget
  <2> QED
    BY <1>1, <2>1, <2>2 DEF Ans, w
<1>5. forget(B) \in [1 .. Len(B) -> Req] /\ forget(A) \in [1 .. Len(A) -> Ans]
  BY <1>1, <1>3, <1>4
<1> HIDE DEF forget
<1>6. /\ forget(B) \in Seq(Req) /\ Len(forget(B)) = Len(B)
      /\ forget(A) \in Seq(Ans) /\ Len(forget(A)) = Len(A)
  <2>1. ASSUME NEW S, NEW n1 \in Nat, NEW q \in [1 .. n1 -> S]
        PROVE  q \in Seq(S) /\ Len(q) = n1
    OBVIOUS
  <2>2. Len(B) \in Nat /\ Len(A) \in Nat
    BY <1>1
  <2> QED
    BY <1>5, <2>1, <2>2
<1>7. m \in Netlink /\ m.buffered = forget(B) /\ m.answers = forget(A)
  BY <1>2, <1>6 DEF Netlink
<1> QED
  BY <1>1, <1>3, <1>4, <1>6, <1>7 DEF Forgotten, m, B, A

(* _cb_route_finished of an entry of the tree.                             *)
LEMMA RouteFinishedValue ==
    ASSUME NEW e, EntryFine(e), e.present, NEW err
    PROVE  /\ EntryFine(RouteFinished(e, err))
           /\ err = "OK" => RouteFinished(e, err) =
                              IF e.set THEN [e EXCEPT !.in_processing = FALSE] ELSE Absent
<1> DEFINE done == [e EXCEPT !.in_processing = FALSE]
           again == [done EXCEPT !.set = TRUE]
<1>1. EntryFine(Absent)
  BY DEF EntryFine, Absent, Entry, Param, NoParam
<1>2. EntryFine(done) /\ EntryFine(again)
  <2>1. /\ done \in Entry /\ done.present /\ done.p = e.p
        /\ again \in Entry /\ again.present /\ again.p = e.p
    BY DEF EntryFine, Entry
  <2> QED
    BY <2>1 DEF EntryFine
<1>3. RouteFinished(e, err) \in {done, again, Absent}
  BY DEF RouteFinished
<1>4. err = "OK" => RouteFinished(e, err) = IF e.set THEN done ELSE Absent
  BY DEF RouteFinished
<1> QED
  BY <1>1, <1>2, <1>3, <1>4

(* What is under way stays wanted once: with new requests for routes that  *)
(* do not wait, without the forgotten ones, after the kernel has handled   *)
(* the first request, and after its first answer.                          *)
LEMMA WantedEnqueued ==
    ASSUME NEW f, NEW B, NEW A, NEW C, NEW r, NEW todo,
           WantedOnce(f, B, A), Enqueued(B, C, r, todo), todo \cap f = {}
    PROVE  WantedOnce(f \cup todo, C, A)
<1>1. /\ Len(B) \in Nat /\ Len(C) \in Nat /\ Len(B) <= Len(C)
      /\ \A i \in 1 .. Len(B) : C[i] = B[i]
  BY DEF Enqueued
<1>2. ASSUME NEW i \in 1 .. Len(C)
      PROVE  \/ i \in 1 .. Len(B) /\ C[i] = B[i]
             \/ i \in Len(B) + 1 .. Len(C) /\ C[i].dst \in todo /\ C[i].dst \notin f
  <2>1. i \in 1 .. Len(B) \/ i \in Len(B) + 1 .. Len(C)
    BY <1>1
  <2> QED
    BY <1>1, <2>1 DEF Enqueued
<1>3. \A i \in 1 .. Len(C) : C[i].wanted => C[i].dst \in f \cup todo
  BY <1>2 DEF WantedOnce
<1>4. ASSUME NEW i \in 1 .. Len(C), NEW j \in 1 .. Len(C), i # j,
             C[i].wanted, C[j].wanted
      PROVE  C[i].dst # C[j].dst
  <2>1. CASE i \in 1 .. Len(B) /\ j \in 1 .. Len(B)
    BY <1>1, <1>4, <2>1 DEF WantedOnce
  <2>2. CASE i \in 1 .. Len(B) /\ j \notin 1 .. Len(B)
    BY <1>1, <1>2, <1>4, <2>2 DEF WantedOnce
  <2>3. CASE i \notin 1 .. Len(B) /\ j \in 1 .. Len(B)
    BY <1>1, <1>2, <1>4, <2>3 DEF WantedOnce
  <2>4. CASE i \notin 1 .. Len(B) /\ j \notin 1 .. Len(B)
    BY <1>2, <1>4, <2>4 DEF Enqueued
  <2> QED
    BY <2>1, <2>2, <2>3, <2>4
<1>5. ASSUME NEW i \in 1 .. Len(A), NEW j \in 1 .. Len(C), A[i].wanted, C[j].wanted
      PROVE  A[i].dst # C[j].dst
  BY <1>2, <1>5 DEF WantedOnce
<1> QED
  BY <1>3, <1>4, <1>5 DEF WantedOnce

(* The wanted ones of what is not forgotten.                               *)
LEMMA WantedForgotten ==
    ASSUME NEW f, NEW g, NEW B, NEW A, NEW C, NEW E, NEW D,
           WantedOnce(f, B, A), Forgotten(B, C, D), Forgotten(A, E, D), f \ D \subseteq g
    PROVE  WantedOnce(g, C, E)
<1>1. ASSUME NEW i \in 1 .. Len(C), C[i].wanted
      PROVE  i \in 1 .. Len(B) /\ C[i].dst = B[i].dst /\ B[i].wanted /\ B[i].dst \in g
  BY <1>1 DEF Forgotten, WantedOnce
<1>2. ASSUME NEW i \in 1 .. Len(E), E[i].wanted
      PROVE  i \in 1 .. Len(A) /\ E[i].dst = A[i].dst /\ A[i].wanted /\ A[i].dst \in g
  BY <1>2 DEF Forgotten, WantedOnce
<1> QED
  BY <1>1, <1>2 DEF WantedOnce

(* The first request becomes the last answer.                              *)
Handled(B, C, A, E) ==
    /\ Len(B) \in Nat \ {0} /\ Len(C) \in Nat /\ Len(C) = Len(B) - 1
    /\ \A i \in 1 .. Len(C) : C[i] = B[i + 1]
    /\ Len(A) \in Nat /\ Len(E) \in Nat /\ Len(E) = Len(A) + 1
    /\ \A i \in 1 .. Len(A) : E[i] = A[i]
    /\ E[Len(E)].dst = B[1].dst /\ E[Len(E)].wanted = B[1].wanted

(* A wanted request becomes a wanted answer.                               *)
LEMMA WantedHandled ==
    ASSUME NEW f, NEW B, NEW A, NEW C, NEW E,
           WantedOnce(f, B, A), Handled(B, C, A, E)
    PROVE  WantedOnce(f, C, E)
<1>1. ASSUME NEW i \in 1 .. Len(C)
      PROVE  C[i] = B[i + 1] /\ i + 1 \in 1 .. Len(B) /\ i + 1 # 1
  BY DEF Handled
<1>2. ASSUME NEW i \in 1 .. Len(E)
      PROVE  \/ i \in 1 .. Len(A) /\ E[i] = A[i] /\ i # Len(E)
             \/ i = Len(E) /\ E[i].dst = B[1].dst /\ E[i].wanted = B[1].wanted
  BY DEF Handled
<1>3. 1 \in 1 .. Len(B)
  BY DEF Handled
<1>4. ASSUME NEW i \in 1 .. Len(C), NEW j \in 1 .. Len(C), i # j,
             C[i].wanted, C[j].wanted
      PROVE  C[i].dst # C[j].dst
  <2>1. i + 1 # j + 1
    BY <1>4 DEF Handled
  <2> QED
    BY <1>1, <1>4, <2>1 DEF WantedOnce
<1>5. ASSUME NEW i \in 1 .. Len(E), NEW j \in 1 .. Len(E), i # j,
             E[i].wanted, E[j].wanted
      PROVE  E[i].dst # E[j].dst
  BY <1>2, <1>3, <1>5 DEF WantedOnce
<1>6. ASSUME NEW i \in 1 .. Len(E), NEW j \in 1 .. Len(C), E[i].wanted, C[j].wanted
      PROVE  E[i].dst # C[j].dst
  <2>1. C[j] = B[j + 1] /\ j + 1 \in 1 .. Len(B) /\ j + 1 # 1
    BY <1>1
  <2>2. CASE i \in 1 .. Len(A) /\ E[i] = A[i]
    BY <1>6, <2>1, <2>2 DEF WantedOnce
  <2>3. CASE E[i].dst = B[1].dst /\ E[i].wanted = B[1].wanted
    BY <1>3, <1>6, <2>1, <2>3 DEF WantedOnce
  <2> QED
    BY <1>2, <2>2, <2>3
<1>7. \A i \in 1 .. Len(C) : C[i].wanted => C[i].dst \in f
  BY <1>1 DEF WantedOnce
<1>8. \A i \in 1 .. Len(E) : E[i].wanted => E[i].dst \in f
  BY <1>2, <1>3 DEF WantedOnce
<1> QED
  BY <1>4, <1>5, <1>6, <1>7, <1>8 DEF WantedOnce

(* The first answer is gone.                                               *)
Rest(A, E) ==
    /\ Len(A) \in Nat \ {0} /\ Len(E) \in Nat /\ Len(E) = Len(A) - 1
    /\ \A i \in 1 .. Len(E) : E[i] = A[i + 1]

(* A wanted answer was the only one for its route.                         *)
LEMMA WantedRest ==
    ASSUME NEW f, NEW B, NEW A, NEW E,
           WantedOnce(f, B, A), Rest(A, E)
    PROVE  /\ WantedOnce(f, B, E)
           /\ A[1].wanted => WantedOnce(f \ {A[1].dst}, B, E)
<1>1. ASSUME NEW i \in 1 .. Len(E)
      PROVE  E[i] = A[i + 1] /\ i + 1 \in 1 .. Len(A) /\ i + 1 # 1
  BY DEF Rest
<1>2. 1 \in 1 .. Len(A)
  BY DEF Rest
<1>3. ASSUME NEW i \in 1 .. Len(E), NEW j \in 1 .. Len(E), i # j,
             E[i].wanted, E[j].wanted
      PROVE  E[i].dst # E[j].dst
  <2>1. i + 1 # j + 1
    BY <1>3 DEF Rest
  <2> QED
    BY <1>1, <1>3, <2>1 DEF WantedOnce
<1>4. \A i \in 1 .. Len(E) : E[i].wanted => E[i].dst \in f
  BY <1>1 DEF WantedOnce
<1>5. ASSUME A[1].wanted
      PROVE  /\ \A i \in 1 .. Len(E) : E[i].wanted => E[i].dst # A[1].dst
             /\ \A i \in 1 .. Len(B) : B[i].wanted => B[i].dst # A[1].dst
  BY <1>1, <1>2, <1>5 DEF WantedOnce
<1>6. \A i \in 1 .. Len(E), j \in 1 .. Len(B) :
        E[i].wanted /\ B[j].wanted => E[i].dst # B[j].dst
  BY <1>1 DEF WantedOnce
<1>7. WantedOnce(f, B, E)
  BY <1>3, <1>4, <1>6 DEF WantedOnce
<1> QED
  BY <1>5, <1>7 DEF WantedOnce
-----------------------------------------------------------------------------
(* The kernel handles one request: the kernel, the requests and the        *)
(* answers before and after.                                               *)
Handles(k, B, A, err) ==
    <<KernelApplies(k, B[1], err), Tail(B),
      Append(A, [dst |-> B[1].dst, err |-> err, wanted |-> B[1].wanted])>>
Errors == {"OK", "ESRCH", "ENETUNREACH"}

(* A request changes the kernel in one place.                              *)
LEMMA KernelAppliesType ==
    ASSUME NEW k \in Kernel, NEW q \in Req, NEW err
    PROVE  KernelApplies(k, q, err) \in Kernel
<1> DEFINE v == IF q.set THEN q.p.gw ELSE NoRoute
<1>1. q.p.table \in Tables /\ q.dst \in Dests /\ v \in Hops \cup {NoRoute}
  BY DEF Req, Goal
<1>2. KernelApplies(k, q, err) = IF err # "OK" THEN k ELSE [k EXCEPT ![q.p.table][q.dst] = v]
  BY DEF KernelApplies
<1> HIDE DEF v
<1>3. [k[q.p.table] EXCEPT ![q.dst] = v] \in [Dests -> Hops \cup {NoRoute}]
  BY <1>1 DEF Kernel
<1> QED
  BY <1>1, <1>2, <1>3 DEF Kernel

(* Handling the first request.                                             *)
LEMMA HandlesValue ==
    ASSUME NEW k \in Kernel, NEW B \in Seq(Req), NEW A \in Seq(Ans), B # <<>>,
           NEW err \in Errors
    PROVE  /\ Handles(k, B, A, err)[1] \in Kernel
           /\ Handles(k, B, A, err)[2] \in Seq(Req)
           /\ Handles(k, B, A, err)[3] \in Seq(Ans)
           /\ Handled(B, Handles(k, B, A, err)[2], A, Handles(k, B, A, err)[3])
           /\ LET E == Handles(k, B, A, err)[3] IN E[Len(E)].err = err
<1> DEFINE a == [dst |-> B[1].dst, err |-> err, wanted |-> B[1].wanted]
           E == Append(A, a)
           C == Tail(B)
<1>1. Len(B) \in Nat \ {0} /\ B[1] \in Req /\ Len(A) \in Nat
  BY EmptySeq, LenProperties, ElementOfSeq
<1>2. a \in Ans /\ a.dst = B[1].dst /\ a.wanted = B[1].wanted /\ a.err = err
  BY <1>1 DEF Ans, Req, Errors
<1> HIDE DEF a
<1>3. /\ E \in Seq(Ans) /\ Len(E) = Len(A) + 1
      /\ \A i \in 1 .. Len(A) : E[i] = A[i]
      /\ E[Len(A) + 1] = a
  BY <1>2, AppendProperties
<1>4. /\ C \in Seq(Req) /\ Len(C) = Len(B) - 1
      /\ \A i \in 1 .. Len(C) : C[i] = B[i + 1]
  BY HeadTailProperties
<1>5. Handles(k, B, A, err) = <<KernelApplies(k, B[1], err), C, E>>
  BY DEF Handles, a
<1> HIDE DEF C, E
<1>6. KernelApplies(k, B[1], err) \in Kernel
  BY <1>1, KernelAppliesType
<1>7. Len(E) \in Nat /\ Len(C) \in Nat
  BY <1>1, <1>3, <1>4
<1>8. Handled(B, C, A, E)
  BY <1>1, <1>2, <1>3, <1>4, <1>7 DEF Handled
<1> QED
  BY <1>2, <1>3, <1>4, <1>5, <1>6, <1>8

(* What holds whenever the kernel has handled one request more holds after *)
(* a netlink buffer of them.                                               *)
LEMMA FlushRuns ==
    ASSUME kernel \in Kernel, nl \in Netlink, Flush, NEW G,
           <<kernel, nl.buffered, nl.answers>> \in G,
           ASSUME NEW k \in Kernel, NEW B \in Seq(Req), NEW A \in Seq(Ans),
                  <<k, B, A>> \in G, B # <<>>, NEW err \in KernelVerdicts(k, B[1])
           PROVE  Handles(k, B, A, err) \in G
    PROVE  /\ kernel' \in Kernel /\ nl' \in Netlink
           /\ <<kernel', nl'.buffered, nl'.answers>> \in G
<1> DEFINE B == nl.buffered
           A == nl.answers
           n == IF PageRequests < Len(nl.buffered) THEN PageRequests ELSE Len(nl.buffered)
           batch == SubSeq(nl.buffered, 1, n)
<1>1. B \in Seq(Req) /\ A \in Seq(Ans) /\ Len(B) \in Nat \ {0} /\ Len(A) \in Nat
  <2>1. B \in Seq(Req) /\ A \in Seq(Ans) /\ B # <<>>
    BY DEF Netlink, Flush
  <2> QED
    BY <2>1, EmptySeq, LenProperties
<1>2. n \in Nat /\ n <= Len(B) /\ n # 0
  BY <1>1, ConstantsAssumption
<1>3. PICK errs \in [1 .. n -> Errors] :
        LET k[j \in 0 .. n] == IF j = 0 THEN kernel
                               ELSE KernelApplies(k[j - 1], batch[j], errs[j])
        IN  /\ \A j \in 1 .. n : errs[j] \in KernelVerdicts(k[j - 1], batch[j])
            /\ kernel' = k[n]
            /\ nl' = [nl EXCEPT
                        !.buffered = SubSeq(@, n + 1, Len(@)),
                        !.answers = @ \o
                          [j \in 1 .. n |-> [dst |-> batch[j].dst, err |-> errs[j],
                                             wanted |-> batch[j].wanted]],
                        !.transit = n, !.timer = TRUE]
  BY DEF Flush, Errors
<1> DEFINE h == CHOOSE k : k = [j \in 0 .. n |->
                                 IF j = 0 THEN kernel
                                 ELSE KernelApplies(k[j - 1], batch[j], errs[j])]
           ans(j) == [dst |-> B[j].dst, err |-> errs[j], wanted |-> B[j].wanted]
           list == [j \in 1 .. n |-> [dst |-> batch[j].dst, err |-> errs[j],
                                      wanted |-> batch[j].wanted]]
<1>4. /\ \A j \in 1 .. n : errs[j] \in KernelVerdicts(h[j - 1], batch[j])
      /\ kernel' = h[n]
      /\ nl' = [nl EXCEPT !.buffered = SubSeq(B, n + 1, Len(B)),
                          !.answers = A \o list, !.transit = n, !.timer = TRUE]
  BY <1>3
<1>5. \A j \in 1 .. n : batch[j] = B[j] /\ B[j] \in Req
  <2>1. \A i \in 1 .. n : nl.buffered[i] \in Req
    BY <1>1, <1>2, ElementOfSeq
  <2>2. \A i \in 1 .. n - 1 + 1 : SubSeq(nl.buffered, 1, n)[i] = nl.buffered[1 + i - 1]
    <3> HIDE DEF n
    <3> QED
      BY <1>2, <2>1, SubSeqProperties
  <2> QED
    BY <1>2, <2>1, <2>2
<1> HIDE DEF batch, n, B, A
<1>6. h[0] = kernel /\ \A j \in 1 .. n : h[j] = KernelApplies(h[j - 1], B[j], errs[j])
  <2> DEFINE S == Kernel
             step == [j \in Nat |-> [x \in S |-> IF j \in 1 .. n
                                       THEN KernelApplies(x, batch[j], errs[j]) ELSE x]]
  <2>1. ASSUME NEW x \in S, NEW j \in 1 .. n
        PROVE  KernelApplies(x, batch[j], errs[j]) \in S
    BY <1>5, KernelAppliesType
  <2>2. kernel \in S
    OBVIOUS
  <2> HIDE DEF S
  <2>3. step \in [Nat -> [S -> S]]
    BY <2>1
  <2>4. PICK f \in [0 .. n -> S] : Loop(f, kernel, n, step)
    <3> HIDE DEF step
    <3> QED
      BY <1>2, <2>2, <2>3, LoopRuns
  <2>5. \A j \in 0 .. n : f[j] = IF j = 0 THEN kernel
                                 ELSE KernelApplies(f[j - 1], batch[j], errs[j])
    <3>1. ASSUME NEW j \in 0 .. n, j # 0
          PROVE  step[j][f[j - 1]] = KernelApplies(f[j - 1], batch[j], errs[j])
      <4>1. f[j - 1] \in S /\ j \in 1 .. n
        BY <1>2, <2>4, <3>1
      <4> QED
        BY <1>2, <4>1
    <3> QED
      BY <2>4, <3>1 DEF Loop
  <2>6. f = [j \in 0 .. n |-> IF j = 0 THEN kernel
                              ELSE KernelApplies(f[j - 1], batch[j], errs[j])]
    BY <2>5
  <2>7. h = [j \in 0 .. n |-> IF j = 0 THEN kernel
                              ELSE KernelApplies(h[j - 1], batch[j], errs[j])]
    BY <2>6
  <2> HIDE DEF h
  <2>8. h[0] = kernel /\ \A j \in 1 .. n : h[j] = KernelApplies(h[j - 1], batch[j], errs[j])
    BY <1>2, <2>7
  <2> QED
    BY <1>5, <2>8
<1> HIDE DEF h
<1> DEFINE bs(j) == SubSeq(B, j + 1, Len(B))
           as(j) == A \o [i \in 1 .. j |-> ans(i)]
<1>7. ASSUME NEW j \in 1 .. n
      PROVE  ans(j) \in Ans
  <2>1. errs[j] \in Errors /\ B[j] \in Req
    BY <1>5
  <2> QED
    BY <2>1 DEF Ans, Errors, Req
<1>8. ASSUME NEW j \in 0 .. n
      PROVE  /\ bs(j) \in Seq(Req) /\ Len(bs(j)) = Len(B) - j
             /\ \A i \in 1 .. Len(B) - j : bs(j)[i] = B[j + i]
  <2>1. \A i \in j + 1 .. Len(B) : B[i] \in Req
    BY <1>1, <1>2, ElementOfSeq
  <2>2. j + 1 \in Int /\ Len(B) \in Int /\ Len(B) - (j + 1) + 1 = Len(B) - j
    BY <1>1, <1>2
  <2>3. /\ bs(j) \in Seq(Req)
        /\ Len(bs(j)) = IF j + 1 <= Len(B) THEN Len(B) - (j + 1) + 1 ELSE 0
        /\ \A i \in 1 .. Len(B) - (j + 1) + 1 : bs(j)[i] = B[(j + 1) + i - 1]
    BY <2>1, <2>2, SubSeqProperties
  <2> HIDE DEF bs
  <2>4. j \in Nat /\ Len(B) \in Nat /\ j <= Len(B)
    BY <1>1, <1>2
  <2>5. Len(bs(j)) = Len(B) - j
    <3>1. j + 1 <= Len(B) \/ Len(B) - j = 0
      BY <2>4
    <3> QED
      BY <2>2, <2>3, <2>4, <3>1
  <2>6. ASSUME NEW i \in 1 .. Len(B) - j
        PROVE  bs(j)[i] = B[j + i]
    <3>1. (j + 1) + i - 1 = j + i /\ i \in 1 .. Len(B) - (j + 1) + 1
      BY <2>2, <2>4
    <3> QED
      BY <2>3, <3>1
  <2> QED
    BY <2>3, <2>5, <2>6
<1>9. ASSUME NEW j \in 0 .. n
      PROVE  /\ as(j) \in Seq(Ans) /\ Len(as(j)) = Len(A) + j
             /\ \A i \in 1 .. Len(A) + j :
                  as(j)[i] = IF i <= Len(A) THEN A[i] ELSE ans(i - Len(A))
  <2> DEFINE l == [i \in 1 .. j |-> ans(i)]
  <2>1. j \in Nat /\ \A i \in 1 .. j : ans(i) \in Ans
    BY <1>2, <1>7
  <2> HIDE DEF ans
  <2>2. l \in Seq(Ans) /\ Len(l) = j /\ \A i \in 1 .. j : l[i] = ans(i)
    <3>1. l \in [1 .. j -> Ans]
      BY <2>1
    <3>2. ASSUME NEW S, NEW m \in Nat, NEW q \in [1 .. m -> S]
          PROVE  q \in Seq(S) /\ Len(q) = m
      OBVIOUS
    <3> QED
      BY <2>1, <3>1, <3>2
  <2> HIDE DEF l
  <2>3. /\ A \o l \in Seq(Ans) /\ Len(A \o l) = Len(A) + Len(l)
        /\ \A i \in 1 .. Len(A) + Len(l) :
             (A \o l)[i] = IF i <= Len(A) THEN A[i] ELSE l[i - Len(A)]
    BY <1>1, <2>2, ConcatProperties
  <2>4. as(j) = A \o l
    BY DEF l
  <2>5. ASSUME NEW i \in 1 .. Len(A) + j, ~(i <= Len(A))
        PROVE  l[i - Len(A)] = ans(i - Len(A))
    <3>1. i - Len(A) \in 1 .. j
      BY <1>1, <2>1, <2>5
    <3> QED
      BY <2>2, <3>1
  <2> HIDE DEF as
  <2> QED
    BY <2>2, <2>3, <2>4, <2>5
<1> HIDE DEF bs, as
<1> DEFINE P == {j \in Nat : j <= n => h[j] \in Kernel /\ <<h[j], bs(j), as(j)>> \in G}
<1>10. 0 \in P
  <2>1. bs(0) = B
    <3>1. \A i \in 1 .. Len(bs(0)) : bs(0)[i] = B[i]
      BY <1>1, <1>2, <1>8
    <3>2. Len(bs(0)) = Len(B) /\ bs(0) \in Seq(Req)
      BY <1>1, <1>2, <1>8
    <3> QED
      BY <1>1, <3>1, <3>2, SeqEqual
  <2>2. as(0) = A
    <3>1. 0 \in 0 .. n /\ Len(A) \in Nat /\ Len(A) + 0 = Len(A)
      BY <1>1, <1>2
    <3>2. Len(as(0)) = Len(A) + 0 /\ as(0) \in Seq(Ans)
      BY <1>9, <3>1
    <3>3. ASSUME NEW i \in 1 .. Len(as(0))
          PROVE  as(0)[i] = A[i]
      <4>1. as(0)[i] = IF i <= Len(A) THEN A[i] ELSE ans(i - Len(A))
        BY <1>9, <3>1, <3>2
      <4>2. i \in 1 .. Len(A)
        BY <3>1, <3>2
      <4>3. i <= Len(A)
        BY <3>1, <4>2
      <4> QED
        BY <4>1, <4>3
    <3> QED
      BY <1>1, <3>1, <3>2, <3>3, SeqEqual
  <2> QED
    BY <1>6, <2>1, <2>2 DEF B, A
<1>11. ASSUME NEW m \in Nat, m \in P
       PROVE  m + 1 \in P
  <2> SUFFICES ASSUME m + 1 <= n
               PROVE  h[m + 1] \in Kernel /\ <<h[m + 1], bs(m + 1), as(m + 1)>> \in G
    OBVIOUS
  <2>1. m \in 0 .. n /\ m + 1 \in 0 .. n /\ m + 1 \in 1 .. n /\ (m + 1) - 1 = m
    BY <1>2
  <2>2. h[m] \in Kernel /\ <<h[m], bs(m), as(m)>> \in G
    BY <1>2, <1>11
  <2>3. /\ bs(m) \in Seq(Req) /\ bs(m) # <<>> /\ bs(m)[1] = B[m + 1]
        /\ as(m) \in Seq(Ans)
    <3>1. Len(bs(m)) = Len(B) - m /\ Len(B) - m \in Nat \ {0} /\ bs(m)[1] = B[m + 1]
          /\ bs(m) \in Seq(Req)
      BY <1>1, <1>2, <1>8, <2>1
    <3>2. bs(m) # <<>>
      BY <3>1
    <3> QED
      BY <1>9, <2>1, <3>1, <3>2
  <2>4. errs[m + 1] \in KernelVerdicts(h[m], bs(m)[1]) /\ errs[m + 1] \in Errors
    BY <1>4, <1>5, <2>1, <2>3
  <2>5. Handles(h[m], bs(m), as(m), errs[m + 1]) \in G
    BY <2>2, <2>3, <2>4
  <2>6. h[m + 1] = KernelApplies(h[m], bs(m)[1], errs[m + 1])
    BY <1>6, <2>1, <2>3
  <2>7. bs(m + 1) = Tail(bs(m))
    <3>1. /\ Tail(bs(m)) \in Seq(Req) /\ Len(Tail(bs(m))) = Len(bs(m)) - 1
          /\ \A i \in 1 .. Len(Tail(bs(m))) : Tail(bs(m))[i] = bs(m)[i + 1]
      BY <2>3, HeadTailProperties
    <3>2. Len(bs(m)) = Len(B) - m /\ Len(bs(m + 1)) = Len(B) - (m + 1)
          /\ bs(m + 1) \in Seq(Req)
      BY <1>8, <2>1
    <3>3. ASSUME NEW i \in 1 .. Len(bs(m + 1))
          PROVE  bs(m + 1)[i] = Tail(bs(m))[i]
      <4>1. bs(m + 1)[i] = B[(m + 1) + i]
        BY <1>8, <2>1, <3>2
      <4>2. i + 1 \in 1 .. Len(B) - m
        BY <1>1, <1>2, <2>1, <3>2
      <4>3. bs(m)[i + 1] = B[m + (i + 1)]
        BY <1>8, <2>1, <4>2
      <4>4. i \in 1 .. Len(Tail(bs(m)))
        BY <1>1, <1>2, <2>1, <3>1, <3>2
      <4>5. (m + 1) + i = m + (i + 1)
        OBVIOUS
      <4>6. Tail(bs(m))[i] = bs(m)[i + 1]
        BY <3>1, <4>4
      <4> QED
        BY <4>1, <4>3, <4>5, <4>6
    <3>4. Len(bs(m + 1)) = Len(Tail(bs(m)))
      <4>1. Len(B) \in Nat /\ m \in Nat
        BY <1>1
      <4>2. ASSUME NEW x \in Nat, NEW y \in Nat
            PROVE  x - (y + 1) = (x - y) - 1
        OBVIOUS
      <4>3. Len(B) - (m + 1) = (Len(B) - m) - 1
        BY <4>1, <4>2
      <4> QED
        BY <3>1, <3>2, <4>3
    <3> QED
      BY <3>1, <3>2, <3>3, <3>4, SeqEqual
  <2> DEFINE a == [dst |-> bs(m)[1].dst, err |-> errs[m + 1], wanted |-> bs(m)[1].wanted]
  <2>8. as(m + 1) = Append(as(m), a)
    <3>1. a = ans(m + 1) /\ a \in Ans
      BY <1>7, <2>1, <2>3
    <3> HIDE DEF a, ans
    <3>6. as(m) \in Seq(Ans) /\ a \in Ans
      BY <2>3, <3>1
    <3>2. /\ Append(as(m), a) \in Seq(Ans) /\ Len(Append(as(m), a)) = Len(as(m)) + 1
          /\ \A i \in 1 .. Len(as(m)) : Append(as(m), a)[i] = as(m)[i]
          /\ Append(as(m), a)[Len(as(m)) + 1] = a
      <4>1. ASSUME NEW q \in Seq(Ans), NEW x \in Ans
            PROVE  /\ Append(q, x) \in Seq(Ans) /\ Len(Append(q, x)) = Len(q) + 1
                   /\ \A i \in 1 .. Len(q) : Append(q, x)[i] = q[i]
                   /\ Append(q, x)[Len(q) + 1] = x
        BY AppendProperties
      <4> QED
        BY <3>6, <4>1
    <3>3. /\ Len(as(m)) = Len(A) + m /\ Len(as(m + 1)) = Len(A) + (m + 1)
          /\ as(m + 1) \in Seq(Ans)
      BY <1>9, <2>1
    <3>7. Len(A) \in Nat /\ m \in Nat
      BY <1>1
    <3>4. ASSUME NEW i \in 1 .. Len(as(m + 1))
          PROVE  as(m + 1)[i] = Append(as(m), a)[i]
      <4>1. as(m + 1)[i] = IF i <= Len(A) THEN A[i] ELSE ans(i - Len(A))
        BY <1>9, <2>1, <3>3
      <4>2. CASE i <= Len(A) + m
        <5>1. i \in 1 .. Len(as(m)) /\ i \in 1 .. Len(A) + m
          BY <1>1, <3>3, <4>2
        <5>2. as(m)[i] = IF i <= Len(A) THEN A[i] ELSE ans(i - Len(A))
          BY <1>9, <2>1, <5>1
        <5> QED
          BY <3>2, <4>1, <5>1, <5>2
      <4>3. CASE ~(i <= Len(A) + m)
        <5>1. i = Len(A) + (m + 1) /\ i = Len(as(m)) + 1 /\ i - Len(A) = m + 1 /\ ~(i <= Len(A))
          <6>1. i \in 1 .. Len(A) + (m + 1)
            BY <3>3
          <6>2. i = Len(A) + (m + 1)
            BY <3>7, <4>3, <6>1
          <6> QED
            BY <3>3, <3>7, <6>2
        <5> QED
          BY <3>1, <3>2, <4>1, <5>1
      <4> QED
        BY <4>2, <4>3
    <3>5. Len(as(m + 1)) = Len(Append(as(m), a))
      <4>1. Len(Append(as(m), a)) = Len(as(m)) + 1
        BY <3>2
      <4>2. (Len(A) + m) + 1 = Len(A) + (m + 1)
        BY <3>7
      <4> QED
        BY <3>3, <4>1, <4>2
    <3> QED
      BY <3>2, <3>3, <3>4, <3>5, SeqEqual
  <2>9. Handles(h[m], bs(m), as(m), errs[m + 1]) = <<h[m + 1], bs(m + 1), as(m + 1)>>
    BY <2>6, <2>7, <2>8 DEF Handles
  <2>10. h[m + 1] \in Kernel
    <3>1. bs(m)[1] \in Req
      BY <1>5, <2>1, <2>3
    <3> QED
      BY <2>2, <2>6, <3>1, KernelAppliesType
  <2> QED
    BY <2>5, <2>9, <2>10
<1>12. n \in P
  <2> HIDE DEF P
  <2> QED
    BY <1>2, <1>10, <1>11, Induction
<1>13. h[n] \in Kernel /\ <<h[n], bs(n), as(n)>> \in G
  BY <1>2, <1>12
<1>14. list = [i \in 1 .. n |-> ans(i)]
  BY <1>5
<1>15. n \in 0 .. n
  BY <1>2
<1>16. A \o list = as(n) /\ SubSeq(B, n + 1, Len(B)) = bs(n)
  BY <1>14 DEF as, bs
<1>17. bs(n) \in Seq(Req) /\ as(n) \in Seq(Ans)
  BY <1>8, <1>9, <1>15
<1> HIDE DEF list, ans
<1>18. nl' = [nl EXCEPT !.buffered = bs(n), !.answers = as(n), !.transit = n, !.timer = TRUE]
  BY <1>4, <1>16
<1>19. nl' \in Netlink /\ nl'.buffered = bs(n) /\ nl'.answers = as(n)
  BY <1>2, <1>17, <1>18 DEF Netlink
<1> QED
  BY <1>4, <1>13, <1>19

-----------------------------------------------------------------------------
(* Two entries with the same fields are the same.                          *)
LEMMA SameEntry ==
    ASSUME NEW e \in Entry, NEW g \in Entry,
           e.present = g.present, e.set = g.set, e.p = g.p, e.old = g.old,
           e.in_processing = g.in_processing
    PROVE  e = g
BY DEF Entry

(* What a Dijkstra makes of the entries: a reached one gets its gateway,   *)
(* another keeps it, and every one gets the table of the domain.           *)
LEMMA DijkstraValue ==
    ASSUME RtType, \A d \in Dests : EntryFine(rt[d])
    PROVE  LET r == InitializeParameters(DijkstraResult(PrepareRoutes(rt)))
           IN  \A d \in Dests :
                 /\ EntryFine(r[d])
                 /\ r[d].in_processing = rt[d].in_processing
                 /\ r[d].old = rt[d].p
                 /\ r[d].present => r[d].p.table = table
                 /\ r[d].set <=> want[d] # NoRoute
                 /\ r[d].present <=> rt[d].present \/ want[d] # NoRoute
                 /\ r[d].present => r[d].p.gw = IF want[d] # NoRoute THEN want[d]
                                                ELSE rt[d].p.gw
<1> DEFINE r1 == PrepareRoutes(rt)
           r2 == DijkstraResult(r1)
           r3 == InitializeParameters(r2)
<1> SUFFICES ASSUME NEW d \in Dests
             PROVE  /\ EntryFine(r3[d])
                    /\ r3[d].in_processing = rt[d].in_processing
                    /\ r3[d].old = rt[d].p
                    /\ r3[d].present => r3[d].p.table = table
                    /\ r3[d].set <=> want[d] # NoRoute
                    /\ r3[d].present <=> rt[d].present \/ want[d] # NoRoute
                    /\ r3[d].present => r3[d].p.gw = IF want[d] # NoRoute THEN want[d]
                                                     ELSE rt[d].p.gw
  OBVIOUS
<1>1. /\ rt[d] \in Entry /\ table \in Tables /\ want[d] \in Hops \cup {NoRoute}
      /\ IF rt[d].present THEN rt[d].p \in Goal ELSE rt[d] = Absent
  BY DEF RtType, EntryFine
<1>2. rt[d].p \in Param
  BY <1>1 DEF Entry
<1>3. /\ r1[d] \in Entry /\ r1[d] = [rt[d] EXCEPT !.set = FALSE, !.old = rt[d].p]
      /\ ~r1[d].set /\ r1[d].old = rt[d].p /\ r1[d].p = rt[d].p
      /\ r1[d].present = rt[d].present /\ r1[d].in_processing = rt[d].in_processing
  BY <1>1, <1>2 DEF PrepareRoutes, Entry
<1> HIDE DEF r1
<1>4. CASE want[d] = NoRoute /\ ~rt[d].present
  <2>1. r2[d] = r1[d] /\ ~r1[d].present
    BY <1>3, <1>4 DEF DijkstraResult
  <2> HIDE DEF r2
  <2>2. r3[d] = r1[d]
    BY <2>1 DEF InitializeParameters
  <2>3. r1[d] = Absent
    <3>1. /\ rt[d] = Absent /\ Absent \in Entry /\ ~Absent.present /\ ~Absent.set
          /\ Absent.set = FALSE /\ Absent.p = Absent.old
      BY <1>1, <1>4 DEF Absent
    <3>2. r1[d].set = FALSE
      BY <1>3 DEF Entry
    <3> QED
      BY <1>3, <3>1, <3>2, SameEntry
  <2>4. EntryFine(Absent) /\ ~Absent.present
    BY <1>1, <1>3, <2>3 DEF EntryFine, Absent
  <2> HIDE DEF r3
  <2> QED
    BY <1>3, <1>4, <2>2, <2>3, <2>4
<1>5. CASE want[d] = NoRoute /\ rt[d].present
  <2>1. r2[d] = r1[d] /\ r1[d].present
    BY <1>3, <1>5 DEF DijkstraResult
  <2> HIDE DEF r2
  <2>2. r3[d] = [r1[d] EXCEPT !.p.table = table]
    BY <2>1 DEF InitializeParameters
  <2> DEFINE p == [r1[d].p EXCEPT !.table = table]
  <2>3. p \in Goal /\ p.table = table /\ p.gw = rt[d].p.gw /\ p \in Param
    BY <1>1, <1>3, <1>5 DEF Goal, Param
  <2>4. r3[d] = [r1[d] EXCEPT !.p = p]
    BY <1>3, <2>2 DEF Entry
  <2> HIDE DEF p, r3
  <2>5. /\ r3[d] \in Entry /\ r3[d].p = p /\ r3[d].present /\ ~r3[d].set
        /\ r3[d].old = rt[d].p /\ r3[d].in_processing = rt[d].in_processing
    BY <1>3, <2>1, <2>3, <2>4 DEF Entry
  <2> QED
    BY <1>5, <2>3, <2>5 DEF EntryFine
<1>6. CASE want[d] # NoRoute
  <2> DEFINE p1 == [r1[d].p EXCEPT !.gw = want[d]]
             p == [p1 EXCEPT !.table = table]
  <2>1. p1 \in Param /\ p \in Goal /\ p \in Param /\ p.table = table /\ p.gw = want[d]
    BY <1>1, <1>2, <1>3, <1>6 DEF Goal, Param
  <2>2. r2[d] = [r1[d] EXCEPT !.present = TRUE, !.set = TRUE, !.p = p1]
    BY <1>3, <1>6 DEF DijkstraResult, UpdateRoutingEntry, Entry
  <2> HIDE DEF p1, r2
  <2>3. /\ r2[d] \in Entry /\ r2[d].present /\ r2[d].set /\ r2[d].p = p1
        /\ r2[d].old = rt[d].p /\ r2[d].in_processing = rt[d].in_processing
    BY <1>3, <2>1, <2>2 DEF Entry
  <2>4. r3[d] = [r2[d] EXCEPT !.p = p]
    BY <2>3 DEF InitializeParameters, Entry
  <2> HIDE DEF p, r3
  <2>5. /\ r3[d] \in Entry /\ r3[d].p = p /\ r3[d].present /\ r3[d].set
        /\ r3[d].old = rt[d].p /\ r3[d].in_processing = rt[d].in_processing
    BY <2>1, <2>3, <2>4 DEF Entry
  <2> QED
    BY <1>6, <2>1, <2>5 DEF EntryFine
<1> QED
  BY <1>1, <1>4, <1>5, <1>6

(* _process_kernel_queue for entries of the tree keeps the shapes.         *)
LEMMA QueueShapes ==
    ASSUME NEW r \in [Dests -> Entry], NEW n \in Netlink, NEW f \in SUBSET Dests,
           NEW D \in SUBSET Dests, NEW k \in Kernel,
           \A d \in Dests : EntryFine(r[d]),
           \A d \in D : r[d].present,
           \A d \in f : r[d].in_processing,
           WantedOnce(f, n.buffered, n.answers)
    PROVE  LET s == ProcessKernelQueue(r, n, f, D)
           IN  Shapes(s.rt, s.feedback, k, s.nl)
<1> DEFINE s == ProcessKernelQueue(r, n, f, D)
           todo == {d \in D : ~r[d].in_processing}
<1>1. \A d \in D : r[d].p \in Goal
  BY DEF EntryFine
<1>2. /\ s.feedback = f \cup todo
      /\ s.nl \in Netlink
      /\ s.nl.answers = n.answers
      /\ Enqueued(n.buffered, s.nl.buffered, r, todo)
      /\ \A d \in Dests :
           /\ s.rt[d].present = r[d].present
           /\ s.rt[d].set = r[d].set
           /\ s.rt[d].p = r[d].p
           /\ s.rt[d].old = r[d].old
           /\ s.rt[d].in_processing <=> r[d].in_processing \/ d \in todo
  BY <1>1, ProcessKernelQueueValue
<1>3. s.rt \in [Dests -> Entry]
  BY ProcessKernelQueueKeeps
<1> HIDE DEF s
<1>4. todo \cap f = {} /\ \A d \in todo : r[d].present
  OBVIOUS
<1> HIDE DEF todo
<1>5. WantedOnce(s.feedback, s.nl.buffered, s.nl.answers)
  BY <1>2, <1>4, WantedEnqueued
<1>6. ASSUME NEW d \in Dests
      PROVE  EntryFine(s.rt[d])
  <2>1. s.rt[d] \in Entry /\ r[d] \in Entry
    BY <1>3
  <2>2. CASE r[d].present
    BY <1>2, <2>1, <2>2 DEF EntryFine
  <2>3. CASE ~r[d].present
    <3>1. s.rt[d].in_processing = r[d].in_processing
      <4>1. s.rt[d].in_processing \in BOOLEAN /\ r[d].in_processing \in BOOLEAN
        BY <2>1 DEF Entry
      <4>2. s.rt[d].in_processing <=> r[d].in_processing
        BY <1>2, <1>4, <2>3
      <4> QED
        BY <4>1, <4>2
    <3>2. s.rt[d] = r[d]
      BY <1>2, <2>1, <3>1, SameEntry
    <3> QED
      BY <3>2
  <2> QED
    BY <2>2, <2>3
<1> QED
  BY <1>2, <1>5, <1>6 DEF Shapes, s

(* The inductive invariant with the shapes.                                *)
FullInv == Inv /\ Shapes(rt, feedback, kernel, nl)

(* The initial state has the shapes.                                       *)
LEMMA InitShapes == Init => FullInv
<1> SUFFICES ASSUME Init PROVE Shapes(rt, feedback, kernel, nl)
  BY InitInv DEF FullInv
<1>1. EntryFine(Absent)
  BY DEF EntryFine, Absent, Entry, Param, NoParam
<1>2. nl.buffered = <<>> /\ nl.answers = <<>> /\ nl \in Netlink
  BY DEF Init, Netlink
<1>3. Len(<<>>) = 0
  OBVIOUS
<1>4. WantedOnce(feedback, nl.buffered, nl.answers)
  BY <1>2, <1>3 DEF WantedOnce
<1>5. kernel \in Kernel
  BY DEF Init, Kernel
<1>6. \A d \in Dests : EntryFine(rt[d])
  BY <1>1 DEF Init
<1> QED
  BY <1>2, <1>4, <1>5, <1>6 DEF Shapes

(* A Dijkstra sends requests for entries of the tree only.                 *)
LEMMA TimerFiresShapes ==
    ASSUME FullInv, TimerFires
    PROVE  Shapes(rt, feedback, kernel, nl)'
<1> USE DEF FullInv
<1>1. CASE trigger /\ ~stopped
  <2> DEFINE r == InitializeParameters(DijkstraResult(PrepareRoutes(rt)))
             s == ProcessKernelQueue(r, nl, feedback, Modified(r))
  <2>1. rt' = s.rt /\ feedback' = s.feedback /\ nl' = s.nl /\ kernel' = kernel
    BY <1>1 DEF TimerFires, Commit
  <2>2. /\ r \in [Dests -> Entry]
        /\ \A d \in Dests : r[d].in_processing = rt[d].in_processing
    BY DijkstraKeeps DEF Inv
  <2>3. \A d \in Dests : EntryFine(r[d])
    BY DijkstraValue DEF Inv, Shapes
  <2>4. Modified(r) \in SUBSET Dests /\ \A d \in Modified(r) : r[d].present
    BY DEF Modified
  <2> HIDE DEF r
  <2>5. /\ feedback \in SUBSET Dests /\ nl \in Netlink /\ kernel \in Kernel
        /\ WantedOnce(feedback, nl.buffered, nl.answers)
        /\ \A d \in feedback : r[d].in_processing
    BY <2>2 DEF Inv, RtType, Shapes, ProcessingMeansFeedback
  <2>6. Shapes(s.rt, s.feedback, kernel, s.nl)
    BY <2>2, <2>3, <2>4, <2>5, QueueShapes
  <2> HIDE DEF s
  <2> QED
    BY <2>1, <2>6
<1>2. CASE ~(trigger /\ ~stopped)
  <2>1. UNCHANGED <<rt, feedback, nl, kernel>>
    BY <1>2 DEF TimerFires
  <2> QED
    BY <2>1
<1> QED
  BY <1>1, <1>2
(* A change of the table forgets requests only to make new ones.           *)
LEMMA SetDomainParameterShapes ==
    ASSUME FullInv, NEW t \in Tables, SetDomainParameter(t)
    PROVE  Shapes(rt, feedback, kernel, nl)'
<1> USE DEF FullInv
<1>1. CASE \A d \in Dests : ~rt[d].present
  <2>1. UNCHANGED <<rt, feedback, nl>> /\ kernel' = kernel
    BY <1>1 DEF SetDomainParameter
  <2> QED
    BY <2>1
<1>2. CASE ~(\A d \in Dests : ~rt[d].present)
  <2> DEFINE D == {d \in Dests : rt[d].present /\ rt[d].set}
             I == {d \in D : rt[d].in_processing /\ d \in feedback}
             r == [d \in Dests |->
                     IF d \in D
                     THEN [rt[d] EXCEPT !.set = FALSE,
                                        !.in_processing = @ /\ d \notin I]
                     ELSE rt[d]]
             m == Interrupt(nl, I)
             g == feedback \ I
             s == ProcessKernelQueue(r, m, g, D)
  <2>1. /\ rt' = s.rt /\ feedback' = s.feedback /\ nl' = s.nl /\ kernel' = kernel
        /\ ~stopped
    BY <1>2 DEF SetDomainParameter, Commit
  <2>2. ASSUME NEW d \in Dests
        PROVE  /\ r[d] \in Entry /\ EntryFine(r[d])
               /\ r[d].in_processing <=> rt[d].in_processing /\ d \notin I
               /\ r[d].present = rt[d].present
    <3> DEFINE b == rt[d].in_processing /\ d \notin I
    <3>1. CASE d \in D
      <4>1. b \in BOOLEAN
        OBVIOUS
      <4>2. r[d] = [rt[d] EXCEPT !.set = FALSE, !.in_processing = b]
        BY <3>1
      <4>3. rt[d] \in Entry /\ rt[d].present /\ rt[d].p \in Goal
        BY <3>1 DEF Inv, RtType, Shapes, EntryFine
      <4> HIDE DEF b, r
      <4>4. r[d] \in Entry /\ r[d].in_processing = b /\ r[d].present /\ r[d].p = rt[d].p
        BY <4>1, <4>2, <4>3 DEF Entry
      <4> QED
        BY <4>3, <4>4 DEF b, EntryFine
    <3>2. CASE d \notin D
      <4>1. r[d] = rt[d] /\ d \notin I
        BY <3>2
      <4> HIDE DEF r
      <4> QED
        BY <4>1 DEF Inv, RtType, Shapes
    <3> QED
      BY <3>1, <3>2
  <2>3. r \in [Dests -> Entry]
    BY <2>2
  <2>4. D \in SUBSET Dests /\ I \in SUBSET Dests /\ g \in SUBSET Dests
    BY DEF Inv, RtType
  <2>5. \A d \in D : r[d].present
    BY <2>2
  <2>6. \A d \in g : r[d].in_processing
    BY <2>2 DEF Inv, RtType, ProcessingMeansFeedback
  <2>7. m \in Netlink /\ WantedOnce(g, m.buffered, m.answers)
    <3>1. nl \in Netlink /\ WantedOnce(feedback, nl.buffered, nl.answers)
      BY DEF Shapes
    <3>2. /\ m \in Netlink
          /\ Forgotten(nl.buffered, m.buffered, I)
          /\ Forgotten(nl.answers, m.answers, I)
      BY <3>1, InterruptValue
    <3> HIDE DEF m, I
    <3> QED
      BY <3>1, <3>2, WantedForgotten
  <2>8. kernel \in Kernel
    BY DEF Shapes
  <2> HIDE DEF r, m, I, D, g
  <2>9. Shapes(s.rt, s.feedback, kernel, s.nl)
    BY <2>2, <2>3, <2>4, <2>5, <2>6, <2>7, <2>8, QueueShapes
  <2> HIDE DEF s
  <2> QED
    BY <2>1, <2>9
<1> QED
  BY <1>1, <1>2

(* A shutdown forgets all requests.                                        *)
LEMMA ShutdownShapes ==
    ASSUME FullInv, Shutdown
    PROVE  Shapes(rt, feedback, kernel, nl)'
<1> USE DEF FullInv
<1> DEFINE D == {d \in Dests : rt[d].present /\ rt[d].set}
           r == [d \in Dests |-> [rt[d] EXCEPT !.set = FALSE]]
           m == Interrupt(nl, Dests)
           s == ProcessKernelQueue(r, m, {}, D)
<1>1. rt' = s.rt /\ feedback' = s.feedback /\ nl' = s.nl /\ kernel' = kernel
  BY DEF Shutdown, Commit
<1>2. ASSUME NEW d \in Dests
      PROVE  r[d] \in Entry /\ EntryFine(r[d]) /\ r[d].present = rt[d].present
  <2>1. rt[d] \in Entry /\ r[d] = [rt[d] EXCEPT !.set = FALSE]
    BY DEF Inv, RtType
  <2>2. IF rt[d].present THEN rt[d].p \in Goal ELSE rt[d] = Absent
    BY DEF Shapes, EntryFine
  <2> HIDE DEF r
  <2>3. /\ r[d] \in Entry /\ r[d].present = rt[d].present /\ r[d].p = rt[d].p
        /\ r[d].old = rt[d].old /\ r[d].in_processing = rt[d].in_processing
        /\ r[d].set = FALSE
    BY <2>1 DEF Entry
  <2>4. ~rt[d].present => r[d] = rt[d]
    <3>1. Absent.set = FALSE
      BY DEF Absent
    <3> QED
      BY <2>1, <2>2, <2>3, <3>1, SameEntry
  <2> QED
    BY <2>2, <2>3, <2>4 DEF EntryFine
<1>3. r \in [Dests -> Entry]
  BY <1>2
<1>4. D \in SUBSET Dests /\ \A d \in D : r[d].present
  BY <1>2
<1>5. m \in Netlink /\ WantedOnce({}, m.buffered, m.answers)
  <2>1. nl \in Netlink /\ WantedOnce(feedback, nl.buffered, nl.answers)
    BY DEF Shapes
  <2>2. /\ m \in Netlink
        /\ Forgotten(nl.buffered, m.buffered, Dests)
        /\ Forgotten(nl.answers, m.answers, Dests)
    BY <2>1, InterruptValue
  <2>3. feedback \ Dests = {}
    BY DEF Inv, RtType
  <2> HIDE DEF m
  <2> QED
    BY <2>1, <2>2, <2>3, WantedForgotten
<1>6. kernel \in Kernel
  BY DEF Shapes
<1> HIDE DEF r, m, D
<1>7. Shapes(s.rt, s.feedback, kernel, s.nl)
  BY <1>2, <1>3, <1>4, <1>5, <1>6, QueueShapes
<1> HIDE DEF s
<1> QED
  BY <1>1, <1>7

(* The kernel handles a netlink buffer.                                    *)
LEMMA FlushShapes ==
    ASSUME FullInv, Flush
    PROVE  Shapes(rt, feedback, kernel, nl)'
<1> USE DEF FullInv
<1> DEFINE G == {x \in Kernel \X Seq(Req) \X Seq(Ans) : WantedOnce(feedback, x[2], x[3])}
<1>1. kernel \in Kernel /\ nl \in Netlink /\ WantedOnce(feedback, nl.buffered, nl.answers)
  BY DEF Shapes
<1>2. <<kernel, nl.buffered, nl.answers>> \in G
  BY <1>1 DEF Netlink
<1>3. ASSUME NEW k \in Kernel, NEW B \in Seq(Req), NEW A \in Seq(Ans),
             <<k, B, A>> \in G, B # <<>>, NEW err \in KernelVerdicts(k, B[1])
      PROVE  Handles(k, B, A, err) \in G
  <2>1. err \in Errors
    BY DEF KernelVerdicts, Errors
  <2>2. WantedOnce(feedback, B, A)
    BY <1>3
  <2> DEFINE h == Handles(k, B, A, err)
  <2>3. /\ h[1] \in Kernel /\ h[2] \in Seq(Req) /\ h[3] \in Seq(Ans)
        /\ Handled(B, h[2], A, h[3])
    BY <1>3, <2>1, HandlesValue
  <2>4. h = <<h[1], h[2], h[3]>>
    BY DEF Handles
  <2> HIDE DEF h
  <2>5. WantedOnce(feedback, h[2], h[3])
    BY <2>2, <2>3, WantedHandled
  <2>6. h \in Kernel \X Seq(Req) \X Seq(Ans)
    BY <2>3, <2>4
  <2> QED
    BY <2>5, <2>6 DEF h
<1> HIDE DEF G
<1>4. kernel' \in Kernel /\ nl' \in Netlink /\ <<kernel', nl'.buffered, nl'.answers>> \in G
  BY <1>1, <1>2, <1>3, FlushRuns
<1>5. WantedOnce(feedback, nl'.buffered, nl'.answers)
  BY <1>4 DEF G
<1>6. UNCHANGED <<rt, feedback>>
  BY DEF Flush
<1> QED
  BY <1>4, <1>5, <1>6 DEF Shapes

(* What is left of the answers when the first is read or lost.             *)
LEMMA AnswersRest ==
    ASSUME NEW n \in Netlink, n.answers # <<>>
    PROVE  /\ Rest(n.answers, Tail(n.answers))
           /\ Tail(n.answers) \in Seq(Ans)
           /\ Head(n.answers) = n.answers[1] /\ n.answers[1] \in Ans
<1> DEFINE A == n.answers
<1>1. A \in Seq(Ans) /\ A # <<>>
  BY DEF Netlink
<1> HIDE DEF A
<1>2. Len(A) \in Nat \ {0} /\ A[1] \in Ans
  BY <1>1, EmptySeq, LenProperties, ElementOfSeq
<1>3. /\ Head(A) = A[1] /\ Tail(A) \in Seq(Ans) /\ Len(Tail(A)) = Len(A) - 1
      /\ \A i \in 1 .. Len(Tail(A)) : Tail(A)[i] = A[i + 1]
  BY <1>1, HeadTailProperties
<1>4. Len(Tail(A)) \in Nat
  BY <1>3, LenProperties
<1> QED
  BY <1>2, <1>3, <1>4 DEF Rest, A

(* An answer is read, lost, or given up.                                   *)
LEMMA AnswerShapes ==
    ASSUME FullInv, ReadAnswer \/ AnswerLost \/ NetlinkTimeout
    PROVE  Shapes(rt, feedback, kernel, nl)'
<1> USE DEF FullInv
<1>1. /\ kernel \in Kernel /\ nl \in Netlink
      /\ WantedOnce(feedback, nl.buffered, nl.answers)
      /\ \A d \in Dests : EntryFine(rt[d])
  BY DEF Shapes
<1>2. /\ rt \in [Dests -> Entry] /\ feedback \subseteq Dests
      /\ \A d \in feedback : rt[d].present /\ rt[d].in_processing
  <2>1. rt \in [Dests -> Entry] /\ feedback \subseteq Dests
        /\ \A d \in feedback : rt[d].in_processing
    BY DEF Inv, RtType, ProcessingMeansFeedback
  <2>2. ~Absent.in_processing
    BY DEF Absent
  <2> QED
    BY <1>1, <2>1, <2>2 DEF EntryFine
<1>3. CASE ReadAnswer
  <2> DEFINE a == Head(nl.answers)
             E == Tail(nl.answers)
  <2>1. /\ nl.answers # <<>>
        /\ nl' = JobFinished([nl EXCEPT !.answers = E])
        /\ feedback' = IF a.wanted THEN feedback \ {a.dst} ELSE feedback
        /\ rt' = IF a.wanted THEN [rt EXCEPT ![a.dst] = RouteFinished(@, a.err)] ELSE rt
        /\ kernel' = kernel
    BY <1>3 DEF ReadAnswer
  <2>2. Rest(nl.answers, E) /\ E \in Seq(Ans) /\ a = nl.answers[1] /\ a \in Ans
    BY <1>1, <2>1, AnswersRest
  <2> HIDE DEF a, E
  <2>3. nl' \in Netlink /\ nl'.buffered = nl.buffered /\ nl'.answers = E
    <3>1. [nl EXCEPT !.answers = E] \in Netlink
      BY <1>1, <2>2 DEF Netlink
    <3>2. ASSUME NEW n \in Netlink
          PROVE  /\ JobFinished(n) \in Netlink /\ JobFinished(n).buffered = n.buffered
                 /\ JobFinished(n).answers = n.answers
      <4> DEFINE left == IF n.transit > 0 THEN n.transit - 1 ELSE 0
                 w == n.timer /\ left > 0
      <4>1. n.transit \in Nat
        BY DEF Netlink
      <4>2. left \in Nat /\ w \in BOOLEAN
        BY <4>1
      <4>3. JobFinished(n) = [n EXCEPT !.transit = left, !.timer = w]
        BY DEF JobFinished, Netlink
      <4> HIDE DEF left, w
      <4> QED
        BY <4>2, <4>3 DEF Netlink
    <3>3. [nl EXCEPT !.answers = E].buffered = nl.buffered
          /\ [nl EXCEPT !.answers = E].answers = E
      BY <1>1 DEF Netlink
    <3> QED
      BY <2>1, <3>1, <3>2, <3>3
  <2>4. WantedOnce(feedback', nl.buffered, E)
    BY <1>1, <2>1, <2>2, WantedRest
  <2>5. ASSUME NEW d \in Dests
        PROVE  EntryFine(rt'[d])
    <3>1. CASE a.wanted /\ d = a.dst
      <4>1. 1 \in 1 .. Len(nl.answers)
        BY <2>2 DEF Rest
      <4>2. d \in feedback
        BY <1>1, <2>2, <3>1, <4>1 DEF WantedOnce
      <4>3. rt'[d] = RouteFinished(rt[d], a.err)
        BY <1>2, <2>1, <3>1
      <4> QED
        BY <1>1, <1>2, <4>2, <4>3, RouteFinishedValue
    <3>2. CASE ~(a.wanted /\ d = a.dst)
      <4>1. rt'[d] = rt[d]
        BY <1>2, <2>1, <3>2
      <4> QED
        BY <1>1, <4>1
    <3> QED
      BY <3>1, <3>2
  <2> QED
    BY <1>1, <2>1, <2>3, <2>4, <2>5 DEF Shapes
<1>4. CASE AnswerLost
  <2> DEFINE E == Tail(nl.answers)
  <2>1. /\ nl.answers # <<>> /\ nl' = [nl EXCEPT !.answers = E]
        /\ UNCHANGED <<rt, feedback, kernel>>
    BY <1>4 DEF AnswerLost
  <2>2. Rest(nl.answers, E) /\ E \in Seq(Ans)
    BY <1>1, <2>1, AnswersRest
  <2> HIDE DEF E
  <2>3. nl' \in Netlink /\ nl'.buffered = nl.buffered /\ nl'.answers = E
    BY <1>1, <2>1, <2>2 DEF Netlink
  <2>4. WantedOnce(feedback, nl.buffered, E)
    BY <1>1, <2>2, WantedRest
  <2> QED
    BY <1>1, <2>1, <2>3, <2>4 DEF Shapes
<1>5. CASE NetlinkTimeout
  <2> DEFINE m == Interrupt(nl, Dests)
  <2>1. /\ nl' = [m EXCEPT !.transit = 0, !.timer = FALSE]
        /\ feedback' = {}
        /\ rt' = [d \in Dests |-> IF d \in feedback THEN RouteFinished(rt[d], "INTR")
                                  ELSE rt[d]]
        /\ kernel' = kernel
    BY <1>5 DEF NetlinkTimeout
  <2>2. /\ m \in Netlink
        /\ Forgotten(nl.buffered, m.buffered, Dests)
        /\ Forgotten(nl.answers, m.answers, Dests)
    BY <1>1, InterruptValue
  <2> HIDE DEF m
  <2>3. nl' \in Netlink /\ nl'.buffered = m.buffered /\ nl'.answers = m.answers
    BY <2>1, <2>2 DEF Netlink
  <2>4. WantedOnce({}, m.buffered, m.answers)
    BY <1>1, <1>2, <2>2, WantedForgotten
  <2>5. \A d \in Dests : EntryFine(rt'[d])
    BY <1>1, <1>2, <2>1, RouteFinishedValue
  <2> QED
    BY <1>1, <2>1, <2>3, <2>4, <2>5 DEF Shapes
<1> QED
  BY <1>3, <1>4, <1>5

(* Every step keeps the shapes.                                            *)
LEMMA NextShapes == FullInv /\ [Next]_vars => FullInv'
<1> SUFFICES ASSUME FullInv, [Next]_vars PROVE Shapes(rt, feedback, kernel, nl)'
  BY NextInv DEF FullInv
<1>1. UNCHANGED <<rt, feedback, kernel, nl>> => Shapes(rt, feedback, kernel, nl)'
  <2>1. SUFFICES ASSUME UNCHANGED <<rt, feedback, kernel, nl>>
                 PROVE  Shapes(rt', feedback', kernel', nl')
    OBVIOUS
  <2>2. Shapes(rt, feedback, kernel, nl)
    BY DEF FullInv
  <2>3. rt' = rt /\ feedback' = feedback /\ kernel' = kernel /\ nl' = nl
    BY <2>1
  <2> QED
    BY <2>2, <2>3
<1>2. ASSUME NEW w \in Topologies, TopologyChange(w)
      PROVE  UNCHANGED <<rt, feedback, kernel, nl>>
  BY <1>2 DEF TopologyChange
<1>3. CASE Calm
  BY <1>1, <1>3 DEF Calm
<1>4. CASE UNCHANGED vars
  BY <1>1, <1>4 DEF vars
<1> QED
  BY <1>1, <1>2, <1>3, <1>4, TimerFiresShapes, SetDomainParameterShapes, ShutdownShapes,
     FlushShapes, AnswerShapes
  DEF Next

(* The entries, the kernel and the feedback tree keep their shapes, and    *)
(* what is not in the tree is Absent.                                      *)
THEOREM TypeCorrect == Spec => []TypeOK
<1>1. FullInv => TypeOK
  <2> SUFFICES ASSUME FullInv PROVE TypeOK
    OBVIOUS
  <2>1. RtType /\ kernel \in Kernel /\ nl \in Netlink /\ \A d \in Dests : EntryFine(rt[d])
    BY DEF FullInv, Inv, Shapes
  <2> QED
    BY <2>1 DEF TypeOK, RtType, Entry, Kernel, Netlink, EntryFine
<1>2. QED
  BY InitShapes, NextShapes, <1>1, PTL DEF Spec
-----------------------------------------------------------------------------
(* The kernel gives its verdict on the first request.                      *)
FirstAnswered(k, B, A, err, C, E) ==
    /\ k \in Kernel /\ B \in Seq(Req) /\ A \in Seq(Ans) /\ B # <<>>
    /\ err \in KernelVerdicts(k, B[1])
    /\ Handled(B, C, A, E) /\ E[Len(E)].err = err

(* A prompt kernel without errors.  The kernel handles the first request:  *)
(* it is not rejected, since the route to remove is the one that is there, *)
(* and the kernel still follows.                                           *)
LEMMA FirstHandled ==
    ASSUME SetErrors = FALSE, NEW r, NEW f \in SUBSET Dests, NEW st \in BOOLEAN,
           \A d \in Dests : EntryFine(r[d]),
           NEW k, NEW B, NEW A, NEW err, NEW C, NEW E,
           FirstAnswered(k, B, A, err, C, E),
           UnderWay(r, f, st, B, A), Follows(r, f, st, k, B)
    PROVE  /\ UnderWay(r, f, st, C, E)
           /\ Follows(r, f, st, KernelApplies(k, B[1], err), C)
<1> USE DEF FirstAnswered
<1> DEFINE d == B[1].dst
           e == r[d]
           q == B[1]
<1>1. /\ Len(B) \in Nat \ {0} /\ 1 \in 1 .. Len(B)
      /\ \A i \in 1 .. Len(B) : B[i] \in Req
  BY EmptySeq, LenProperties, ElementOfSeq
<1>2. q \in Req /\ d \in Dests /\ q.set \in BOOLEAN /\ q.p \in Goal
  BY <1>1 DEF Req
<1>3. /\ e.present /\ e.in_processing /\ q.p = e.p /\ (~q.set => ~e.set)
      /\ q.set /\ ~e.set /\ ~st => Has(B, d, FALSE)
      /\ q.set /\ st => d \notin f
  BY <1>1 DEF UnderWay
<1>4. e.p.table \in Tables /\ e.p.gw \in Hops
  BY <1>2, <1>3 DEF Goal
<1>5. ASSUME NEW i \in 1 .. Len(C)
      PROVE  C[i] = B[i + 1] /\ i + 1 \in 1 .. Len(B) /\ 1 < i + 1
  BY DEF Handled
<1>6. ASSUME NEW i \in 1 .. Len(B), i # 1
      PROVE  i - 1 \in 1 .. Len(C) /\ C[i - 1] = B[i]
  <2>1. i - 1 \in 1 .. Len(C) /\ (i - 1) + 1 = i
    BY <1>6 DEF Handled
  <2> QED
    BY <1>5, <2>1
<1>7. ASSUME NEW i \in 1 .. Len(C), C[i].dst = d
      PROVE  q.set /\ ~q.wanted /\ ~C[i].set
  <2>1. C[i] = B[i + 1] /\ i + 1 \in 1 .. Len(B) /\ 1 < i + 1
    BY <1>5
  <2> QED
    BY <1>1, <1>7, <2>1 DEF UnderWay
<1>8. ASSUME NEW x \in Dests, NEW b \in BOOLEAN
      PROVE  /\ Has(C, x, b) => Has(B, x, b)
             /\ Has(B, x, b) => Has(C, x, b) \/ (x = d /\ q.set = b)
  <2>1. ASSUME NEW i \in 1 .. Len(B), B[i].dst = x, B[i].set = b, ~(x = d /\ q.set = b)
        PROVE  \E j \in 1 .. Len(C) : C[j].dst = x /\ C[j].set = b
    <3>1. i # 1
      BY <2>1
    <3>2. i - 1 \in 1 .. Len(C) /\ C[i - 1] = B[i]
      BY <1>6, <3>1
    <3> QED
      BY <2>1, <3>2
  <2> QED
    BY <1>5, <2>1 DEF Has
<1>9. ~q.set => ~Has(C, d, TRUE) /\ ~Has(C, d, FALSE) /\ ~Has(B, d, TRUE) /\ Has(B, d, FALSE)
  <2>1. ASSUME ~q.set PROVE ~Has(C, d, TRUE) /\ ~Has(C, d, FALSE)
    BY <1>7, <2>1 DEF Has
  <2>2. ASSUME ~q.set PROVE Has(B, d, FALSE)
    BY <1>1, <1>2, <2>2 DEF Has
  <2>3. ASSUME ~q.set PROVE ~Has(B, d, TRUE)
    <3>1. Has(B, d, TRUE) => Has(C, d, TRUE) \/ q.set = TRUE
      BY <1>2, <1>8
    <3> QED
      BY <2>1, <2>3, <3>1
  <2> QED
    BY <2>1, <2>2, <2>3
<1>10. err = "OK"
  <2>1. CASE q.set
    BY <2>1 DEF KernelVerdicts
  <2>2. CASE ~q.set
    <3>1. k[e.p.table][d] = e.p.gw
      BY <1>2, <1>3, <1>9, <2>2 DEF Follows
    <3> QED
      BY <1>3, <2>2, <3>1 DEF KernelVerdicts
  <2> QED
    BY <2>1, <2>2
<1> DEFINE v == IF q.set THEN e.p.gw ELSE NoRoute
           k2 == KernelApplies(k, q, err)
<1>11. /\ k2[e.p.table][d] = v
       /\ \A t \in Tables : \A x \in Dests : t # e.p.table \/ x # d => k2[t][x] = k[t][x]
  <2>1. k2 = [k EXCEPT ![e.p.table][d] = v]
    BY <1>3, <1>10 DEF KernelApplies
  <2> HIDE DEF k2, v, e, d
  <2> QED
    BY <1>2, <1>4, <2>1 DEF Kernel
<1> HIDE DEF k2
<1>12. Follows(r, f, st, k2, C)
  <2>1. ASSUME NEW x \in Dests, x # d
        PROVE  /\ \A t \in Tables : k2[t][x] # NoRoute => r[x].present /\ t = r[x].p.table
               /\ r[x].present /\ ~Has(C, x, TRUE) /\ (r[x].set \/ Has(C, x, FALSE))
                    => k2[r[x].p.table][x] = r[x].p.gw
               /\ ~r[x].set /\ ~Has(C, x, FALSE) =>
                    \A t \in Tables :
                      k2[t][x] # NoRoute => st /\ r[x].in_processing /\ x \notin f
    <3>1. \A t \in Tables : k2[t][x] = k[t][x]
      BY <1>11, <2>1
    <3>2. (Has(C, x, TRUE) <=> Has(B, x, TRUE)) /\ (Has(C, x, FALSE) <=> Has(B, x, FALSE))
      BY <1>8, <2>1
    <3>3. r[x].present => r[x].p.table \in Tables
      BY DEF EntryFine, Goal
    <3> QED
      BY <3>1, <3>2, <3>3 DEF Follows
  <2>2. \A t \in Tables : k2[t][d] # NoRoute => t = e.p.table
    <3>1. ASSUME NEW t \in Tables, t # e.p.table, k2[t][d] # NoRoute
          PROVE  FALSE
      <4>1. k[t][d] # NoRoute
        BY <1>2, <1>11, <3>1
      <4> QED
        BY <1>2, <3>1, <4>1 DEF Follows
    <3> QED
      BY <3>1
  <2>3. ~Has(C, d, TRUE) /\ (e.set \/ Has(C, d, FALSE)) => k2[e.p.table][d] = e.p.gw
    BY <1>3, <1>9, <1>11
  <2>4. ASSUME ~e.set, ~Has(C, d, FALSE), NEW t \in Tables, k2[t][d] # NoRoute
        PROVE  st /\ e.in_processing /\ d \notin f
    <3>1. q.set
      BY <1>11, <2>2, <2>4
    <3>2. ~Has(B, d, FALSE)
      <4>1. Has(B, d, FALSE) => Has(C, d, FALSE) \/ q.set = FALSE
        BY <1>2, <1>8
      <4> QED
        BY <2>4, <3>1, <4>1
    <3> QED
      BY <1>3, <2>4, <3>1, <3>2
  <2> HIDE DEF d
  <2>5. ASSUME NEW x \in Dests, x = d
        PROVE  /\ \A t \in Tables : k2[t][x] # NoRoute => r[x].present /\ t = r[x].p.table
               /\ r[x].present /\ ~Has(C, x, TRUE) /\ (r[x].set \/ Has(C, x, FALSE))
                    => k2[r[x].p.table][x] = r[x].p.gw
               /\ ~r[x].set /\ ~Has(C, x, FALSE) =>
                    \A t \in Tables :
                      k2[t][x] # NoRoute => st /\ r[x].in_processing /\ x \notin f
    BY <1>3, <2>2, <2>3, <2>4, <2>5
  <2> QED
    BY <2>1, <2>5 DEF Follows
<1>13. ASSUME NEW i \in 1 .. Len(C)
       PROVE  LET x == r[C[i].dst]
              IN  /\ x.present /\ x.in_processing /\ C[i].p = x.p
                  /\ ~C[i].set => ~x.set
                  /\ C[i].set /\ ~x.set /\ ~st => Has(C, C[i].dst, FALSE)
                  /\ C[i].set /\ st => C[i].dst \notin f
  <2>1. C[i] = B[i + 1] /\ i + 1 \in 1 .. Len(B) /\ 1 < i + 1
    BY <1>5
  <2>2. LET x == r[C[i].dst]
        IN  /\ x.present /\ x.in_processing /\ C[i].p = x.p
            /\ ~C[i].set => ~x.set
            /\ C[i].set /\ ~x.set /\ ~st => Has(B, C[i].dst, FALSE)
            /\ C[i].set /\ st => C[i].dst \notin f
    <3>1. LET b == B[i + 1]
              x == r[b.dst]
          IN  /\ x.present /\ x.in_processing /\ b.p = x.p
              /\ ~b.set => ~x.set
              /\ b.set /\ ~x.set /\ ~st => Has(B, b.dst, FALSE)
              /\ b.set /\ st => b.dst \notin f
      BY <2>1 DEF UnderWay
    <3> QED
      BY <2>1, <3>1
  <2>3. C[i].dst \in Dests
    BY <1>1, <2>1 DEF Req
  <2>4. Has(B, C[i].dst, FALSE) => Has(C, C[i].dst, FALSE)
    <3>1. Has(B, C[i].dst, FALSE) => Has(C, C[i].dst, FALSE) \/ (C[i].dst = d /\ q.set = FALSE)
      BY <1>8, <2>3
    <3> QED
      BY <1>7, <3>1
  <2> QED
    BY <2>2, <2>4
<1>14. ASSUME NEW i \in 1 .. Len(C), NEW j \in 1 .. Len(C), i < j, C[i].dst = C[j].dst
       PROVE  C[i].set /\ ~C[i].wanted /\ ~C[j].set
  <2>1. i + 1 < j + 1
    BY <1>14 DEF Handled
  <2>2. /\ C[i] = B[i + 1] /\ i + 1 \in 1 .. Len(B)
        /\ C[j] = B[j + 1] /\ j + 1 \in 1 .. Len(B)
    BY <1>5
  <2>3. B[i + 1].set /\ ~B[i + 1].wanted /\ ~B[j + 1].set
    BY <1>14, <2>1, <2>2 DEF UnderWay
  <2> QED
    BY <2>2, <2>3
<1>15. ASSUME NEW i \in 1 .. Len(E)
       PROVE  /\ E[i].err = "OK"
              /\ E[i].wanted => \A j \in 1 .. Len(C) : C[j].dst # E[i].dst
  <2>1. \/ i \in 1 .. Len(A) /\ E[i] = A[i]
        \/ i = Len(E) /\ E[i].dst = d /\ E[i].wanted = q.wanted
    BY DEF Handled
  <2>2. CASE i \in 1 .. Len(A) /\ E[i] = A[i]
    BY <1>5, <2>2 DEF UnderWay
  <2>3. CASE i = Len(E) /\ E[i].dst = d /\ E[i].wanted = q.wanted
    BY <1>7, <1>10, <2>3
  <2> QED
    BY <2>1, <2>2, <2>3
<1>16. ASSUME NEW x \in f
       PROVE  \/ \E i \in 1 .. Len(C) : C[i].wanted /\ C[i].dst = x
              \/ \E i \in 1 .. Len(E) : E[i].wanted /\ E[i].dst = x
  <2>1. CASE \E i \in 1 .. Len(B) : B[i].wanted /\ B[i].dst = x
    <3>1. PICK i \in 1 .. Len(B) : B[i].wanted /\ B[i].dst = x
      BY <2>1
    <3>2. CASE i = 1
      <4>1. Len(E) \in 1 .. Len(E) /\ E[Len(E)].dst = d /\ E[Len(E)].wanted = q.wanted
        BY DEF Handled
      <4> QED
        BY <3>1, <3>2, <4>1
    <3>3. CASE i # 1
      BY <1>6, <3>1, <3>3
    <3> QED
      BY <3>2, <3>3
  <2>2. CASE \E i \in 1 .. Len(A) : A[i].wanted /\ A[i].dst = x
    <3>1. PICK i \in 1 .. Len(A) : A[i].wanted /\ A[i].dst = x
      BY <2>2
    <3>2. i \in 1 .. Len(E) /\ E[i] = A[i]
      BY DEF Handled
    <3> QED
      BY <3>1, <3>2
  <2> QED
    BY <2>1, <2>2 DEF UnderWay
<1>17. UnderWay(r, f, st, C, E)
  BY <1>13, <1>14, <1>15, <1>16 DEF UnderWay
<1> QED
  BY <1>12, <1>17 DEF k2

(* Which requests there are after _process_kernel_queue.                   *)
LEMMA HasEnqueued ==
    ASSUME NEW B, NEW C, NEW r, NEW todo, Enqueued(B, C, r, todo), NEW d, NEW b \in BOOLEAN,
           \A x \in todo : r[x].set \in BOOLEAN
    PROVE  Has(C, d, b) <=> Has(B, d, b) \/ (d \in todo /\ r[d].set = b)
<1>1. ASSUME NEW i \in 1 .. Len(C), C[i].dst = d, C[i].set = b
      PROVE  Has(B, d, b) \/ (d \in todo /\ r[d].set = b)
  <2>1. i \in 1 .. Len(B) \/ i \in Len(B) + 1 .. Len(C)
    BY DEF Enqueued
  <2> QED
    BY <1>1, <2>1 DEF Enqueued, Has
<1>2. ASSUME NEW i \in 1 .. Len(B), B[i].dst = d, B[i].set = b
      PROVE  Has(C, d, b)
  <2>1. i \in 1 .. Len(C) /\ C[i] = B[i]
    BY DEF Enqueued
  <2> QED
    BY <1>2, <2>1 DEF Has
<1>3. ASSUME d \in todo, r[d].set = b
      PROVE  Has(C, d, b)
  <2>1. PICK i \in Len(B) + 1 .. Len(C) : C[i].dst = d
    BY <1>3 DEF Enqueued
  <2>2. i \in 1 .. Len(C) /\ C[i].set = b
    BY <1>3, <2>1 DEF Enqueued
  <2> QED
    BY <2>1, <2>2 DEF Has
<1> QED
  BY <1>1, <1>2, <1>3 DEF Has
(* The requests B and the answers A before there are requests for the      *)
(* entries todo of r: the requests are of entries in processing or to be   *)
(* put there, and a request for one of todo is to be followed by a removal.*)
Before(r, f, st, B, A, todo) ==
    /\ \A d \in todo : r[d].present /\ (st => ~r[d].set)
    /\ \A i \in 1 .. Len(B) :
         LET e == r[B[i].dst]
         IN  /\ e.present /\ (e.in_processing \/ B[i].dst \in todo) /\ B[i].p = e.p
             /\ ~B[i].set => ~e.set
             /\ B[i].set /\ ~e.set /\ ~st => Has(B, B[i].dst, FALSE) \/ B[i].dst \in todo
             /\ B[i].set /\ st => B[i].dst \notin f \cup todo
             /\ B[i].dst \in todo => B[i].set /\ ~B[i].wanted /\ ~e.set
    /\ \A i, j \in 1 .. Len(B) :
         i < j /\ B[i].dst = B[j].dst => B[i].set /\ ~B[i].wanted /\ ~B[j].set
    /\ \A i \in 1 .. Len(A) :
         /\ A[i].err = "OK"
         /\ A[i].wanted => /\ A[i].dst \notin todo
                           /\ \A j \in 1 .. Len(B) : B[j].dst # A[i].dst
    /\ \A d \in f : \/ \E i \in 1 .. Len(B) : B[i].wanted /\ B[i].dst = d
                    \/ \E i \in 1 .. Len(A) : A[i].wanted /\ A[i].dst = d

(* The entries r with those of todo in processing.                         *)
Queued(r, s, todo) ==
    \A d \in Dests : /\ s[d].present = r[d].present /\ s[d].set = r[d].set
                     /\ s[d].p = r[d].p
                     /\ s[d].in_processing <=> r[d].in_processing \/ d \in todo

(* Then what is under way is right with the new requests.                  *)
LEMMA UnderWayEnqueued ==
    ASSUME NEW r \in [Dests -> Entry], NEW s, NEW f, NEW st,
           NEW B \in Seq(Req), NEW C, NEW A, NEW todo \in SUBSET Dests,
           Enqueued(B, C, r, todo), Queued(r, s, todo), Before(r, f, st, B, A, todo)
    PROVE  UnderWay(s, f \cup todo, st, C, A)
<1>1. /\ Len(B) \in Nat /\ Len(C) \in Nat /\ Len(B) <= Len(C)
      /\ \A i \in 1 .. Len(B) : C[i] = B[i] /\ i \in 1 .. Len(C)
      /\ \A i \in 1 .. Len(B) : B[i].dst \in Dests
  <2>1. \A i \in 1 .. Len(B) : B[i].dst \in Dests
    <3>1. \A i \in 1 .. Len(B) : B[i] \in Req
      BY ElementOfSeq
    <3> QED
      BY <3>1 DEF Req
  <2> QED
    BY <2>1 DEF Enqueued
<1>2. ASSUME NEW i \in 1 .. Len(C), i \notin 1 .. Len(B)
      PROVE  /\ i \in Len(B) + 1 .. Len(C) /\ C[i].dst \in todo /\ C[i].wanted
             /\ C[i].set = r[C[i].dst].set /\ C[i].p = r[C[i].dst].p
  <2>1. i \in Len(B) + 1 .. Len(C)
    BY <1>1, <1>2
  <2> QED
    BY <2>1 DEF Enqueued
<1>3. \A x \in todo : r[x].set \in BOOLEAN
  BY DEF Entry
<1>4. ASSUME NEW i \in 1 .. Len(C)
      PROVE  LET e == s[C[i].dst]
             IN  /\ e.present /\ e.in_processing /\ C[i].p = e.p
                 /\ ~C[i].set => ~e.set
                 /\ C[i].set /\ ~e.set /\ ~st => Has(C, C[i].dst, FALSE)
                 /\ C[i].set /\ st => C[i].dst \notin f \cup todo
  <2>1. CASE i \in 1 .. Len(B)
    <3>1. C[i] = B[i] /\ B[i].dst \in Dests
      BY <1>1, <2>1
    <3>2. ASSUME C[i].set, ~s[C[i].dst].set, ~st
          PROVE  Has(C, C[i].dst, FALSE)
      <4>1. ~r[B[i].dst].set /\ B[i].set
        BY <3>1, <3>2 DEF Queued
      <4>2. r[B[i].dst].set = FALSE
        BY <3>1, <4>1 DEF Entry
      <4>4. Has(B, B[i].dst, FALSE) \/ B[i].dst \in todo
        BY <2>1, <3>2, <4>1 DEF Before
      <4>3. Has(C, B[i].dst, FALSE)
        <5>1. \A d : \A b \in BOOLEAN :
                Has(C, d, b) <=> Has(B, d, b) \/ (d \in todo /\ r[d].set = b)
          BY <1>3, HasEnqueued
        <5>2. Has(B, B[i].dst, FALSE) \/ (B[i].dst \in todo /\ r[B[i].dst].set = FALSE)
                => Has(C, B[i].dst, FALSE)
          BY <5>1
        <5> QED
          BY <4>2, <4>4, <5>2
      <4> QED
        BY <3>1, <4>3
    <3>3. LET e == s[C[i].dst]
          IN  /\ e.present /\ e.in_processing /\ C[i].p = e.p
              /\ ~C[i].set => ~e.set
              /\ C[i].set /\ st => C[i].dst \notin f \cup todo
      <4>1. LET e == r[B[i].dst]
            IN  /\ e.present /\ (e.in_processing \/ B[i].dst \in todo) /\ B[i].p = e.p
                /\ ~B[i].set => ~e.set
                /\ B[i].set /\ st => B[i].dst \notin f \cup todo
        BY <2>1 DEF Before
      <4>2. LET e == s[B[i].dst]
                g == r[B[i].dst]
            IN  /\ e.present = g.present /\ e.set = g.set /\ e.p = g.p
                /\ e.in_processing <=> g.in_processing \/ B[i].dst \in todo
        BY <3>1 DEF Queued
      <4> QED
        BY <3>1, <4>1, <4>2
    <3> QED
      BY <3>2, <3>3
  <2>2. CASE i \notin 1 .. Len(B)
    <3>1. /\ C[i].dst \in todo /\ C[i].dst \in Dests
          /\ C[i].set = r[C[i].dst].set /\ C[i].p = r[C[i].dst].p
      BY <1>2, <2>2
    <3>2. /\ s[C[i].dst].present /\ s[C[i].dst].in_processing
          /\ C[i].p = s[C[i].dst].p /\ C[i].set = s[C[i].dst].set
      BY <3>1 DEF Before, Queued
    <3>3. st => ~C[i].set
      BY <3>1 DEF Before
    <3> QED
      BY <3>1, <3>2, <3>3
  <2> QED
    BY <2>1, <2>2
<1>5. ASSUME NEW i \in 1 .. Len(C), NEW j \in 1 .. Len(C), i < j, C[i].dst = C[j].dst
      PROVE  C[i].set /\ ~C[i].wanted /\ ~C[j].set
  <2>1. CASE j \in 1 .. Len(B)
    <3>1. i \in 1 .. Len(B)
      BY <1>1, <1>5, <2>1
    <3>2. C[i] = B[i] /\ C[j] = B[j]
      BY <1>1, <2>1, <3>1
    <3> QED
      BY <1>5, <2>1, <3>1, <3>2 DEF Before
  <2>2. CASE i \in 1 .. Len(B) /\ j \notin 1 .. Len(B)
    <3>1. C[i] = B[i] /\ C[j].dst \in todo /\ C[j].set = r[C[j].dst].set
      BY <1>1, <1>2, <2>2
    <3> QED
      <4>1. B[i].dst \in todo /\ C[i].dst = B[i].dst
        BY <1>5, <3>1
      <4>2. B[i].set /\ ~B[i].wanted /\ ~r[B[i].dst].set
        BY <2>2, <4>1 DEF Before
      <4>3. ~C[j].set
        BY <1>5, <3>1, <4>1, <4>2
      <4> QED
        BY <3>1, <4>2, <4>3
  <2>3. CASE i \notin 1 .. Len(B) /\ j \notin 1 .. Len(B)
    <3>1. i \in Len(B) + 1 .. Len(C) /\ j \in Len(B) + 1 .. Len(C) /\ i # j
      BY <1>1, <1>2, <1>5, <2>3
    <3> QED
      BY <1>5, <3>1 DEF Enqueued
  <2> QED
    BY <2>1, <2>2, <2>3
<1>6. ASSUME NEW i \in 1 .. Len(A)
      PROVE  /\ A[i].err = "OK"
             /\ A[i].wanted => \A j \in 1 .. Len(C) : C[j].dst # A[i].dst
  BY <1>1, <1>2 DEF Before
<1>7. ASSUME NEW d \in f \cup todo
      PROVE  \/ \E i \in 1 .. Len(C) : C[i].wanted /\ C[i].dst = d
             \/ \E i \in 1 .. Len(A) : A[i].wanted /\ A[i].dst = d
  <2>1. CASE d \in todo
    <3>1. PICK i \in Len(B) + 1 .. Len(C) : C[i].dst = d
      BY <2>1 DEF Enqueued
    <3>2. C[i].wanted /\ i \in 1 .. Len(C)
      BY <1>1, <3>1 DEF Enqueued
    <3> QED
      BY <3>1, <3>2
  <2>2. CASE d \in f
    BY <1>1, <2>2 DEF Before
  <2> QED
    BY <2>1, <2>2
<1> QED
  BY <1>4, <1>5, <1>6, <1>7 DEF UnderWay

(* The requests C are B and those for todo.                                *)
Adds(B, C, r, todo) ==
    \A d \in Dests : \A b \in BOOLEAN :
      Has(C, d, b) <=> Has(B, d, b) \/ (d \in todo /\ r[d].set = b)

(* The kernel queue holds the entries D of the tree, of which todo are not *)
(* in processing.                                                          *)
Ready(r, n, f, D, st, todo) ==
    /\ r \in [Dests -> Entry] /\ n \in Netlink /\ f \in SUBSET Dests /\ D \in SUBSET Dests
    /\ \A d \in D : r[d].present /\ EntryFine(r[d])
    /\ todo \in SUBSET Dests
    /\ \A d \in Dests : d \in todo <=> d \in D /\ ~r[d].in_processing
    /\ Before(r, f, st, n.buffered, n.answers, todo)

(* All that _process_kernel_queue does for them.                           *)
LEMMA QueueSends ==
    ASSUME NEW r, NEW n, NEW f, NEW D, NEW st, NEW todo, NEW s,
           Ready(r, n, f, D, st, todo), s = ProcessKernelQueue(r, n, f, D)
    PROVE  /\ s.feedback = f \cup todo
           /\ Queued(r, s.rt, todo)
           /\ UnderWay(s.rt, s.feedback, st, s.nl.buffered, s.nl.answers)
           /\ Adds(n.buffered, s.nl.buffered, r, todo)
<1> USE DEF Ready
<1>1. \A d \in D : r[d].p \in Goal
  BY DEF EntryFine
<1>2. /\ s.feedback = f \cup todo
      /\ s.nl.answers = n.answers
      /\ Enqueued(n.buffered, s.nl.buffered, r, todo)
      /\ \A d \in Dests :
           /\ s.rt[d].present = r[d].present
           /\ s.rt[d].set = r[d].set
           /\ s.rt[d].p = r[d].p
           /\ s.rt[d].in_processing <=> r[d].in_processing \/ d \in todo
  <2> DEFINE x == ProcessKernelQueue(r, n, f, D)
             y == {d \in D : ~r[d].in_processing}
  <2>1. /\ x.feedback = f \cup y
        /\ x.nl \in Netlink
        /\ x.nl.answers = n.answers
        /\ Enqueued(n.buffered, x.nl.buffered, r, y)
        /\ \A d \in Dests :
             /\ x.rt[d].present = r[d].present
             /\ x.rt[d].set = r[d].set
             /\ x.rt[d].p = r[d].p
             /\ x.rt[d].old = r[d].old
             /\ x.rt[d].in_processing <=> r[d].in_processing \/ d \in y
    BY <1>1, ProcessKernelQueueValue
  <2>2. s = x /\ todo = y
    OBVIOUS
  <2> HIDE DEF x, y
  <2> QED
    BY <2>1, <2>2
<1>3. Queued(r, s.rt, todo)
  BY <1>2 DEF Queued
<1>4. todo \in SUBSET Dests /\ \A x \in todo : r[x].set \in BOOLEAN
  BY DEF Entry
<1>5. n.buffered \in Seq(Req)
  BY DEF Netlink
<1>6. UnderWay(s.rt, s.feedback, st, s.nl.buffered, s.nl.answers)
  <2>1. UnderWay(s.rt, f \cup todo, st, s.nl.buffered, n.answers)
    BY <1>2, <1>3, <1>4, <1>5, UnderWayEnqueued
  <2> QED
    BY <1>2, <2>1
<1>7. Adds(n.buffered, s.nl.buffered, r, todo)
  BY <1>2, <1>4, HasEnqueued DEF Adds
<1> QED
  BY <1>2, <1>3, <1>6, <1>7

(* The inductive invariant of a prompt kernel without errors.              *)
PromptInv ==
    /\ FullInv
    /\ UnderWay(rt, feedback, stopped, nl.buffered, nl.answers)
    /\ Follows(rt, feedback, stopped, kernel, nl.buffered)
    /\ Asked(rt, stopped, table)
    /\ Computed(rt, stopped, trigger, want)

(* Of the first state.                                                     *)
LEMMA InitPrompt == Init => PromptInv
<1> SUFFICES ASSUME Init PROVE PromptInv
  OBVIOUS
<1>1. FullInv
  BY InitShapes
<1>2. /\ nl.buffered = <<>> /\ nl.answers = <<>> /\ feedback = {} /\ Len(<<>>) = 0
      /\ \A d \in Dests : ~rt[d].present /\ ~rt[d].set /\ want[d] = NoRoute
      /\ \A d \in Dests : \A t \in Tables : kernel[t][d] = NoRoute
      /\ stopped = FALSE
  BY DEF Init, Absent
<1>3. UnderWay(rt, feedback, stopped, nl.buffered, nl.answers)
  BY <1>2 DEF UnderWay
<1>4. Follows(rt, feedback, stopped, kernel, nl.buffered)
  BY <1>2 DEF Follows
<1>5. Asked(rt, stopped, table) /\ Computed(rt, stopped, trigger, want)
  BY <1>2 DEF Asked, Computed
<1> QED
  BY <1>1, <1>3, <1>4, <1>5 DEF PromptInv

(* A Dijkstra starts when nothing is under way: then the kernel has what   *)
(* the entries say, and every change gets its request.                     *)
LEMMA TimerFiresPrompt ==
    ASSUME Prompt = TRUE, PromptInv, TimerFires
    PROVE  /\ UnderWay(rt, feedback, stopped, nl.buffered, nl.answers)'
           /\ Follows(rt, feedback, stopped, kernel, nl.buffered)'
           /\ Asked(rt, stopped, table)'
           /\ Computed(rt, stopped, trigger, want)'
<1> USE DEF PromptInv, FullInv
<1>1. CASE trigger /\ ~stopped
  <2> DEFINE r == InitializeParameters(DijkstraResult(PrepareRoutes(rt)))
             D == Modified(r)
             todo == {d \in D : ~r[d].in_processing}
             s == ProcessKernelQueue(r, nl, feedback, D)
             B == nl.buffered
             A == nl.answers
  <2>1. /\ rt' = s.rt /\ feedback' = s.feedback /\ nl' = s.nl /\ kernel' = kernel
        /\ stopped' = stopped /\ ~stopped /\ table' = table /\ want' = want
        /\ trigger' = FALSE
    BY <1>1 DEF TimerFires, Commit
  <2>2. /\ nl \in Netlink /\ kernel \in Kernel /\ \A d \in Dests : EntryFine(rt[d])
        /\ RtType
    BY DEF Shapes, Inv
  <2>3. B \in Seq(Req) /\ A \in Seq(Ans) /\ Len(B) = 0 /\ Len(A) = 0
    <3>1. B \in Seq(Req) /\ A \in Seq(Ans) /\ Len(B) \in Nat /\ Len(A) \in Nat
      BY <2>2, LenProperties DEF Netlink
    <3>2. Len(B) + Len(A) = 0
      BY DEF TimerFires, Pending
    <3>3. ASSUME NEW x \in Nat, NEW y \in Nat, x + y = 0
          PROVE  x = 0 /\ y = 0
      BY <3>3
    <3> HIDE DEF A, B
    <3> QED
      BY <3>1, <3>2, <3>3
  <2>4. feedback = {}
    BY <2>3 DEF UnderWay
  <2>5. \A d \in Dests : ~rt[d].in_processing
    BY <2>1, <2>4 DEF Inv, ProcessingMeansFeedback
  <2>6. ASSUME NEW d \in Dests, rt[d].present
        PROVE  rt[d].set /\ rt[d].p.table = table /\ kernel[table][d] = rt[d].p.gw
    <3>1. rt[d].set /\ rt[d].p.table = table
      BY <2>1, <2>5, <2>6 DEF Asked
    <3>2. ~Has(B, d, TRUE)
      BY <2>3 DEF Has
    <3> QED
      BY <2>6, <3>1, <3>2 DEF Follows
  <2>7. ASSUME NEW d \in Dests, NEW t \in Tables, kernel[t][d] # NoRoute
        PROVE  rt[d].present /\ t = table
    <3>1. rt[d].present /\ t = rt[d].p.table
      BY <2>7 DEF Follows
    <3> QED
      BY <2>6, <3>1
  <2>8. r \in [Dests -> Entry]
    BY DijkstraKeeps DEF Inv
  <2>9. \A d \in Dests :
          /\ EntryFine(r[d])
          /\ r[d].in_processing = rt[d].in_processing
          /\ r[d].old = rt[d].p
          /\ r[d].present => r[d].p.table = table
          /\ r[d].set <=> want[d] # NoRoute
          /\ r[d].present <=> rt[d].present \/ want[d] # NoRoute
          /\ r[d].present => r[d].p.gw = IF want[d] # NoRoute THEN want[d] ELSE rt[d].p.gw
    BY <2>2, DijkstraValue
  <2>10. \A d \in Dests : d \in D <=> r[d].present /\ ~(r[d].set /\ r[d].old = r[d].p)
    BY DEF Modified
  <2>11. D \in SUBSET Dests
    BY DEF Modified
  <2> HIDE DEF r, D
  <2>12. todo = D
    BY <2>5, <2>9, <2>11
  <2>13. \A d \in D : r[d].p \in Goal /\ r[d].present
    BY <2>9, <2>10, <2>11 DEF EntryFine
  <2> HIDE DEF s
  <2>14. Before(r, feedback, stopped, B, A, todo)
    <3>1. 1 .. Len(B) = {} /\ 1 .. Len(A) = {}
      BY <2>3
    <3>2. \A d \in todo : r[d].present
      BY <2>12, <2>13
    <3> HIDE DEF todo, A, B
    <3> QED
      BY <2>1, <2>4, <3>1, <3>2 DEF Before
  <2>15. /\ s.feedback = feedback \cup todo
         /\ Queued(r, s.rt, todo)
         /\ UnderWay(s.rt, s.feedback, stopped, s.nl.buffered, s.nl.answers)
         /\ Adds(nl.buffered, s.nl.buffered, r, todo)
    <3>1. feedback \in SUBSET Dests /\ \A d \in D : r[d].present /\ EntryFine(r[d])
      BY <2>4, <2>9, <2>11, <2>13
    <3>2. /\ todo \in SUBSET Dests
          /\ \A d \in Dests : d \in todo <=> d \in D /\ ~r[d].in_processing
      BY <2>11
    <3>3. s = ProcessKernelQueue(r, nl, feedback, D)
      BY DEF s
    <3>4. Before(r, feedback, stopped, nl.buffered, nl.answers, todo)
      BY <2>14
    <3>5. nl \in Netlink
      BY <2>2
    <3> HIDE DEF todo, A, B
    <3>6. Ready(r, nl, feedback, D, stopped, todo)
      BY <2>8, <2>11, <3>1, <3>2, <3>4, <3>5 DEF Ready
    <3> QED
      BY <3>3, <3>6, QueueSends
  <2> HIDE DEF todo, A, B
  <2>16. \A d \in Dests : \A b \in BOOLEAN :
           Has(s.nl.buffered, d, b) <=> d \in D /\ r[d].set = b
    <3>1. \A d \in Dests : \A b \in BOOLEAN : ~Has(B, d, b)
      BY <2>3 DEF Has
    <3> QED
      BY <2>12, <2>15, <3>1 DEF Adds, B
  <2>17. ASSUME NEW d \in Dests, r[d].present, ~Has(s.nl.buffered, d, TRUE),
                r[d].set \/ Has(s.nl.buffered, d, FALSE)
         PROVE  kernel[table][d] = r[d].p.gw
    <3>1. CASE r[d].set
      <4>1. d \notin D
        BY <2>8, <2>16, <2>17, <3>1 DEF Entry
      <4>2. r[d].p = rt[d].p
        BY <2>9, <2>10, <2>17, <4>1
      <4>3. rt[d].present
        <5>1. r[d].p.gw # NoRoute
          BY <2>9, <2>17, <3>1
        <5>2. Absent.p.gw = NoRoute
          BY DEF Absent, NoParam
        <5> QED
          BY <2>2, <4>2, <5>1, <5>2 DEF EntryFine
      <4> QED
        BY <2>6, <4>2, <4>3
    <3>2. CASE ~r[d].set
      <4>1. rt[d].present /\ r[d].p.gw = rt[d].p.gw
        BY <2>9, <2>17, <3>2
      <4> QED
        BY <2>6, <4>1
    <3> QED
      BY <3>1, <3>2
  <2>18. ASSUME NEW d \in Dests, ~r[d].set, ~Has(s.nl.buffered, d, FALSE), NEW t \in Tables
         PROVE  kernel[t][d] = NoRoute
    <3>1. d \notin D
      BY <2>8, <2>16, <2>18 DEF Entry
    <3>2. ~rt[d].present
      BY <2>9, <2>10, <2>18, <3>1
    <3> QED
      BY <2>7, <3>2
  <2>19. Follows(s.rt, s.feedback, stopped, kernel, s.nl.buffered)
    <3> SUFFICES ASSUME NEW d \in Dests
                 PROVE  /\ \A t \in Tables :
                             kernel[t][d] # NoRoute => s.rt[d].present /\ t = s.rt[d].p.table
                        /\ s.rt[d].present /\ ~Has(s.nl.buffered, d, TRUE)
                              /\ (s.rt[d].set \/ Has(s.nl.buffered, d, FALSE))
                             => kernel[s.rt[d].p.table][d] = s.rt[d].p.gw
                        /\ ~s.rt[d].set /\ ~Has(s.nl.buffered, d, FALSE) =>
                             \A t \in Tables : kernel[t][d] = NoRoute
      BY DEF Follows
    <3>1. s.rt[d].present = r[d].present /\ s.rt[d].set = r[d].set /\ s.rt[d].p = r[d].p
      BY <2>15 DEF Queued
    <3>2. \A t \in Tables : kernel[t][d] # NoRoute => r[d].present /\ t = r[d].p.table
      BY <2>7, <2>9
    <3>3. r[d].present => r[d].p.table = table
      BY <2>9
    <3> QED
      BY <2>17, <2>18, <3>1, <3>2, <3>3
  <2>20. Asked(s.rt, stopped, table)
    BY <2>1, <2>9, <2>10, <2>12, <2>15 DEF Asked, Queued
  <2>21. Computed(s.rt, stopped, FALSE, want)
    BY <2>9, <2>15 DEF Computed, Queued
  <2> QED
    BY <2>1, <2>15, <2>19, <2>20, <2>21
<1>2. CASE ~(trigger /\ ~stopped)
  <2>1. /\ rt' = rt /\ feedback' = feedback /\ nl' = nl /\ kernel' = kernel
        /\ stopped' = stopped /\ table' = table /\ want' = want /\ trigger' = FALSE
    BY <1>2 DEF TimerFires
  <2>2. Computed(rt, stopped, FALSE, want)
    BY <1>2 DEF Computed
  <2> QED
    BY <2>1, <2>2
<1> QED
  BY <1>1, <1>2
(* What is forgotten is still there, but nobody waits for it.              *)
Forgets(n, m, D) ==
    /\ m \in Netlink /\ Len(m.buffered) = Len(n.buffered)
    /\ Len(m.answers) = Len(n.answers)
    /\ \A i \in 1 .. Len(n.buffered) :
         /\ m.buffered[i].dst = n.buffered[i].dst
         /\ m.buffered[i].set = n.buffered[i].set
         /\ m.buffered[i].p = n.buffered[i].p
         /\ m.buffered[i].wanted <=> n.buffered[i].wanted /\ n.buffered[i].dst \notin D
         /\ n.buffered[i].dst \in Dests
    /\ \A i \in 1 .. Len(n.answers) :
         /\ m.answers[i].dst = n.answers[i].dst
         /\ m.answers[i].err = n.answers[i].err
         /\ m.answers[i].wanted <=> n.answers[i].wanted /\ n.answers[i].dst \notin D
         /\ n.answers[i].dst \in Dests
    /\ \A d, b : Has(m.buffered, d, b) <=> Has(n.buffered, d, b)

(* So it is after an interrupt.                                            *)
LEMMA HasForgotten ==
    ASSUME NEW n \in Netlink, NEW D
    PROVE  Forgets(n, Interrupt(n, D), D)
<1> DEFINE x == Interrupt(n, D)
<1>1. /\ x \in Netlink
      /\ Forgotten(n.buffered, x.buffered, D)
      /\ Forgotten(n.answers, x.answers, D)
      /\ \A i \in 1 .. Len(n.buffered) :
           /\ x.buffered[i].set = n.buffered[i].set
           /\ x.buffered[i].p = n.buffered[i].p
      /\ \A i \in 1 .. Len(n.answers) : x.answers[i].err = n.answers[i].err
  BY InterruptValue
<1> HIDE DEF x
<1>3. /\ \A i \in 1 .. Len(n.buffered) : n.buffered[i].dst \in Dests
      /\ \A i \in 1 .. Len(n.answers) : n.answers[i].dst \in Dests
  <2>1. n.buffered \in Seq(Req) /\ n.answers \in Seq(Ans)
    BY DEF Netlink
  <2>2. /\ \A i \in 1 .. Len(n.buffered) : n.buffered[i] \in Req
        /\ \A i \in 1 .. Len(n.answers) : n.answers[i] \in Ans
    BY <2>1, ElementOfSeq
  <2> QED
    BY <2>2 DEF Req, Ans
<1> QED
  BY <1>1, <1>3 DEF Forgotten, Forgets, Has, x

(* A change of the table: the routes that are set get a removal, each as   *)
(* the last request of its destination.                                    *)
LEMMA SetDomainParameterPrompt ==
    ASSUME PromptInv, NEW t \in Tables, SetDomainParameter(t)
    PROVE  /\ UnderWay(rt, feedback, stopped, nl.buffered, nl.answers)'
           /\ Follows(rt, feedback, stopped, kernel, nl.buffered)'
           /\ Asked(rt, stopped, table)'
           /\ Computed(rt, stopped, trigger, want)'
<1> USE DEF PromptInv, FullInv
<1>1. CASE \A d \in Dests : ~rt[d].present
  <2>1. /\ rt' = rt /\ feedback' = feedback /\ nl' = nl /\ kernel' = kernel
        /\ stopped' = stopped /\ table' = t /\ want' = want /\ trigger' = trigger
    BY <1>1 DEF SetDomainParameter
  <2>2. Asked(rt, stopped, t)
    BY <1>1 DEF Asked
  <2> QED
    BY <2>1, <2>2
<1>2. CASE ~(\A d \in Dests : ~rt[d].present)
  <2> DEFINE D == {d \in Dests : rt[d].present /\ rt[d].set}
             I == {d \in D : rt[d].in_processing /\ d \in feedback}
             r == [d \in Dests |->
                     IF d \in D
                     THEN [rt[d] EXCEPT !.set = FALSE,
                                        !.in_processing = @ /\ d \notin I]
                     ELSE rt[d]]
             m == Interrupt(nl, I)
             g == feedback \ I
             s == ProcessKernelQueue(r, m, g, D)
             B == nl.buffered
             A == nl.answers
  <2>1. /\ rt' = s.rt /\ feedback' = s.feedback /\ nl' = s.nl /\ kernel' = kernel
        /\ stopped' = stopped /\ ~stopped /\ table' = t /\ want' = want /\ trigger' = TRUE
    BY <1>2 DEF SetDomainParameter, Commit
  <2>2. /\ nl \in Netlink /\ RtType /\ \A d \in Dests : EntryFine(rt[d])
        /\ \A d \in Dests : rt[d].in_processing <=> d \in feedback
    BY <2>1 DEF Shapes, Inv, ProcessingMeansFeedback
  <2>3. ASSUME NEW d \in Dests
        PROVE  /\ r[d] \in Entry /\ EntryFine(r[d])
               /\ r[d].in_processing <=> rt[d].in_processing /\ d \notin I
               /\ r[d].present = rt[d].present /\ r[d].p = rt[d].p
               /\ r[d].set <=> rt[d].set /\ d \notin D
    <3> DEFINE b == rt[d].in_processing /\ d \notin I
    <3>1. CASE d \in D
      <4>1. b \in BOOLEAN
        OBVIOUS
      <4>2. r[d] = [rt[d] EXCEPT !.set = FALSE, !.in_processing = b]
        BY <3>1
      <4>3. rt[d] \in Entry /\ rt[d].present /\ rt[d].p \in Goal
        BY <3>1 DEF Inv, RtType, Shapes, EntryFine
      <4> HIDE DEF b, r
      <4>4. /\ r[d] \in Entry /\ r[d].in_processing = b /\ r[d].present /\ r[d].p = rt[d].p
            /\ ~r[d].set /\ r[d].present = rt[d].present
        BY <4>1, <4>2, <4>3 DEF Entry
      <4> HIDE DEF D
      <4> QED
        BY <3>1, <4>3, <4>4 DEF b, EntryFine
    <3>2. CASE d \notin D
      <4>1. r[d] = rt[d] /\ d \notin I
        BY <3>2
      <4>2. rt[d] \in Entry /\ EntryFine(rt[d])
        BY <2>2 DEF RtType
      <4> HIDE DEF r, D, I
      <4> QED
        BY <3>2, <4>1, <4>2
    <3> QED
      BY <3>1, <3>2
  <2>4. r \in [Dests -> Entry]
    BY <2>3
  <2>5. /\ D \in SUBSET Dests /\ I \subseteq D /\ g \in SUBSET Dests
        /\ \A d \in Dests : d \in D <=> rt[d].present /\ rt[d].set
        /\ \A d \in D : d \in I <=> d \in feedback
    BY <2>2 DEF RtType
  <2>20. Forgets(nl, m, I)
    <3> HIDE DEF I
    <3> QED
      BY <2>2, HasForgotten
  <2> HIDE DEF m, I
  <2>6. /\ m \in Netlink /\ Len(m.buffered) = Len(B)
        /\ Len(m.answers) = Len(A)
        /\ \A i \in 1 .. Len(B) :
             /\ m.buffered[i].dst = B[i].dst /\ m.buffered[i].set = B[i].set
             /\ m.buffered[i].p = B[i].p
             /\ m.buffered[i].wanted <=> B[i].wanted /\ B[i].dst \notin I
             /\ B[i].dst \in Dests
        /\ \A i \in 1 .. Len(A) :
             /\ m.answers[i].dst = A[i].dst /\ m.answers[i].err = A[i].err
             /\ m.answers[i].wanted <=> A[i].wanted /\ A[i].dst \notin I
             /\ A[i].dst \in Dests
        /\ \A d, b : Has(m.buffered, d, b) <=> Has(B, d, b)
    BY <2>20 DEF Forgets
  <2>7. s = ProcessKernelQueue(r, m, g, D)
    OBVIOUS
  <2>8. g = feedback \ I
    OBVIOUS
  <2>9. Len(B) \in Nat
    <3>1. B \in Seq(Req)
      BY <2>2 DEF Netlink
    <3> QED
      BY <3>1, LenProperties
  <2> HIDE DEF r, m, I, D, g, s, B, A
  <2>10. \A d \in D : ~r[d].in_processing
    BY <2>2, <2>3, <2>5
  <2>11. /\ UnderWay(rt, feedback, stopped, B, A)
         /\ Follows(rt, feedback, stopped, kernel, B)
         /\ WantedOnce(feedback, B, A)
    BY DEF A, B, Shapes
  <2>12. Before(r, g, stopped, m.buffered, m.answers, D)
    <3>1. ASSUME NEW i \in 1 .. Len(m.buffered)
          PROVE  LET b == m.buffered[i]
                     e == r[b.dst]
                 IN  /\ e.present /\ (e.in_processing \/ b.dst \in D) /\ b.p = e.p
                     /\ ~b.set => ~e.set
                     /\ b.set /\ ~e.set /\ ~stopped
                          => Has(m.buffered, b.dst, FALSE) \/ b.dst \in D
                     /\ b.dst \in D => b.set /\ ~b.wanted /\ ~e.set
      <4> DEFINE d == B[i].dst
      <4>1. /\ i \in 1 .. Len(B) /\ d \in Dests
            /\ m.buffered[i].dst = d /\ m.buffered[i].set = B[i].set
            /\ m.buffered[i].p = B[i].p
            /\ m.buffered[i].wanted <=> B[i].wanted /\ d \notin I
        BY <2>6, <3>1
      <4>2. /\ rt[d].present /\ rt[d].in_processing /\ B[i].p = rt[d].p
            /\ ~B[i].set => ~rt[d].set
            /\ B[i].set /\ ~rt[d].set => Has(B, d, FALSE)
        BY <2>1, <2>11, <4>1 DEF UnderWay
      <4>3. Has(m.buffered, d, FALSE) <=> Has(B, d, FALSE)
        BY <2>6
      <4> HIDE DEF d
      <4>4. /\ r[d].in_processing <=> rt[d].in_processing /\ d \notin I
            /\ r[d].present = rt[d].present /\ r[d].p = rt[d].p
            /\ r[d].set <=> rt[d].set /\ d \notin D
        BY <2>3, <4>1
      <4>5. (d \in D <=> rt[d].present /\ rt[d].set) /\ (d \in I => d \in D)
        BY <2>5, <4>1
      <4>6. d \in D => d \in I
        BY <2>2, <2>5, <4>1, <4>2
      <4> QED
        BY <4>1, <4>2, <4>3, <4>4, <4>5, <4>6
    <3>2. ASSUME NEW i \in 1 .. Len(m.buffered), NEW j \in 1 .. Len(m.buffered), i < j,
                 m.buffered[i].dst = m.buffered[j].dst
          PROVE  m.buffered[i].set /\ ~m.buffered[i].wanted /\ ~m.buffered[j].set
      <4>1. i \in 1 .. Len(B) /\ j \in 1 .. Len(B) /\ B[i].dst = B[j].dst
        BY <2>6, <3>2
      <4>2. B[i].set /\ ~B[i].wanted /\ ~B[j].set
        BY <2>11, <3>2, <4>1 DEF UnderWay
      <4> QED
        BY <2>6, <4>1, <4>2
    <3>3. ASSUME NEW i \in 1 .. Len(m.answers)
          PROVE  /\ m.answers[i].err = "OK"
                 /\ m.answers[i].wanted =>
                      /\ m.answers[i].dst \notin D
                      /\ \A j \in 1 .. Len(m.buffered) : m.buffered[j].dst # m.answers[i].dst
      <4>1. i \in 1 .. Len(A) /\ m.answers[i].dst = A[i].dst /\ m.answers[i].err = A[i].err
        BY <2>6, <3>3
      <4>2. A[i].err = "OK"
        BY <2>11, <4>1 DEF UnderWay
      <4>3. ASSUME m.answers[i].wanted
            PROVE  A[i].wanted /\ A[i].dst \notin I /\ A[i].dst \in feedback
        BY <2>6, <2>11, <4>1, <4>3 DEF WantedOnce
      <4>4. ASSUME m.answers[i].wanted, NEW j \in 1 .. Len(m.buffered)
            PROVE  m.buffered[j].dst # m.answers[i].dst
        <5>1. j \in 1 .. Len(B) /\ m.buffered[j].dst = B[j].dst
          BY <2>6, <4>4
        <5> QED
          BY <2>11, <4>1, <4>3, <4>4, <5>1 DEF UnderWay
      <4> QED
        BY <2>5, <4>1, <4>2, <4>3, <4>4
    <3>4. ASSUME NEW d \in g
          PROVE  \/ \E i \in 1 .. Len(m.buffered) :
                      m.buffered[i].wanted /\ m.buffered[i].dst = d
                 \/ \E i \in 1 .. Len(m.answers) :
                      m.answers[i].wanted /\ m.answers[i].dst = d
      <4>1. d \in feedback /\ d \notin I
        BY <2>8
      <4>2. CASE \E i \in 1 .. Len(B) : B[i].wanted /\ B[i].dst = d
        BY <2>6, <4>1, <4>2
      <4>3. CASE \E i \in 1 .. Len(A) : A[i].wanted /\ A[i].dst = d
        BY <2>6, <4>1, <4>3
      <4> QED
        BY <2>11, <4>1, <4>2, <4>3 DEF UnderWay
    <3>5. \A d \in D : r[d].present
      BY <2>3, <2>5
    <3> QED
      BY <2>1, <3>1, <3>2, <3>3, <3>4, <3>5 DEF Before
  <2>13. /\ s.feedback = g \cup D
         /\ Queued(r, s.rt, D)
         /\ UnderWay(s.rt, s.feedback, stopped, s.nl.buffered, s.nl.answers)
         /\ Adds(m.buffered, s.nl.buffered, r, D)
    <3>1. Ready(r, m, g, D, stopped, D)
      BY <2>3, <2>4, <2>5, <2>6, <2>10, <2>12 DEF Ready
    <3> QED
      BY <2>7, <3>1, QueueSends
  <2>14. s.feedback = feedback \cup D
    BY <2>5, <2>8, <2>13
  <2>15. ASSUME NEW d \in Dests, NEW b \in BOOLEAN
         PROVE  Has(s.nl.buffered, d, b) <=> Has(B, d, b) \/ (d \in D /\ b = FALSE)
    <3>1. d \in D => r[d].set = FALSE
      BY <2>3, <2>4 DEF Entry
    <3>2. Has(s.nl.buffered, d, b) <=> Has(m.buffered, d, b) \/ (d \in D /\ r[d].set = b)
      BY <2>13 DEF Adds
    <3> QED
      BY <2>6, <3>1, <3>2
  <2>16. ASSUME NEW d \in Dests
         PROVE  /\ s.rt[d].present = rt[d].present /\ s.rt[d].p = rt[d].p
                /\ s.rt[d].set <=> rt[d].set /\ d \notin D
                /\ s.rt[d].in_processing <=> rt[d].in_processing \/ d \in D
    <3>1. /\ s.rt[d].present = r[d].present /\ s.rt[d].set = r[d].set
          /\ s.rt[d].p = r[d].p
          /\ s.rt[d].in_processing <=> r[d].in_processing \/ d \in D
      BY <2>13 DEF Queued
    <3> QED
      BY <2>3, <2>5, <3>1
  <2>17. Follows(s.rt, s.feedback, stopped, kernel, s.nl.buffered)
    <3> SUFFICES ASSUME NEW d \in Dests
                 PROVE  /\ \A u \in Tables :
                             kernel[u][d] # NoRoute => s.rt[d].present /\ u = s.rt[d].p.table
                        /\ s.rt[d].present /\ ~Has(s.nl.buffered, d, TRUE)
                              /\ (s.rt[d].set \/ Has(s.nl.buffered, d, FALSE))
                             => kernel[s.rt[d].p.table][d] = s.rt[d].p.gw
                        /\ ~s.rt[d].set /\ ~Has(s.nl.buffered, d, FALSE) =>
                             \A u \in Tables : kernel[u][d] = NoRoute
      BY DEF Follows
    <3>1. /\ Has(s.nl.buffered, d, TRUE) <=> Has(B, d, TRUE)
          /\ Has(s.nl.buffered, d, FALSE) <=> Has(B, d, FALSE) \/ d \in D
      BY <2>15
    <3>2. /\ \A u \in Tables : kernel[u][d] # NoRoute => rt[d].present /\ u = rt[d].p.table
          /\ rt[d].present /\ ~Has(B, d, TRUE) /\ (rt[d].set \/ Has(B, d, FALSE))
               => kernel[rt[d].p.table][d] = rt[d].p.gw
          /\ ~rt[d].set /\ ~Has(B, d, FALSE) => \A u \in Tables : kernel[u][d] = NoRoute
      BY <2>1, <2>11 DEF Follows
    <3>3. d \in D => rt[d].set
      BY <2>5
    <3> QED
      BY <2>16, <3>1, <3>2, <3>3
  <2>18. Asked(s.rt, stopped, t)
    <3>1. Asked(rt, stopped, table)
      OBVIOUS
    <3> QED
      BY <2>1, <2>5, <2>16, <3>1 DEF Asked
  <2>19. Computed(s.rt, stopped, TRUE, want)
    BY DEF Computed
  <2> QED
    BY <2>1, <2>13, <2>17, <2>18, <2>19
<1> QED
  BY <1>1, <1>2
(* A shutdown: every route that no request is open for gets its removal;   *)
(* what was open before is answered to nobody.                             *)
LEMMA ShutdownPrompt ==
    ASSUME PromptInv, Shutdown
    PROVE  /\ UnderWay(rt, feedback, stopped, nl.buffered, nl.answers)'
           /\ Follows(rt, feedback, stopped, kernel, nl.buffered)'
           /\ Asked(rt, stopped, table)'
           /\ Computed(rt, stopped, trigger, want)'
<1> USE DEF PromptInv, FullInv
<1> DEFINE D == {d \in Dests : rt[d].present /\ rt[d].set}
           todo == {d \in D : ~rt[d].in_processing}
           r == [d \in Dests |-> [rt[d] EXCEPT !.set = FALSE]]
           m == Interrupt(nl, Dests)
           s == ProcessKernelQueue(r, m, {}, D)
           B == nl.buffered
           A == nl.answers
<1>1. /\ rt' = s.rt /\ feedback' = s.feedback /\ nl' = s.nl /\ kernel' = kernel
      /\ stopped' = TRUE /\ ~stopped /\ table' = table /\ want' = want /\ trigger' = trigger
  BY DEF Shutdown, Commit
<1>2. /\ nl \in Netlink /\ RtType /\ \A d \in Dests : EntryFine(rt[d])
  BY DEF Shapes, Inv
<1>3. ASSUME NEW d \in Dests
      PROVE  /\ r[d] \in Entry /\ r[d].present = rt[d].present /\ r[d].p = rt[d].p
             /\ r[d].in_processing = rt[d].in_processing /\ ~r[d].set
             /\ rt[d].present => EntryFine(r[d])
  <2>1. rt[d] \in Entry /\ r[d] = [rt[d] EXCEPT !.set = FALSE] /\ EntryFine(rt[d])
    BY <1>2 DEF RtType
  <2> HIDE DEF r
  <2>2. /\ r[d] \in Entry /\ r[d].present = rt[d].present /\ r[d].p = rt[d].p
        /\ r[d].in_processing = rt[d].in_processing /\ ~r[d].set
    BY <2>1 DEF Entry
  <2> QED
    BY <2>1, <2>2 DEF EntryFine
<1>4. r \in [Dests -> Entry]
  BY <1>3
<1>5. /\ D \in SUBSET Dests /\ todo \in SUBSET Dests
      /\ \A d \in Dests : d \in D <=> rt[d].present /\ rt[d].set
      /\ \A d \in Dests : d \in todo <=> d \in D /\ ~rt[d].in_processing
  OBVIOUS
<1>6. s = ProcessKernelQueue(r, m, {}, D) /\ Forgets(nl, m, Dests)
  BY <1>2, HasForgotten
<1> HIDE DEF r, m, D, todo, s
<1>7. /\ UnderWay(rt, feedback, stopped, B, A)
      /\ Follows(rt, feedback, stopped, kernel, B)
  OBVIOUS
<1> HIDE DEF B, A
<1>8. /\ m \in Netlink /\ Len(m.buffered) = Len(B)
      /\ Len(m.answers) = Len(A)
      /\ \A i \in 1 .. Len(B) :
           /\ m.buffered[i].dst = B[i].dst /\ m.buffered[i].set = B[i].set
           /\ m.buffered[i].p = B[i].p /\ ~m.buffered[i].wanted
           /\ B[i].dst \in Dests
      /\ \A i \in 1 .. Len(A) : m.answers[i].err = A[i].err /\ ~m.answers[i].wanted
      /\ \A d, b : Has(m.buffered, d, b) <=> Has(B, d, b)
  BY <1>6 DEF Forgets, A, B
<1>9. Before(r, {}, TRUE, m.buffered, m.answers, todo)
  <2>1. ASSUME NEW i \in 1 .. Len(m.buffered)
        PROVE  LET b == m.buffered[i]
                   e == r[b.dst]
               IN  /\ e.present /\ e.in_processing /\ b.p = e.p /\ ~e.set
                   /\ b.dst \notin todo
    <3> DEFINE d == B[i].dst
    <3>1. /\ i \in 1 .. Len(B) /\ d \in Dests
          /\ m.buffered[i].dst = d /\ m.buffered[i].p = B[i].p
      BY <1>8, <2>1
    <3>2. rt[d].present /\ rt[d].in_processing /\ B[i].p = rt[d].p
      BY <1>7, <3>1 DEF UnderWay
    <3> HIDE DEF d
    <3>3. d \notin todo
      BY <1>5, <3>1, <3>2
    <3> QED
      BY <1>3, <3>1, <3>2, <3>3
  <2>2. ASSUME NEW i \in 1 .. Len(m.buffered), NEW j \in 1 .. Len(m.buffered), i < j,
               m.buffered[i].dst = m.buffered[j].dst
        PROVE  m.buffered[i].set /\ ~m.buffered[i].wanted /\ ~m.buffered[j].set
    <3>1. i \in 1 .. Len(B) /\ j \in 1 .. Len(B) /\ B[i].dst = B[j].dst
      BY <1>8, <2>2
    <3>2. B[i].set /\ ~B[j].set
      BY <1>7, <2>2, <3>1 DEF UnderWay
    <3> QED
      BY <1>8, <3>1, <3>2
  <2>3. \A i \in 1 .. Len(m.answers) : m.answers[i].err = "OK" /\ ~m.answers[i].wanted
    <3>1. \A i \in 1 .. Len(A) : A[i].err = "OK"
      BY <1>7 DEF UnderWay
    <3> QED
      BY <1>8, <3>1
  <2>4. \A d \in todo : r[d].present /\ ~r[d].set
    BY <1>3, <1>5
  <2> QED
    BY <2>1, <2>2, <2>3, <2>4 DEF Before
<1>10. /\ s.feedback = {} \cup todo
       /\ Queued(r, s.rt, todo)
       /\ UnderWay(s.rt, s.feedback, TRUE, s.nl.buffered, s.nl.answers)
       /\ Adds(m.buffered, s.nl.buffered, r, todo)
  <2> DEFINE f == {}
             st == TRUE
  <2>1. Before(r, f, st, m.buffered, m.answers, todo) /\ s = ProcessKernelQueue(r, m, f, D)
        /\ f \in SUBSET Dests
    BY <1>6, <1>9
  <2> HIDE DEF f, st
  <2>2. Ready(r, m, f, D, st, todo)
    BY <1>3, <1>4, <1>5, <1>8, <2>1 DEF Ready
  <2>3. /\ s.feedback = f \cup todo
        /\ Queued(r, s.rt, todo)
        /\ UnderWay(s.rt, s.feedback, st, s.nl.buffered, s.nl.answers)
        /\ Adds(m.buffered, s.nl.buffered, r, todo)
    BY <2>1, <2>2, QueueSends
  <2> QED
    BY <2>3 DEF f, st
<1>11. s.feedback = todo
  BY <1>10
<1>12. ASSUME NEW d \in Dests
       PROVE  /\ Has(s.nl.buffered, d, TRUE) <=> Has(B, d, TRUE)
              /\ Has(s.nl.buffered, d, FALSE) <=> Has(B, d, FALSE) \/ d \in todo
  <2>1. r[d].set = FALSE
    BY <1>3 DEF Entry
  <2>2. \A b \in BOOLEAN :
          Has(s.nl.buffered, d, b) <=> Has(m.buffered, d, b) \/ (d \in todo /\ r[d].set = b)
    BY <1>10 DEF Adds
  <2>3. \A b : Has(m.buffered, d, b) <=> Has(B, d, b)
    BY <1>8
  <2> QED
    BY <2>1, <2>2, <2>3
<1>13. ASSUME NEW d \in Dests
       PROVE  /\ s.rt[d].present = rt[d].present /\ s.rt[d].p = rt[d].p /\ ~s.rt[d].set
              /\ s.rt[d].in_processing <=> rt[d].in_processing \/ d \in todo
  <2>1. /\ s.rt[d].present = r[d].present /\ s.rt[d].set = r[d].set
        /\ s.rt[d].p = r[d].p
        /\ s.rt[d].in_processing <=> r[d].in_processing \/ d \in todo
    BY <1>10 DEF Queued
  <2> QED
    BY <1>3, <2>1
<1>14. Follows(s.rt, s.feedback, TRUE, kernel, s.nl.buffered)
  <2> SUFFICES ASSUME NEW d \in Dests
               PROVE  /\ \A u \in Tables :
                           kernel[u][d] # NoRoute => s.rt[d].present /\ u = s.rt[d].p.table
                      /\ s.rt[d].present /\ ~Has(s.nl.buffered, d, TRUE)
                            /\ (s.rt[d].set \/ Has(s.nl.buffered, d, FALSE))
                           => kernel[s.rt[d].p.table][d] = s.rt[d].p.gw
                      /\ ~s.rt[d].set /\ ~Has(s.nl.buffered, d, FALSE) =>
                           \A u \in Tables : kernel[u][d] # NoRoute =>
                             s.rt[d].in_processing /\ d \notin s.feedback
    BY DEF Follows
  <2>1. /\ \A u \in Tables : kernel[u][d] # NoRoute => rt[d].present /\ u = rt[d].p.table
        /\ rt[d].present /\ ~Has(B, d, TRUE) /\ (rt[d].set \/ Has(B, d, FALSE))
             => kernel[rt[d].p.table][d] = rt[d].p.gw
    BY <1>7 DEF Follows
  <2>2. rt[d].present /\ ~rt[d].set => rt[d].in_processing
    BY <1>1 DEF Asked
  <2>3. /\ Has(s.nl.buffered, d, TRUE) <=> Has(B, d, TRUE)
        /\ Has(s.nl.buffered, d, FALSE) <=> Has(B, d, FALSE) \/ d \in todo
    BY <1>12
  <2>4. d \in todo <=> rt[d].present /\ rt[d].set /\ ~rt[d].in_processing
    BY <1>5
  <2> QED
    BY <1>11, <1>13, <2>1, <2>2, <2>3, <2>4
<1>15. Asked(s.rt, TRUE, table)
  BY <1>13 DEF Asked
<1>16. Computed(s.rt, TRUE, trigger, want)
  BY DEF Computed
<1> QED
  BY <1>1, <1>10, <1>14, <1>15, <1>16

(* The kernel handles a netlink buffer, one request after the other.       *)
LEMMA FlushPrompt ==
    ASSUME SetErrors = FALSE, PromptInv, Flush
    PROVE  /\ UnderWay(rt, feedback, stopped, nl.buffered, nl.answers)'
           /\ Follows(rt, feedback, stopped, kernel, nl.buffered)'
           /\ Asked(rt, stopped, table)'
           /\ Computed(rt, stopped, trigger, want)'
<1> USE DEF PromptInv, FullInv
<1> DEFINE G == {x \in Kernel \X Seq(Req) \X Seq(Ans) :
                   /\ UnderWay(rt, feedback, stopped, x[2], x[3])
                   /\ Follows(rt, feedback, stopped, x[1], x[2])}
<1>1. /\ kernel \in Kernel /\ nl \in Netlink
      /\ \A d \in Dests : EntryFine(rt[d])
      /\ feedback \in SUBSET Dests /\ stopped \in BOOLEAN
  BY DEF Shapes, Inv, RtType
<1>2. <<kernel, nl.buffered, nl.answers>> \in G
  BY <1>1 DEF Netlink
<1>3. ASSUME NEW k \in Kernel, NEW B \in Seq(Req), NEW A \in Seq(Ans),
             <<k, B, A>> \in G, B # <<>>, NEW err \in KernelVerdicts(k, B[1])
      PROVE  Handles(k, B, A, err) \in G
  <2>1. err \in Errors
    BY DEF KernelVerdicts, Errors
  <2>2. UnderWay(rt, feedback, stopped, B, A) /\ Follows(rt, feedback, stopped, k, B)
    BY <1>3
  <2> DEFINE h == Handles(k, B, A, err)
             C == h[2]
             E == h[3]
  <2>3. /\ h[1] \in Kernel /\ C \in Seq(Req) /\ E \in Seq(Ans)
        /\ Handled(B, C, A, E) /\ E[Len(E)].err = err
    BY <1>3, <2>1, HandlesValue
  <2>4. h = <<h[1], h[2], h[3]>> /\ h[1] = KernelApplies(k, B[1], err)
    BY DEF Handles
  <2> HIDE DEF h, C, E
  <2>5. UnderWay(rt, feedback, stopped, C, E)
        /\ Follows(rt, feedback, stopped, KernelApplies(k, B[1], err), C)
    <3>1. FirstAnswered(k, B, A, err, C, E)
      BY <1>3, <2>3 DEF FirstAnswered
    <3> QED
      BY <1>1, <2>2, <3>1, FirstHandled
  <2>6. h \in Kernel \X Seq(Req) \X Seq(Ans)
    BY <2>3, <2>4 DEF C, E
  <2> QED
    BY <2>4, <2>5, <2>6 DEF h, C, E
<1> HIDE DEF G
<1>4. <<kernel', nl'.buffered, nl'.answers>> \in G
  BY <1>1, <1>2, <1>3, FlushRuns
<1>5. /\ UnderWay(rt, feedback, stopped, nl'.buffered, nl'.answers)
      /\ Follows(rt, feedback, stopped, kernel', nl'.buffered)
  BY <1>4 DEF G
<1>6. /\ rt' = rt /\ feedback' = feedback /\ stopped' = stopped /\ table' = table
      /\ trigger' = trigger /\ want' = want
  BY DEF Flush
<1> QED
  BY <1>5, <1>6

(* An answer: its request was the last one for its route.                  *)
LEMMA ReadAnswerPrompt ==
    ASSUME PromptInv, ReadAnswer
    PROVE  /\ UnderWay(rt, feedback, stopped, nl.buffered, nl.answers)'
           /\ Follows(rt, feedback, stopped, kernel, nl.buffered)'
           /\ Asked(rt, stopped, table)'
           /\ Computed(rt, stopped, trigger, want)'
<1> USE DEF PromptInv, FullInv
<1> DEFINE A == nl.answers
           B == nl.buffered
           a == Head(A)
           E == Tail(A)
<1>1. /\ A # <<>>
      /\ nl' = JobFinished([nl EXCEPT !.answers = E])
      /\ feedback' = IF a.wanted THEN feedback \ {a.dst} ELSE feedback
      /\ rt' = IF a.wanted THEN [rt EXCEPT ![a.dst] = RouteFinished(@, a.err)] ELSE rt
      /\ kernel' = kernel /\ stopped' = stopped /\ table' = table
      /\ trigger' = trigger /\ want' = want
  BY DEF ReadAnswer
<1>2. /\ nl \in Netlink /\ WantedOnce(feedback, B, A)
      /\ RtType /\ \A d \in Dests : EntryFine(rt[d])
      /\ \A d \in feedback : rt[d].in_processing
      /\ UnderWay(rt, feedback, stopped, B, A)
      /\ Follows(rt, feedback, stopped, kernel, B)
  BY DEF Shapes, Inv, ProcessingMeansFeedback, RtType
<1>3. Rest(A, E) /\ E \in Seq(Ans) /\ a = A[1] /\ a \in Ans
  BY <1>1, <1>2, AnswersRest
<1>4. nl'.buffered = B /\ nl'.answers = E
  <2>1. JobFinished([nl EXCEPT !.answers = E]).buffered = [nl EXCEPT !.answers = E].buffered
        /\ JobFinished([nl EXCEPT !.answers = E]).answers = [nl EXCEPT !.answers = E].answers
    <3>1. [nl EXCEPT !.answers = E] \in Netlink
      BY <1>2, <1>3 DEF Netlink
    <3>2. ASSUME NEW n \in Netlink
          PROVE  JobFinished(n).buffered = n.buffered /\ JobFinished(n).answers = n.answers
      BY DEF JobFinished, Netlink
    <3> QED
      BY <3>1, <3>2
  <2>2. [nl EXCEPT !.answers = E].buffered = B /\ [nl EXCEPT !.answers = E].answers = E
    BY <1>2 DEF Netlink
  <2> QED
    BY <1>1, <2>1, <2>2
<1> HIDE DEF a, E, A, B
<1>5. ASSUME NEW i \in 1 .. Len(E)
      PROVE  /\ E[i].err = "OK"
             /\ E[i].wanted => \A j \in 1 .. Len(B) : B[j].dst # E[i].dst
  BY <1>2, <1>3 DEF Rest, UnderWay
<1>6. ASSUME NEW d \in feedback, ~(a.wanted /\ a.dst = d)
      PROVE  \/ \E i \in 1 .. Len(B) : B[i].wanted /\ B[i].dst = d
             \/ \E i \in 1 .. Len(E) : E[i].wanted /\ E[i].dst = d
  <2>1. CASE \E i \in 1 .. Len(A) : A[i].wanted /\ A[i].dst = d
    <3>1. PICK i \in 1 .. Len(A) : A[i].wanted /\ A[i].dst = d
      BY <2>1
    <3>2. i # 1
      BY <1>3, <1>6, <3>1
    <3>3. i - 1 \in 1 .. Len(E) /\ (i - 1) + 1 = i
      BY <1>3, <3>2 DEF Rest
    <3>4. E[i - 1] = A[i]
      BY <1>3, <3>3 DEF Rest
    <3> QED
      BY <3>1, <3>3, <3>4
  <2> QED
    BY <1>2, <2>1 DEF UnderWay
<1>7. CASE ~a.wanted
  <2>1. rt' = rt /\ feedback' = feedback
    BY <1>1, <1>7
  <2>2. UnderWay(rt, feedback, stopped, B, E)
    BY <1>2, <1>5, <1>6, <1>7 DEF UnderWay
  <2> QED
    BY <1>1, <1>2, <1>4, <2>1, <2>2
<1>8. CASE a.wanted
  <2> DEFINE d == a.dst
             e == rt[d]
  <2>1. /\ d \in Dests /\ d \in feedback /\ a.err = "OK"
        /\ \A j \in 1 .. Len(B) : B[j].dst # d
    <3>1. 1 \in 1 .. Len(A)
      BY <1>3 DEF Rest
    <3> QED
      BY <1>2, <1>3, <1>8, <3>1 DEF Ans, WantedOnce, UnderWay
  <2>2. e \in Entry /\ EntryFine(e) /\ e.present /\ e.in_processing
    <3>1. ~Absent.in_processing
      BY DEF Absent
    <3> QED
      BY <1>2, <2>1, <3>1 DEF RtType, EntryFine
  <2>3. feedback' = feedback \ {d}
    BY <1>1, <1>8
  <2>4. \A x \in Dests : rt'[x] = IF x = d THEN RouteFinished(e, a.err) ELSE rt[x]
    BY <1>1, <1>2, <1>8, <2>1 DEF RtType
  <2>5. rt'[d] = IF e.set THEN [e EXCEPT !.in_processing = FALSE] ELSE Absent
    <3> HIDE DEF d, e
    <3>1. a.err = "OK" => RouteFinished(e, a.err) =
                            IF e.set THEN [e EXCEPT !.in_processing = FALSE] ELSE Absent
      BY <2>2, RouteFinishedValue
    <3> QED
      BY <2>1, <2>4, <3>1
  <2>6. /\ e.set => /\ rt'[d].set /\ rt'[d].present /\ rt'[d].p = e.p
        /\ ~e.set => ~rt'[d].set /\ ~rt'[d].present
    BY <2>2, <2>5 DEF Absent, Entry
  <2>7. \A x \in Dests : x # d => rt'[x] = rt[x]
    BY <2>4
  <2>8. ~Has(B, d, TRUE) /\ ~Has(B, d, FALSE)
    BY <2>1 DEF Has
  <2> HIDE DEF d, e
  <2>9. UnderWay(rt', feedback', stopped, B, E)
    <3>1. ASSUME NEW i \in 1 .. Len(B)
          PROVE  LET x == rt'[B[i].dst]
                 IN  /\ x.present /\ x.in_processing /\ B[i].p = x.p
                     /\ ~B[i].set => ~x.set
                     /\ B[i].set /\ ~x.set /\ ~stopped => Has(B, B[i].dst, FALSE)
                     /\ B[i].set /\ stopped => B[i].dst \notin feedback'
      <4>1. B[i].dst \in Dests
        <5>1. B \in Seq(Req)
          BY <1>2 DEF Netlink, B
        <5>2. B[i] \in Req
          BY <5>1, ElementOfSeq
        <5> QED
          BY <5>2 DEF Req
      <4>2. rt'[B[i].dst] = rt[B[i].dst]
        BY <2>1, <2>7, <4>1
      <4>3. LET x == rt[B[i].dst]
            IN  /\ x.present /\ x.in_processing /\ B[i].p = x.p
                /\ ~B[i].set => ~x.set
                /\ B[i].set /\ ~x.set /\ ~stopped => Has(B, B[i].dst, FALSE)
                /\ B[i].set /\ stopped => B[i].dst \notin feedback
        BY <1>2 DEF UnderWay
      <4> QED
        BY <2>3, <4>2, <4>3
    <3>2. \A i, j \in 1 .. Len(B) :
            i < j /\ B[i].dst = B[j].dst => B[i].set /\ ~B[i].wanted /\ ~B[j].set
      BY <1>2 DEF UnderWay
    <3>3. \A x \in feedback' : \/ \E i \in 1 .. Len(B) : B[i].wanted /\ B[i].dst = x
                               \/ \E i \in 1 .. Len(E) : E[i].wanted /\ E[i].dst = x
      BY <1>6, <2>3 DEF d
    <3> QED
      BY <1>5, <3>1, <3>2, <3>3 DEF UnderWay
  <2>10. Follows(rt', feedback', stopped, kernel, B)
    <3> SUFFICES ASSUME NEW x \in Dests
                 PROVE  /\ \A t \in Tables :
                             kernel[t][x] # NoRoute => rt'[x].present /\ t = rt'[x].p.table
                        /\ rt'[x].present /\ ~Has(B, x, TRUE)
                              /\ (rt'[x].set \/ Has(B, x, FALSE))
                             => kernel[rt'[x].p.table][x] = rt'[x].p.gw
                        /\ ~rt'[x].set /\ ~Has(B, x, FALSE) =>
                             \A t \in Tables : kernel[t][x] # NoRoute =>
                               stopped /\ rt'[x].in_processing /\ x \notin feedback'
      BY DEF Follows
    <3>1. /\ \A t \in Tables : kernel[t][x] # NoRoute => rt[x].present /\ t = rt[x].p.table
          /\ rt[x].present /\ ~Has(B, x, TRUE) /\ (rt[x].set \/ Has(B, x, FALSE))
               => kernel[rt[x].p.table][x] = rt[x].p.gw
          /\ ~rt[x].set /\ ~Has(B, x, FALSE) =>
               \A t \in Tables : kernel[t][x] # NoRoute =>
                 stopped /\ rt[x].in_processing /\ x \notin feedback
      BY <1>2 DEF Follows
    <3>2. CASE x # d
      BY <2>3, <2>7, <3>1, <3>2
    <3>3. CASE x = d /\ e.set
      BY <2>2, <2>6, <2>8, <3>1, <3>3 DEF e
    <3>4. CASE x = d /\ ~e.set
      <4>1. \A t \in Tables : kernel[t][x] = NoRoute
        BY <2>1, <2>8, <3>1, <3>4 DEF e
      <4> QED
        BY <2>6, <3>4, <4>1
    <3> QED
      BY <3>2, <3>3, <3>4
  <2>11. Asked(rt', stopped, table)
    <3>1. Asked(rt, stopped, table)
      OBVIOUS
    <3> QED
      <4> SUFFICES ASSUME NEW x \in Dests
                   PROVE  IF stopped THEN ~rt'[x].set
                          ELSE /\ rt'[x].present /\ ~rt'[x].set => rt'[x].in_processing
                               /\ rt'[x].present /\ rt'[x].set => rt'[x].p.table = table
        BY DEF Asked
      <4>1. CASE x # d
        BY <2>7, <3>1, <4>1 DEF Asked
      <4>2. CASE x = d
        <5>1. (stopped => ~e.set) /\ (~stopped /\ e.set => e.p.table = table)
          BY <2>1, <2>2, <3>1 DEF Asked, e
        <5> QED
          BY <2>6, <4>2, <5>1
      <4> QED
        BY <4>1, <4>2
  <2>12. Computed(rt', stopped, trigger, want)
    <3>1. Computed(rt, stopped, trigger, want)
      OBVIOUS
    <3> QED
      BY <2>1, <2>6, <2>7, <3>1 DEF Computed, e
  <2> QED
    BY <1>1, <1>4, <2>9, <2>10, <2>11, <2>12
<1> QED
  BY <1>7, <1>8

(* Every step of a prompt kernel without errors keeps the invariant.       *)
LEMMA NextPrompt ==
    ASSUME Prompt = TRUE, SetErrors = FALSE
    PROVE  PromptInv /\ [Next]_vars => PromptInv'
<1> SUFFICES ASSUME PromptInv, [Next]_vars
             PROVE  /\ UnderWay(rt, feedback, stopped, nl.buffered, nl.answers)'
                    /\ Follows(rt, feedback, stopped, kernel, nl.buffered)'
                    /\ Asked(rt, stopped, table)'
                    /\ Computed(rt, stopped, trigger, want)'
  BY NextShapes DEF PromptInv
<1> DEFINE Kept == /\ UnderWay(rt, feedback, stopped, nl.buffered, nl.answers)
                   /\ Follows(rt, feedback, stopped, kernel, nl.buffered)
                   /\ Asked(rt, stopped, table)
                   /\ Computed(rt, stopped, trigger, want)
<1>1. UNCHANGED <<rt, feedback, stopped, nl, kernel, table, trigger, want>> => Kept'
  <2> SUFFICES ASSUME UNCHANGED <<rt, feedback, stopped, nl, kernel, table, trigger, want>>
               PROVE  Kept'
    OBVIOUS
  <2>1. /\ rt' = rt /\ feedback' = feedback /\ stopped' = stopped /\ nl' = nl
        /\ kernel' = kernel /\ table' = table /\ trigger' = trigger /\ want' = want
    OBVIOUS
  <2> QED
    BY <2>1 DEF PromptInv
<1>2. ASSUME NEW w \in Topologies, TopologyChange(w)
      PROVE  Kept'
  <2>1. /\ rt' = rt /\ feedback' = feedback /\ stopped' = stopped /\ nl' = nl
        /\ kernel' = kernel /\ table' = table /\ trigger' = TRUE
    BY <1>2 DEF TopologyChange, TriggerUpdate
  <2>2. Computed(rt, stopped, TRUE, want')
    BY DEF Computed
  <2> QED
    BY <2>1, <2>2 DEF PromptInv
<1>3. ASSUME Calm PROVE Kept'
  BY <1>1, <1>3 DEF Calm
<1>4. ASSUME UNCHANGED vars PROVE Kept'
  BY <1>1, <1>4 DEF vars
<1>5. ~AnswerLost /\ ~NetlinkTimeout
  BY DEF AnswerLost, NetlinkTimeout
<1> HIDE DEF Kept
<1>6. Kept'
  <2>1. CASE TimerFires
    BY <2>1, TimerFiresPrompt DEF Kept
  <2>2. ASSUME NEW t \in Tables, SetDomainParameter(t)
        PROVE  Kept'
    BY <2>2, SetDomainParameterPrompt DEF Kept
  <2>3. CASE Shutdown
    BY <2>3, ShutdownPrompt DEF Kept
  <2>4. CASE Flush
    BY <2>4, FlushPrompt DEF Kept
  <2>5. CASE ReadAnswer
    BY <2>5, ReadAnswerPrompt DEF Kept
  <2> QED
    BY <1>2, <1>3, <1>4, <1>5, <2>1, <2>2, <2>3, <2>4, <2>5 DEF Next
<1> QED
  BY <1>6 DEF Kept

(* With a prompt kernel that rejects no route: when nothing is under way,  *)
(* the kernel has exactly the routes of the last Dijkstra, and after a     *)
(* shutdown only those whose request was open.                             *)
THEOREM KernelAlwaysAgrees ==
    ASSUME Prompt = TRUE, SetErrors = FALSE
    PROVE  Spec => []KernelAgrees
<1>1. PromptInv => KernelAgrees
  <2> SUFFICES ASSUME PromptInv, Pending = 0 PROVE KernelAgrees
    BY DEF KernelAgrees, RoutesInstalled, RoutesRemoved, Quiet
  <2> USE DEF PromptInv, FullInv
  <2>1. Len(nl.buffered) = 0
    <3>1. nl.buffered \in Seq(Req) /\ nl.answers \in Seq(Ans)
      BY DEF Shapes, Netlink
    <3>2. Len(nl.buffered) \in Nat /\ Len(nl.answers) \in Nat
      BY <3>1, LenProperties
    <3>3. Len(nl.buffered) + Len(nl.answers) = 0
      BY DEF Pending
    <3>4. ASSUME NEW x \in Nat, NEW y \in Nat, x + y = 0
          PROVE  x = 0
      BY <3>4
    <3> QED
      BY <3>2, <3>3, <3>4
  <2>2. \A d \in Dests : ~Has(nl.buffered, d, TRUE) /\ ~Has(nl.buffered, d, FALSE)
    BY <2>1 DEF Has
  <2>3. RoutesInstalled
    <3> SUFFICES ASSUME Quiet, ~stopped, NEW t \in Tables, NEW d \in Dests
                 PROVE  kernel[t][d] = IF t = table THEN want[d] ELSE NoRoute
      BY DEF RoutesInstalled
    <3>1. IF want[d] # NoRoute THEN rt[d].present /\ rt[d].set /\ rt[d].p.gw = want[d]
          ELSE ~rt[d].set
      BY DEF Computed, Quiet
    <3>2. rt[d].present /\ rt[d].set => rt[d].p.table = table
      BY DEF Asked
    <3>3. /\ kernel[t][d] # NoRoute => rt[d].present /\ t = rt[d].p.table
          /\ rt[d].present /\ rt[d].set => kernel[rt[d].p.table][d] = rt[d].p.gw
          /\ ~rt[d].set => kernel[t][d] = NoRoute
      BY <2>2 DEF Follows
    <3> QED
      BY <3>1, <3>2, <3>3
  <2>4. RoutesRemoved
    BY <2>2 DEF RoutesRemoved, Asked, Follows
  <2> QED
    BY <2>3, <2>4 DEF KernelAgrees
<1>2. QED
  BY InitPrompt, NextPrompt, <1>1, PTL DEF Spec
-----------------------------------------------------------------------------
(* GatewayFirst of a Dijkstra result w, a kernel k and the requests B.     *)
GatewaysReady(w, k, B) ==
    \A j \in 1 .. Len(B) :
      B[j].set /\ B[j].p.gw \in Dests /\ w[B[j].p.gw] = Direct =>
        /\ \A i \in 1 .. j - 1 :
             B[i].dst = B[j].p.gw => /\ B[i].set
                                     /\ B[i].p = [gw |-> Direct, table |-> B[j].p.table]
        /\ \/ \E i \in 1 .. j - 1 : B[i].dst = B[j].p.gw
           \/ k[B[j].p.table][B[j].p.gw] = Direct

(* Removals behind the requests B disturb no gateway.                      *)
LEMMA ReadyBehind ==
    ASSUME NEW w, NEW k, NEW B, NEW C, GatewaysReady(w, k, B),
           Len(B) \in Nat, Len(C) \in Nat, Len(B) <= Len(C),
           \A i \in 1 .. Len(B) : C[i].dst = B[i].dst /\ C[i].set = B[i].set
                                  /\ C[i].p = B[i].p,
           \A i \in Len(B) + 1 .. Len(C) : ~C[i].set
    PROVE  GatewaysReady(w, k, C)
<1> SUFFICES ASSUME NEW j \in 1 .. Len(C), C[j].set, C[j].p.gw \in Dests,
                    w[C[j].p.gw] = Direct
             PROVE  /\ \A i \in 1 .. j - 1 :
                         C[i].dst = C[j].p.gw =>
                           /\ C[i].set
                           /\ C[i].p = [gw |-> Direct, table |-> C[j].p.table]
                    /\ \/ \E i \in 1 .. j - 1 : C[i].dst = C[j].p.gw
                       \/ k[C[j].p.table][C[j].p.gw] = Direct
  BY DEF GatewaysReady
<1>1. j \in 1 .. Len(B)
  OBVIOUS
<1>2. \A i \in 1 .. j - 1 : i \in 1 .. Len(B)
  BY <1>1
<1>3. B[j].set /\ B[j].p.gw = C[j].p.gw /\ B[j].p.table = C[j].p.table
  BY <1>1
<1>4. /\ \A i \in 1 .. j - 1 :
           B[i].dst = C[j].p.gw => /\ B[i].set
                                   /\ B[i].p = [gw |-> Direct, table |-> C[j].p.table]
      /\ \/ \E i \in 1 .. j - 1 : B[i].dst = C[j].p.gw
         \/ k[C[j].p.table][C[j].p.gw] = Direct
  BY <1>1, <1>3 DEF GatewaysReady
<1> QED
  BY <1>2, <1>4

(* The kernel handles the first request.                                   *)
LEMMA ReadyHandled ==
    ASSUME SetErrors = FALSE, NEW w, NEW k \in Kernel, NEW B \in Seq(Req), B # <<>>,
           NEW err \in KernelVerdicts(k, B[1]), NEW C, NEW A, NEW E, Handled(B, C, A, E),
           GatewaysReady(w, k, B)
    PROVE  GatewaysReady(w, KernelApplies(k, B[1], err), C)
<1> DEFINE q == B[1]
           m == KernelApplies(k, q, err)
<1>1. /\ Len(B) \in Nat \ {0} /\ q \in Req
      /\ \A i \in 1 .. Len(B) : B[i] \in Req
      /\ Len(C) = Len(B) - 1 /\ Len(C) \in Nat
      /\ \A i \in 1 .. Len(C) : C[i] = B[i + 1]
  BY EmptySeq, LenProperties, ElementOfSeq DEF Handled
<1>2. q.set => err = "OK"
  BY DEF KernelVerdicts
<1>3. ASSUME NEW t \in Tables, NEW d \in Dests, q.dst # d
      PROVE  m[t][d] = k[t][d]
  <2>1. k[t] \in [Dests -> Hops \cup {NoRoute}] /\ k[q.p.table] \in [Dests -> Hops \cup {NoRoute}]
        /\ q.p.table \in Tables
    BY <1>1 DEF Kernel, Req, Goal
  <2> QED
    BY <1>3, <2>1 DEF KernelApplies, Kernel
<1>4. ASSUME NEW t \in Tables, q.set, q.p = [gw |-> Direct, table |-> t]
      PROVE  m[t][q.dst] = Direct
  <2>1. q.p.gw = Direct /\ q.p.table = t
    BY <1>4
  <2>2. m = [k EXCEPT ![t][q.dst] = Direct]
    BY <1>2, <1>4, <2>1 DEF KernelApplies
  <2>3. k[t] \in [Dests -> Hops \cup {NoRoute}] /\ q.dst \in Dests
    BY <1>1 DEF Kernel, Req
  <2> QED
    BY <2>2, <2>3 DEF Kernel
<1> HIDE DEF m, q
<1> SUFFICES ASSUME NEW j \in 1 .. Len(C), C[j].set, C[j].p.gw \in Dests,
                    w[C[j].p.gw] = Direct
             PROVE  /\ \A i \in 1 .. j - 1 :
                         C[i].dst = C[j].p.gw =>
                           /\ C[i].set
                           /\ C[i].p = [gw |-> Direct, table |-> C[j].p.table]
                    /\ \/ \E i \in 1 .. j - 1 : C[i].dst = C[j].p.gw
                       \/ m[C[j].p.table][C[j].p.gw] = Direct
  BY DEF GatewaysReady, m, q
<1> DEFINE g == C[j].p.gw
           t == C[j].p.table
<1>5. C[j] = B[j + 1] /\ j + 1 \in 1 .. Len(B) /\ (j + 1) - 1 = j
  BY <1>1
<1>6. t \in Tables /\ g \in Dests
  BY <1>1, <1>5 DEF Req, Goal
<1>7. /\ \A i \in 1 .. j : B[i].dst = g => /\ B[i].set
                                           /\ B[i].p = [gw |-> Direct, table |-> t]
      /\ (\E i \in 1 .. j : B[i].dst = g) \/ k[t][g] = Direct
  <2>1. /\ \A i \in 1 .. (j + 1) - 1 :
             B[i].dst = B[j + 1].p.gw =>
               B[i].set /\ B[i].p = [gw |-> Direct, table |-> B[j + 1].p.table]
        /\ \/ \E i \in 1 .. (j + 1) - 1 : B[i].dst = B[j + 1].p.gw
           \/ k[B[j + 1].p.table][B[j + 1].p.gw] = Direct
    BY <1>5 DEF GatewaysReady
  <2> QED
    BY <1>5, <2>1
<1>8. ASSUME NEW i \in 1 .. j - 1
      PROVE  C[i] = B[i + 1] /\ i + 1 \in 1 .. j
  BY <1>1
<1>9. ASSUME NEW i \in 1 .. j, i # 1
      PROVE  i - 1 \in 1 .. j - 1 /\ C[i - 1] = B[i]
  <2>1. i - 1 \in 1 .. j - 1 /\ (i - 1) + 1 = i
    BY <1>9
  <2> QED
    BY <1>8, <2>1
<1> HIDE DEF g, t
<1>10. ASSUME NEW i \in 1 .. j - 1, C[i].dst = g
       PROVE  C[i].set /\ C[i].p = [gw |-> Direct, table |-> t]
  BY <1>7, <1>8, <1>10
<1>11. (\E i \in 1 .. j - 1 : C[i].dst = g) \/ m[t][g] = Direct
  <2>1. CASE q.dst = g
    <3>1. 1 \in 1 .. j
      OBVIOUS
    <3>2. q.set /\ q.p = [gw |-> Direct, table |-> t]
      BY <1>7, <2>1, <3>1 DEF q
    <3> QED
      BY <1>4, <1>6, <2>1, <3>2
  <2>2. CASE q.dst # g
    <3>1. CASE \E i \in 1 .. j : B[i].dst = g
      <4>1. PICK i \in 1 .. j : B[i].dst = g
        BY <3>1
      <4>2. i # 1
        BY <2>2, <4>1 DEF q
      <4> QED
        BY <1>9, <4>1, <4>2
    <3>2. CASE k[t][g] = Direct
      BY <1>3, <1>6, <2>2, <3>2
    <3> QED
      BY <1>7, <3>1, <3>2
  <2> QED
    BY <2>1, <2>2
<1> QED
  BY <1>10, <1>11 DEF g, t

(* PromptInv, and the order of what is under way.                          *)
GatewayInv ==
    /\ PromptInv
    /\ GatewaysReady(computed, kernel, nl.buffered)

(* A Dijkstra puts the direct route of a gateway before the routes through *)
(* it, or does not touch it, and then the kernel has it.                   *)
LEMMA TimerFiresGateway ==
    ASSUME Prompt = TRUE, GatewayInv, TimerFires
    PROVE  GatewaysReady(computed', kernel', nl'.buffered)
<1> USE DEF GatewayInv, PromptInv, FullInv
<1>1. CASE trigger /\ ~stopped
  <2> DEFINE r == InitializeParameters(DijkstraResult(PrepareRoutes(rt)))
             D == Modified(r)
             todo == {d \in D : ~r[d].in_processing}
             s == ProcessKernelQueue(r, nl, feedback, D)
             C == s.nl.buffered
  <2>1. nl' = s.nl /\ kernel' = kernel /\ computed' = want /\ ~stopped
    BY <1>1 DEF TimerFires, Commit
  <2>2. /\ nl \in Netlink /\ kernel \in Kernel /\ \A d \in Dests : EntryFine(rt[d])
        /\ RtType
    BY DEF Shapes, Inv
  <2>3. Len(nl.buffered) = 0 /\ Len(nl.answers) = 0
    <3>1. Len(nl.buffered) \in Nat /\ Len(nl.answers) \in Nat
      <4>1. nl.buffered \in Seq(Req) /\ nl.answers \in Seq(Ans)
        BY <2>2 DEF Netlink
      <4> QED
        BY <4>1, LenProperties
    <3>2. Len(nl.buffered) + Len(nl.answers) = 0
      BY DEF TimerFires, Pending
    <3>3. ASSUME NEW x \in Nat, NEW y \in Nat, x + y = 0
          PROVE  x = 0 /\ y = 0
      BY <3>3
    <3> QED
      BY <3>1, <3>2, <3>3
  <2>4. \A d \in Dests : ~rt[d].in_processing
    <3>1. feedback = {}
      BY <2>3 DEF UnderWay
    <3> QED
      BY <2>1, <3>1 DEF Inv, ProcessingMeansFeedback
  <2>5. ASSUME NEW d \in Dests, rt[d].present
        PROVE  kernel[rt[d].p.table][d] = rt[d].p.gw
    <3>1. rt[d].set
      BY <2>1, <2>4, <2>5 DEF Asked
    <3>2. ~Has(nl.buffered, d, TRUE)
      BY <2>3 DEF Has
    <3> QED
      BY <2>5, <3>1, <3>2 DEF Follows
  <2>6. r \in [Dests -> Entry]
    BY DijkstraKeeps DEF Inv
  <2>7. \A d \in Dests :
          /\ EntryFine(r[d])
          /\ r[d].in_processing = rt[d].in_processing
          /\ r[d].old = rt[d].p
          /\ r[d].present => r[d].p.table = table
          /\ r[d].set <=> want[d] # NoRoute
          /\ r[d].present <=> rt[d].present \/ want[d] # NoRoute
          /\ r[d].present => r[d].p.gw = IF want[d] # NoRoute THEN want[d] ELSE rt[d].p.gw
    BY <2>2, DijkstraValue
  <2>8. /\ D \in SUBSET Dests
        /\ \A d \in Dests : d \in D <=> r[d].present /\ ~(r[d].set /\ r[d].old = r[d].p)
    BY DEF Modified
  <2> HIDE DEF r, D
  <2>9. feedback \in SUBSET Dests /\ \A d \in D : r[d].p \in Goal
    BY <2>2, <2>7, <2>8 DEF RtType, EntryFine
  <2>10. todo = D
    BY <2>4, <2>7, <2>8
  <2>11. Enqueued(nl.buffered, C, r, D)
    <3>1. Enqueued(nl.buffered, C, r, todo)
      BY <2>2, <2>6, <2>8, <2>9, ProcessKernelQueueValue
    <3> QED
      BY <2>10, <3>1
  <2> HIDE DEF s, C, todo
  <2>12. /\ Len(C) \in Nat
         /\ \A i \in 1 .. Len(C) : C[i].dst \in D /\ C[i].set = r[C[i].dst].set
                                   /\ C[i].p = r[C[i].dst].p
         /\ \A d \in D : \E i \in 1 .. Len(C) : C[i].dst = d
         /\ \A i, j \in 1 .. Len(C) : i < j /\ Early(r, C[j].dst) => Early(r, C[i].dst)
    BY <2>3, <2>11 DEF Enqueued
  <2>13. GatewaysReady(want, kernel, C)
    <3> SUFFICES ASSUME NEW j \in 1 .. Len(C), C[j].set, C[j].p.gw \in Dests,
                        want[C[j].p.gw] = Direct
                 PROVE  /\ \A i \in 1 .. j - 1 :
                             C[i].dst = C[j].p.gw =>
                               /\ C[i].set
                               /\ C[i].p = [gw |-> Direct, table |-> C[j].p.table]
                        /\ \/ \E i \in 1 .. j - 1 : C[i].dst = C[j].p.gw
                           \/ kernel[C[j].p.table][C[j].p.gw] = Direct
      BY DEF GatewaysReady
    <3> DEFINE d == C[j].dst
               g == C[j].p.gw
    <3>1. d \in Dests /\ g \in Dests /\ r[d].set /\ r[d].p.gw = g /\ r[d].p = C[j].p
      BY <2>8, <2>12
    <3>2. want[d] = g /\ r[d].p.table = table
      BY <2>7, <3>1
    <3>3. want[g] = Direct /\ Direct # NoRoute /\ Direct \notin Dests
      BY ConstantsAssumption DEF Gateways, Hops
    <3>4. r[g].set /\ r[g].present /\ r[g].p.gw = Direct /\ r[g].p.table = table
      BY <2>7, <3>1, <3>3
    <3>5. r[g].p = [gw |-> Direct, table |-> C[j].p.table]
      <4>1. r[g].p \in Goal /\ C[j].p.table = table
        BY <2>7, <3>1, <3>2, <3>4 DEF EntryFine
      <4> QED
        BY <3>4, <4>1 DEF Goal
    <3>6. Early(r, g) /\ ~Early(r, d) /\ g # d
      BY <3>1, <3>2, <3>3, <3>4 DEF Early
    <3> HIDE DEF d, g
    <3>7. ASSUME NEW i \in 1 .. j - 1, C[i].dst = g
          PROVE  C[i].set /\ C[i].p = [gw |-> Direct, table |-> C[j].p.table]
      <4>1. i \in 1 .. Len(C)
        BY <2>12
      <4> QED
        BY <2>12, <3>4, <3>5, <3>7, <4>1
    <3>8. (\E i \in 1 .. j - 1 : C[i].dst = g) \/ kernel[C[j].p.table][g] = Direct
      <4>1. CASE g \in D
        <5>1. PICK i \in 1 .. Len(C) : C[i].dst = g
          BY <2>12, <4>1
        <5>2. C[j].dst = d
          BY DEF d
        <5>3. ~(j < i) /\ i # j
          BY <2>12, <3>6, <5>1, <5>2
        <5>4. i \in 1 .. j - 1
          BY <2>12, <5>3
        <5> QED
          BY <5>1, <5>4
      <4>2. CASE g \notin D
        <5>1. r[g].old = r[g].p
          BY <2>8, <3>1, <3>4, <4>2
        <5>2. rt[g].p = r[g].p
          BY <2>7, <3>1, <5>1
        <5>3. rt[g].present
          <6>1. Absent.p.gw = NoRoute
            BY DEF Absent, NoParam
          <6> QED
            BY <2>2, <3>1, <3>3, <3>4, <5>2, <6>1 DEF EntryFine
        <5> QED
          BY <2>5, <3>1, <3>4, <3>5, <5>2, <5>3
      <4> QED
        BY <4>1, <4>2
    <3> QED
      BY <3>7, <3>8 DEF g
  <2> QED
    BY <2>1, <2>13 DEF C
<1>2. CASE ~(trigger /\ ~stopped)
  BY <1>2 DEF TimerFires
<1> QED
  BY <1>1, <1>2

(* The requests for the removals of D, behind what an interrupt for I left *)
(* in the buffers.                                                         *)
LEMMA RemovalsBehind ==
    ASSUME NEW n \in Netlink, NEW w, NEW k, GatewaysReady(w, k, n.buffered), NEW I,
           NEW r \in [Dests -> Entry], NEW f \in SUBSET Dests, NEW D \in SUBSET Dests,
           \A d \in D : r[d].p \in Goal /\ ~r[d].set
    PROVE  GatewaysReady(w, k, ProcessKernelQueue(r, Interrupt(n, I), f, D).nl.buffered)
<1> DEFINE m == Interrupt(n, I)
           todo == {d \in D : ~r[d].in_processing}
           B == n.buffered
           C == ProcessKernelQueue(r, m, f, D).nl.buffered
<1>1. /\ m \in Netlink /\ Len(m.buffered) = Len(B)
      /\ \A i \in 1 .. Len(B) :
           m.buffered[i].dst = B[i].dst /\ m.buffered[i].set = B[i].set
           /\ m.buffered[i].p = B[i].p
  <2>1. Forgets(n, m, I)
    BY HasForgotten
  <2> HIDE DEF m
  <2> QED
    BY <2>1 DEF Forgets
<1> HIDE DEF m
<1>2. Enqueued(m.buffered, C, r, todo)
  BY <1>1, ProcessKernelQueueValue
<1> HIDE DEF C
<1>3. /\ Len(B) \in Nat /\ Len(C) \in Nat /\ Len(B) <= Len(C)
      /\ \A i \in 1 .. Len(B) : C[i] = m.buffered[i]
      /\ \A i \in Len(B) + 1 .. Len(C) : C[i].dst \in D /\ C[i].set = r[C[i].dst].set
  BY <1>1, <1>2 DEF Enqueued
<1>4. /\ \A i \in 1 .. Len(B) : C[i].dst = B[i].dst /\ C[i].set = B[i].set
                                /\ C[i].p = B[i].p
      /\ \A i \in Len(B) + 1 .. Len(C) : ~C[i].set
  BY <1>1, <1>3
<1> HIDE DEF B
<1>5. GatewaysReady(w, k, B)
  BY DEF B
<1>6. GatewaysReady(w, k, C)
  BY <1>3, <1>4, <1>5, ReadyBehind
<1> QED
  BY <1>6 DEF C, m

(* A new routing table and a shutdown only remove routes.                  *)
LEMMA RemovalsGateway ==
    ASSUME GatewayInv, Shutdown \/ \E t \in Tables : SetDomainParameter(t)
    PROVE  GatewaysReady(computed', kernel', nl'.buffered)
<1> USE DEF GatewayInv, PromptInv, FullInv
<1> DEFINE D == {d \in Dests : rt[d].present /\ rt[d].set}
<1>1. /\ nl \in Netlink /\ feedback \in SUBSET Dests /\ D \in SUBSET Dests
      /\ rt \in [Dests -> Entry]
      /\ \A d \in D : rt[d].p \in Goal
      /\ GatewaysReady(computed, kernel, nl.buffered)
  BY DEF Shapes, Inv, RtType, EntryFine
<1>2. CASE Shutdown
  <2> DEFINE r == [d \in Dests |-> [rt[d] EXCEPT !.set = FALSE]]
             s == ProcessKernelQueue(r, Interrupt(nl, Dests), {}, D)
  <2>1. nl' = s.nl /\ kernel' = kernel /\ computed' = computed
    BY <1>2 DEF Shutdown, Commit
  <2>2. ASSUME NEW d \in Dests
        PROVE  r[d] \in Entry /\ r[d].p = rt[d].p /\ ~r[d].set
    BY <1>1 DEF Entry
  <2>3. r \in [Dests -> Entry]
    BY <2>2
  <2> DEFINE none == {}
  <2>4. none \in SUBSET Dests
    OBVIOUS
  <2> HIDE DEF r, none
  <2>5. \A d \in D : r[d].p \in Goal /\ ~r[d].set
    BY <1>1, <2>2
  <2> HIDE DEF D
  <2>6. GatewaysReady(computed, kernel, ProcessKernelQueue(r, Interrupt(nl, Dests), none, D).nl.buffered)
    BY <1>1, <2>3, <2>4, <2>5, RemovalsBehind
  <2> QED
    BY <2>1, <2>6 DEF none
<1>3. ASSUME NEW t \in Tables, SetDomainParameter(t)
      PROVE  GatewaysReady(computed', kernel', nl'.buffered)
  <2>1. CASE \A d \in Dests : ~rt[d].present
    BY <1>3, <2>1 DEF SetDomainParameter
  <2>2. CASE ~(\A d \in Dests : ~rt[d].present)
    <3> DEFINE I == {d \in D : rt[d].in_processing /\ d \in feedback}
               r == [d \in Dests |->
                       IF d \in D
                       THEN [rt[d] EXCEPT !.set = FALSE,
                                          !.in_processing = @ /\ d \notin I]
                       ELSE rt[d]]
               f == feedback \ I
               s == ProcessKernelQueue(r, Interrupt(nl, I), f, D)
    <3>1. nl' = s.nl /\ kernel' = kernel /\ computed' = computed
      BY <1>3, <2>2 DEF SetDomainParameter, Commit
    <3>2. ASSUME NEW d \in Dests
          PROVE  r[d] \in Entry /\ (d \in D => r[d].p = rt[d].p /\ ~r[d].set)
      <4> DEFINE b == rt[d].in_processing /\ d \notin I
      <4>1. CASE d \in D
        <5>1. b \in BOOLEAN /\ rt[d] \in Entry
          BY <1>1
        <5>2. r[d] = [rt[d] EXCEPT !.set = FALSE, !.in_processing = b]
          BY <4>1
        <5> HIDE DEF b, r
        <5> QED
          BY <5>1, <5>2 DEF Entry
      <4>2. CASE d \notin D
        <5>1. r[d] = rt[d]
          BY <4>2
        <5> QED
          BY <1>1, <4>2, <5>1
      <4> QED
        BY <4>1, <4>2
    <3>3. r \in [Dests -> Entry] /\ f \in SUBSET Dests
      BY <1>1, <3>2
    <3>4. \A d \in D : r[d].p \in Goal /\ ~r[d].set
      BY <1>1, <3>2
    <3> HIDE DEF r, f, I, D
    <3>5. GatewaysReady(computed, kernel, s.nl.buffered)
      BY <1>1, <3>3, <3>4, RemovalsBehind
    <3> QED
      BY <3>1, <3>5
  <2> QED
    BY <2>1, <2>2
<1> QED
  BY <1>2, <1>3

(* The kernel handles a netlink buffer, one request after the other.       *)
LEMMA FlushGateway ==
    ASSUME SetErrors = FALSE, GatewayInv, Flush
    PROVE  GatewaysReady(computed', kernel', nl'.buffered)
<1> DEFINE G == {x \in Kernel \X Seq(Req) \X Seq(Ans) : GatewaysReady(computed, x[1], x[2])}
<1>1. kernel \in Kernel /\ nl \in Netlink /\ GatewaysReady(computed, kernel, nl.buffered)
  BY DEF GatewayInv, PromptInv, FullInv, Shapes
<1>2. <<kernel, nl.buffered, nl.answers>> \in G
  BY <1>1 DEF Netlink
<1>3. ASSUME NEW k \in Kernel, NEW B \in Seq(Req), NEW A \in Seq(Ans),
             <<k, B, A>> \in G, B # <<>>, NEW err \in KernelVerdicts(k, B[1])
      PROVE  Handles(k, B, A, err) \in G
  <2>1. err \in Errors
    BY DEF KernelVerdicts, Errors
  <2>2. GatewaysReady(computed, k, B)
    BY <1>3
  <2> DEFINE h == Handles(k, B, A, err)
             C == h[2]
             E == h[3]
  <2>3. /\ h[1] \in Kernel /\ C \in Seq(Req) /\ E \in Seq(Ans)
        /\ Handled(B, C, A, E)
    BY <1>3, <2>1, HandlesValue
  <2>4. h = <<h[1], h[2], h[3]>> /\ h[1] = KernelApplies(k, B[1], err)
    BY DEF Handles
  <2> HIDE DEF h, C, E
  <2>5. GatewaysReady(computed, h[1], C)
    BY <1>3, <2>2, <2>3, <2>4, ReadyHandled
  <2>6. h \in Kernel \X Seq(Req) \X Seq(Ans)
    BY <2>3, <2>4 DEF C, E
  <2> QED
    BY <2>5, <2>6 DEF h, C
<1> HIDE DEF G
<1>4. <<kernel', nl'.buffered, nl'.answers>> \in G
  BY <1>1, <1>2, <1>3, FlushRuns
<1>5. computed' = computed
  BY DEF Flush
<1> QED
  BY <1>4, <1>5 DEF G

(* Every step of a prompt kernel without errors keeps it.                  *)
LEMMA NextGateway ==
    ASSUME Prompt = TRUE, SetErrors = FALSE
    PROVE  GatewayInv /\ [Next]_vars => GatewayInv'
<1> SUFFICES ASSUME GatewayInv, [Next]_vars
             PROVE  GatewaysReady(computed', kernel', nl'.buffered)
  <2>1. GatewayInv /\ [Next]_vars => PromptInv'
    BY NextPrompt DEF GatewayInv
  <2> QED
    BY <2>1 DEF GatewayInv, GatewaysReady
<1>2. ~AnswerLost /\ ~NetlinkTimeout
  BY DEF AnswerLost, NetlinkTimeout
<1>3. GatewaysReady(computed, kernel, nl.buffered)
  BY DEF GatewayInv
<1>4. ASSUME UNCHANGED <<computed, kernel, nl>>
      PROVE  GatewaysReady(computed', kernel', nl'.buffered)
  BY <1>3, <1>4
<1>5. ASSUME NEW w \in Topologies, TopologyChange(w)
      PROVE  GatewaysReady(computed', kernel', nl'.buffered)
  BY <1>4, <1>5 DEF TopologyChange
<1>6. ASSUME Calm \/ UNCHANGED vars
      PROVE  GatewaysReady(computed', kernel', nl'.buffered)
  BY <1>4, <1>6 DEF Calm, vars
<1>7. ASSUME ReadAnswer
      PROVE  GatewaysReady(computed', kernel', nl'.buffered)
  <2>1. nl'.buffered = nl.buffered /\ kernel' = kernel /\ computed' = computed
    <3>1. nl \in Netlink
      BY DEF GatewayInv, PromptInv, FullInv, Shapes
    <3> QED
      BY <1>7, <3>1 DEF ReadAnswer, JobFinished, Netlink
  <2> QED
    BY <1>3, <2>1
<1>8. ASSUME TimerFires
      PROVE  GatewaysReady(computed', kernel', nl'.buffered)
  BY <1>8, TimerFiresGateway
<1>9. ASSUME Shutdown \/ \E t \in Tables : SetDomainParameter(t)
      PROVE  GatewaysReady(computed', kernel', nl'.buffered)
  BY <1>9, RemovalsGateway
<1>10. ASSUME Flush
      PROVE  GatewaysReady(computed', kernel', nl'.buffered)
  BY <1>10, FlushGateway
<1> QED
  BY <1>2, <1>5, <1>6, <1>7, <1>8, <1>9, <1>10 DEF Next

(* With a prompt kernel that rejects no route, whatever Dijkstra computes  *)
(* and whatever the size of a netlink buffer: a route through a gateway    *)
(* with a direct route reaches the kernel when that direct route is there. *)
THEOREM GatewayAlwaysFirst ==
    ASSUME Prompt = TRUE, SetErrors = FALSE
    PROVE  Spec => []GatewayFirst
<1>1. Init => GatewayInv
  <2> SUFFICES ASSUME Init PROVE GatewayInv
    OBVIOUS
  <2>1. nl.buffered = <<>> /\ Len(<<>>) = 0
    BY DEF Init
  <2> QED
    BY <2>1, InitPrompt DEF GatewayInv, GatewaysReady
<1>2. GatewayInv => GatewayFirst
  <2> SUFFICES ASSUME GatewayInv, NEW j \in DOMAIN nl.buffered,
                      nl.buffered[j].set, nl.buffered[j].p.gw \in Gateways,
                      computed[nl.buffered[j].p.gw] = Direct
               PROVE  LET q == nl.buffered[j]
                          before == {i \in 1 .. j - 1 : nl.buffered[i].dst = q.p.gw}
                      IN  /\ \A i \in before :
                               /\ nl.buffered[i].set
                               /\ nl.buffered[i].p = [gw |-> Direct, table |-> q.p.table]
                          /\ before = {} => kernel[q.p.table][q.p.gw] = Direct
    BY DEF GatewayFirst
  <2>1. nl.buffered \in Seq(Req)
    BY DEF GatewayInv, PromptInv, FullInv, Shapes, Netlink
  <2>2. j \in 1 .. Len(nl.buffered)
    BY <2>1, LenProperties
  <2> QED
    BY <2>2 DEF GatewayInv, GatewaysReady, Gateways
<1>3. QED
  BY <1>1, <1>2, NextGateway, PTL DEF Spec
=============================================================================
