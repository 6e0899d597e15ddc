---------------------------- MODULE OlsrRouting -----------------------------
(***************************************************************************)
(* The way of a route from the Dijkstra of olsrv2_routing.c through the    *)
(* netlink socket (os_routing_linux.c, os_system_linux.c) to the kernel.   *)
(*                                                                         *)
(* What Dijkstra computes for the present topology is the variable want;   *)
(* the environment changes it.  The routing entries, the trigger and its   *)
(* rate limitation, the requests waiting in the netlink buffers, and the   *)
(* answers waiting in the socket are the state of the program.  The kernel *)
(* is external: it handles a request while it is sent and queues an answer.*)
(*                                                                         *)
(* feedback is the tree _rtnetlink_feedback; a request or answer is        *)
(* "wanted" while its sequence number is the one of its route in the tree. *)
(* One NHDP domain is modelled.                                            *)
(***************************************************************************)
EXTENDS Naturals, Sequences, FiniteSets, SequencesExt

CONSTANTS
    DestSeq,       \* the destinations, in the order of the routing tree
    Topologies,    \* the results Dijkstra may have: [Dests -> Hops]
    Tables,        \* kernel routing tables the domain may be configured to
    SetErrors,     \* may the kernel reject a RTM_NEWROUTE?
    Prompt,        \* does the kernel answer before the next Dijkstra?
    PageRequests,  \* requests that fit in one netlink buffer
    MaxPending     \* bound: requests and answers under way

Dests == ToSet(DestSeq)
Direct == "direct"        \* a route without gateway
NoRoute == "none"
Gateways == Dests
Hops == Gateways \cup {Direct}

ASSUME ConstantsAssumption ==
    /\ DestSeq \in Seq(Dests) /\ IsInjective(DestSeq)
    /\ NoRoute \notin Hops /\ Direct \notin Dests
    /\ Topologies \subseteq [Dests -> Hops \cup {NoRoute}]
    /\ {SetErrors, Prompt} \subseteq BOOLEAN
    /\ PageRequests \in Nat \ {0}
    /\ MaxPending \in Nat

VARIABLES
    want,          \* environment: the routes the topology asks for
    computed,      \* history: what the last Dijkstra saw
    rt,            \* the routing entries: [present, set, in_processing, p, old]
    table,         \* _domain_parameter[].table
    trigger,       \* _trigger_dijkstra
    ratelimit,     \* is _rate_limit_timer active?
    stopped,       \* _initiate_shutdown
    nl,            \* the netlink socket: [buffered, answers, transit, timer]
    feedback,      \* _rtnetlink_feedback: the routes that wait for an answer
    kernel,        \* external: table and destination to hop, or NoRoute
    failed,        \* the assert of os_routing_linux_set failed
    calm           \* history: topology and configuration change no more

vars == <<want, computed, rt, table, trigger, ratelimit, stopped, nl, feedback,
          kernel, failed, calm>>

NoParam == [gw |-> NoRoute, table |-> NoRoute]
Absent == [present |-> FALSE, set |-> FALSE, in_processing |-> FALSE,
           p |-> NoParam, old |-> NoParam]

Pending == Len(nl.buffered) + Len(nl.answers)
-----------------------------------------------------------------------------
(* os_routing_linux_interrupt for the destinations D: their requests are   *)
(* forgotten, not taken back.                                              *)
Interrupt(n, D) ==
    LET forget(q) == [j \in DOMAIN q |->
                        [q[j] EXCEPT !.wanted = @ /\ q[j].dst \notin D]]
    IN  [n EXCEPT !.buffered = forget(@), !.answers = forget(@)]

(* os_routing_set: a request with the present parameters of the route.     *)
Request(d, e) == [dst |-> d, set |-> e.set, p |-> e.p, wanted |-> TRUE]

(* Mutant: requests are sent in the order of the tree.                     *)
KernelQueueInOrder(r, D) == SelectSeq(DestSeq, LAMBDA d : d \in D)

(* _add_route_to_kernel_queue, for the destinations D in tree order:       *)
(* new single-hop and removed multi-hop routes in front, others behind.    *)
KernelQueue(r, D) ==
    LET early(d) == r[d].set <=> (r[d].p.gw = Direct)
        add(queue, d) == IF d \notin D THEN queue
                         ELSE IF early(d) THEN <<d>> \o queue ELSE queue \o <<d>>
        added[k \in 0 .. Len(DestSeq)] ==
          IF k = 0 THEN <<>> ELSE add(added[k - 1], DestSeq[k])
    IN  added[Len(DestSeq)]

(* Mutant: the check of in_processing is missing.                          *)
ProcessKernelQueueAgain(r, n, f, D) ==
    LET queue == KernelQueue(r, D)
    IN  [rt |-> [d \in Dests |-> [r[d] EXCEPT !.in_processing = @ \/ d \in D]],
         nl |-> [n EXCEPT !.buffered = @ \o [j \in DOMAIN queue |->
                                               Request(queue[j], r[queue[j]])]],
         feedback |-> f \cup D,
         failed |-> D \cap f # {}]

(* _process_kernel_queue on the queue of D: the resulting entries, netlink *)
(* buffers, feedback tree, and whether the assert of os_routing_linux_set failed.           *)
ProcessKernelQueue(r, n, f, D) ==
    LET todo == {d \in D : ~r[d].in_processing}
        queue == KernelQueue(r, todo)
    IN  [rt |-> [d \in Dests |-> [r[d] EXCEPT !.in_processing = @ \/ d \in todo]],
         nl |-> [n EXCEPT !.buffered = @ \o [j \in DOMAIN queue |->
                                               Request(queue[j], r[queue[j]])]],
         feedback |-> f \cup todo,
         failed |-> todo \cap f # {}]

Commit(s) ==
    /\ rt' = s.rt
    /\ nl' = s.nl
    /\ feedback' = s.feedback
    /\ failed' = (failed \/ s.failed)

(* Mutant: the timer is not started.                                       *)
TriggerUpdateNoTimer ==
    /\ trigger' = TRUE
    /\ ratelimit' = ratelimit

(* olsrv2_routing_trigger_update                                           *)
TriggerUpdate ==
    /\ trigger' = TRUE
    /\ ratelimit' = TRUE
-----------------------------------------------------------------------------
(* The passes of olsrv2_routing_force_update over the entries.  An entry   *)
(* that Dijkstra does not reach keeps its gateway, every entry gets the    *)
(* table of the domain.  The verdict of a filter changes nothing: its      *)
(* "continue" continues the loop over the filters.                         *)
PrepareRoutes(r) ==
    [d \in Dests |-> [r[d] EXCEPT !.set = FALSE, !.old = r[d].p]]
UpdateRoutingEntry(e, hop) ==
    [e EXCEPT !.present = TRUE, !.set = TRUE, !.p.gw = hop]
DijkstraResult(r) ==
    [d \in Dests |->
       IF want[d] # NoRoute THEN UpdateRoutingEntry(r[d], want[d]) ELSE r[d]]
InitializeParameters(r) ==
    [d \in Dests |-> IF r[d].present THEN [r[d] EXCEPT !.p.table = table] ELSE r[d]]
(* Mutant: a removed route with old parameters counts as unchanged.        *)
ModifiedIgnoresSet(r) == {d \in Dests : r[d].present /\ r[d].old # r[d].p}
Modified(r) ==
    {d \in Dests : r[d].present /\ ~(r[d].set /\ r[d].old = r[d].p)}

(* _cb_trigger_dijkstra with olsrv2_routing_force_update.  With a Prompt   *)
(* kernel nothing is under way when the rate limitation (100 milliseconds  *)
(* or more) ends.                                                          *)
TimerFires ==
    /\ ratelimit
    /\ Prompt => Pending = 0
    /\ trigger' = FALSE
    /\ IF trigger /\ ~stopped
       THEN LET r == InitializeParameters(DijkstraResult(PrepareRoutes(rt)))
            IN  /\ Commit(ProcessKernelQueue(r, nl, feedback, Modified(r)))
                /\ ratelimit' = TRUE
                /\ computed' = want
       ELSE /\ ratelimit' = FALSE
            /\ UNCHANGED <<rt, nl, feedback, failed, computed>>
    /\ UNCHANGED <<want, table, stopped, kernel, calm>>

(* NHDP or the topology database call olsrv2_routing_trigger_update.       *)
TopologyChange(w) ==
    /\ ~calm
    /\ w # want
    /\ want' = w
    /\ TriggerUpdate
    /\ UNCHANGED <<computed, rt, table, stopped, nl, feedback, kernel, failed, calm>>

(* olsrv2_routing_set_domain_parameter: the old routes are removed, being  *)
(* set ones after an interrupt, and the timer is set to write new ones.    *)
SetDomainParameter(t) ==
    /\ ~calm /\ ~stopped
    /\ t # table
    /\ Pending + Len(DestSeq) <= MaxPending
    /\ table' = t
    /\ IF \A d \in Dests : ~rt[d].present
       THEN UNCHANGED <<rt, nl, feedback, failed, trigger, ratelimit>>
       ELSE LET D == {d \in Dests : rt[d].present /\ rt[d].set}
                interrupted == {d \in D : rt[d].in_processing /\ d \in feedback}
                r == [d \in Dests |->
                        IF d \in D
                        THEN [rt[d] EXCEPT !.set = FALSE,
                                           !.in_processing = @ /\ d \notin interrupted]
                        ELSE rt[d]]
            IN  /\ Commit(ProcessKernelQueue(r, Interrupt(nl, interrupted),
                                             feedback \ interrupted, D))
                /\ trigger' = TRUE
                /\ ratelimit' = TRUE
    /\ UNCHANGED <<want, computed, stopped, kernel, calm>>

(* olsrv2_routing_initiate_shutdown: the interrupt runs without callback,  *)
(* so it leaves in_processing as it is.                                    *)
Shutdown ==
    /\ ~stopped
    /\ Pending + Len(DestSeq) <= MaxPending
    /\ stopped' = TRUE
    /\ LET D == {d \in Dests : rt[d].present /\ rt[d].set}
           r == [d \in Dests |-> [rt[d] EXCEPT !.set = FALSE]]
       IN  Commit(ProcessKernelQueue(r, Interrupt(nl, Dests), {}, D))
    /\ UNCHANGED <<want, computed, table, trigger, ratelimit, kernel, calm>>
-----------------------------------------------------------------------------
(* Mutants: a removed entry is not cleared; in_processing is not reset.    *)
RouteFinishedKeepsEntry(e, err) ==
    [e EXCEPT !.in_processing = FALSE,
              !.present = e.set /\ err # "ENETUNREACH"]
RouteFinishedStillProcessing(e, err) ==
    IF err = "OK" /\ ~e.set THEN Absent ELSE e

(* _cb_route_finished.  OK is 0; "INTR" is the -1 of an interrupt.         *)
RouteFinished(e, err) ==
    LET done == [e EXCEPT !.in_processing = FALSE]
    IN  CASE err = "OK" \/ (err = "ESRCH" /\ ~e.set) -> IF e.set THEN done ELSE Absent
          [] err = "INTR" -> done
          [] err = "EEXIST" /\ e.set -> done
          [] OTHER -> IF e.set THEN Absent ELSE [done EXCEPT !.set = TRUE]

(* The kernel: a new route replaces the one to the same destination in the *)
(* same table, a removed route has to be the one that is there.            *)
KernelVerdicts(k, q) ==
    IF q.set THEN {"OK"} \cup (IF SetErrors THEN {"ENETUNREACH"} ELSE {})
    ELSE IF k[q.p.table][q.dst] = q.p.gw THEN {"OK"} ELSE {"ESRCH"}
KernelApplies(k, q, err) ==
    IF err # "OK" THEN k
    ELSE [k EXCEPT ![q.p.table][q.dst] = IF q.set THEN q.p.gw ELSE NoRoute]

(* _flush_netlink_buffer: one buffer is sent when none is in transit.  The *)
(* kernel handles it at once, message by message; the answers are queued.  *)
Flush ==
    /\ nl.transit = 0
    /\ nl.buffered # <<>>
    /\ LET n == IF PageRequests < Len(nl.buffered) THEN PageRequests ELSE Len(nl.buffered)
           batch == SubSeq(nl.buffered, 1, n)
       IN  \E errs \in [1..n -> {"OK", "ESRCH", "ENETUNREACH"}] :
             LET k[j \in 0..n] == IF j = 0 THEN kernel
                                  ELSE KernelApplies(k[j - 1], batch[j], errs[j])
             IN  /\ \A j \in 1..n : errs[j] \in KernelVerdicts(k[j - 1], batch[j])
                 /\ kernel' = k[n]
                 /\ nl' = [nl EXCEPT
                             !.buffered = SubSeq(@, n + 1, Len(@)),
                             !.answers = @ \o
                               [j \in 1..n |-> [dst |-> batch[j].dst, err |-> errs[j],
                                                wanted |-> batch[j].wanted]],
                             !.transit = n, !.timer = TRUE]
    /\ UNCHANGED <<want, computed, rt, table, trigger, ratelimit, stopped, feedback, failed, calm>>

(* _netlink_job_finished                                                   *)
JobFinished(n) ==
    LET left == IF n.transit > 0 THEN n.transit - 1 ELSE 0
    IN  [n EXCEPT !.transit = left, !.timer = @ /\ left > 0]

(* _netlink_handler reads one answer; _cb_rtnetlink_done and               *)
(* _cb_rtnetlink_error look for its route.                                 *)
ReadAnswer ==
    /\ nl.answers # <<>>
    /\ LET a == Head(nl.answers)
       IN  /\ nl' = JobFinished([nl EXCEPT !.answers = Tail(@)])
           /\ feedback' = IF a.wanted THEN feedback \ {a.dst} ELSE feedback
           /\ rt' = IF a.wanted THEN [rt EXCEPT ![a.dst] = RouteFinished(@, a.err)]
                    ELSE rt
    /\ UNCHANGED <<want, computed, table, trigger, ratelimit, stopped, kernel, failed, calm>>

(* The kernel drops an answer that does not fit in the socket's buffer.    *)
AnswerLost ==
    /\ ~Prompt
    /\ nl.answers # <<>>
    /\ nl' = [nl EXCEPT !.answers = Tail(@)]
    /\ UNCHANGED <<want, computed, rt, table, trigger, ratelimit, stopped, feedback,
                   kernel, failed, calm>>

(* _cb_handle_netlink_timeout with _cb_rtnetlink_timeout.  What is still   *)
(* buffered will be sent all the same.                                     *)
NetlinkTimeout ==
    /\ ~Prompt
    /\ nl.timer
    /\ Pending + Len(DestSeq) <= MaxPending
    /\ nl' = [Interrupt(nl, Dests) EXCEPT !.transit = 0, !.timer = FALSE]
    /\ feedback' = {}
    /\ rt' = [d \in Dests |-> IF d \in feedback THEN RouteFinished(rt[d], "INTR")
                              ELSE rt[d]]
    /\ UNCHANGED <<want, computed, table, trigger, ratelimit, stopped, kernel,
                   failed, calm>>
-----------------------------------------------------------------------------
(* History, for RoutesConverge: from here on the environment is calm.      *)
Calm ==
    /\ Prompt /\ ~calm
    /\ calm' = TRUE
    /\ UNCHANGED <<want, computed, rt, table, trigger, ratelimit, stopped, nl, feedback,
                   kernel, failed>>

Init ==
    /\ want = [d \in Dests |-> NoRoute]
    /\ computed = want
    /\ rt = [d \in Dests |-> Absent]
    /\ table \in Tables
    /\ trigger = FALSE
    /\ ratelimit = FALSE
    /\ stopped = FALSE
    /\ nl = [buffered |-> <<>>, answers |-> <<>>, transit |-> 0, timer |-> FALSE]
    /\ feedback = {}
    /\ kernel = [t \in Tables |-> [d \in Dests |-> NoRoute]]
    /\ failed = FALSE
    /\ calm = FALSE

Next ==
    \/ \E w \in Topologies : TopologyChange(w)
    \/ \E t \in Tables : SetDomainParameter(t)
    \/ TimerFires
    \/ Shutdown
    \/ Flush
    \/ ReadAnswer
    \/ AnswerLost
    \/ NetlinkTimeout
    \/ Calm

Spec == Init /\ [][Next]_vars

(* The main loop walks the timers and polls the sockets in every round.    *)
FairSpec == Spec /\ WF_vars(TimerFires) /\ WF_vars(Flush) /\ WF_vars(ReadAnswer)
-----------------------------------------------------------------------------
Param == [gw : Hops \cup {NoRoute}, table : Tables \cup {NoRoute}]

(* The shape of the state; an entry that is not in the tree is Absent, and *)
(* only one request for a destination is wanted at a time.                 *)
TypeOK ==
    /\ want \in [Dests -> Hops \cup {NoRoute}]
    /\ rt \in [Dests -> [present : BOOLEAN, set : BOOLEAN, in_processing : BOOLEAN,
                          p : Param, old : Param]]
    /\ \A d \in Dests : ~rt[d].present => rt[d] = Absent
    /\ kernel \in [Tables -> [Dests -> Hops \cup {NoRoute}]]
    /\ nl.transit \in Nat
    /\ feedback \subseteq Dests

(* The assert of os_routing_linux_set never fails: a route is not handed   *)
(* to the kernel a second time while its first request is open.            *)
NoAssertFails == ~failed

(* in_processing says that a request of the entry is open; only a shutdown *)
(* forgets requests without telling the entries.                           *)
ProcessingMeansFeedback ==
    \A d \in Dests : /\ d \in feedback => rt[d].in_processing
                     /\ rt[d].in_processing /\ ~stopped => d \in feedback

(* The feedback tree, through which the kernel's answers find their entry, *)
(* and the entries agree: no second request while one is open, which the   *)
(* assert of os_routing_linux_set is about, and in_processing as it says.  *)
FeedbackMatches == NoAssertFails /\ ProcessingMeansFeedback

(* A change of the topology is never forgotten: until a Dijkstra has seen  *)
(* it, the trigger is set and the rate limitation timer runs.              *)
NoLostTrigger == want # computed /\ ~stopped => trigger /\ ratelimit

Quiet == ~trigger /\ Pending = 0 /\ feedback = {}

(* When nothing is under way the kernel has exactly the routes of the last *)
(* Dijkstra, in the table of the domain, and none in a table used before.  *)
RoutesInstalled ==
    Quiet /\ ~stopped =>
        \A t \in Tables : \A d \in Dests :
            kernel[t][d] = IF t = table THEN want[d] ELSE NoRoute

(* "remove all routes": when the kernel has done all that was asked, only  *)
(* routes whose request was open at the shutdown are left (an interrupt    *)
(* without callback leaves in_processing, which bars the removal).         *)
RoutesRemoved ==
    stopped /\ Pending = 0 =>
        \A t \in Tables : \A d \in Dests :
            kernel[t][d] # NoRoute => rt[d].in_processing

(* With a prompt kernel, the kernel agrees with the routing entries, while *)
(* the router runs and after its shutdown.                                 *)
KernelAgrees == RoutesInstalled /\ RoutesRemoved

(* olsrv2_routing.c, 943 to 965: single-hop routes early, multi-hop routes *)
(* late, and the other way round for removals.  With a prompt kernel, a    *)
(* request for a route through a gateway to which the last Dijkstra has a  *)
(* direct route reaches the kernel when that direct route is there: all    *)
(* that is asked about the gateway before is to set it, and if nothing is, *)
(* the kernel has it.                                                      *)
GatewayFirst ==
    \A j \in DOMAIN nl.buffered :
      LET q == nl.buffered[j]
          before == {i \in 1 .. j - 1 : nl.buffered[i].dst = q.p.gw}
      IN  q.set /\ q.p.gw \in Gateways /\ computed[q.p.gw] = Direct =>
            /\ \A i \in before : /\ nl.buffered[i].set
                                 /\ nl.buffered[i].p = [gw |-> Direct, table |-> q.p.table]
            /\ before = {} => kernel[q.p.table][q.p.gw] = Direct

(* With a prompt kernel, once the topology is calm the kernel gets and     *)
(* keeps the routes of the topology, unless the router shuts down.         *)
RoutesConverge ==
    calm ~> [](stopped \/ \A t \in Tables : \A d \in Dests :
                  kernel[t][d] = IF t = table THEN want[d] ELSE NoRoute)
=============================================================================
