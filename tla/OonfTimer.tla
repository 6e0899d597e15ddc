----------------------------- MODULE OonfTimer ------------------------------
(***************************************************************************)
(* The timer scheduler (oonf_timer.c) inside the loop of _handle_scheduling*)
(* (oonf_socket.c): wait for events, run socket handlers, walk the timers. *)
(*                                                                         *)
(* A timer is an object that its owner allocates, starts, stops and frees, *)
(* from a socket handler or from the callback of any timer, its own        *)
(* included.  A callback is a sequence of such calls that ends with        *)
(* CallbackReturns.  Times are relative: due is _clock minus now, and      *)
(* phase is now modulo the time slice.  _clock is never 0 for a started    *)
(* timer, so "_clock != 0" is membership in the tree.                      *)
(***************************************************************************)
EXTENDS Integers, FiniteSets

CONSTANTS
    Timers,        \* timer objects
    Classes,       \* timer classes
    Class,         \* timer to class
    Periodic,      \* the classes of periodic timers
    Jitter,        \* timer to jitter_pct
    Starts,        \* pairs of first and interval that owners start timers with
    Slice,         \* OONF_TIMER_SLICE
    MaxStep        \* bound: time that passes between two readings of the clock

NoTimer == "none"

ASSUME TimerAssumption ==
    /\ IsFiniteSet(Timers)
    /\ NoTimer \notin Timers
    /\ Class \in [Timers -> Classes]
    /\ Periodic \subseteq Classes
    /\ Jitter \in [Timers -> 0 .. 100]
    /\ Starts \subseteq Nat \X Nat
    /\ Slice \in Nat \ {0}
    /\ MaxStep \in Nat \ {0}

VARIABLES
    phase,         \* oonf_clock_getNow() modulo Slice
    alive,         \* the timers that are allocated
    registered,    \* _timer_info_list
    tree,          \* _timer_tree: the timers that run
    due,           \* _clock - now for the timers in the tree, 0 for others
    period,        \* _period
    usage,         \* usage of a class
    incb,          \* _timer_in_callback of a class; it is never reset
    stopflag,      \* _timer_stopped of a class
    pc,            \* "wait", "handlers", "walk" (head of the loop), "callback"
    running,       \* the timer whose callback runs, last one otherwise
    asked,         \* history: the timers that should run
    fired,         \* history: the timers that fired in this walk
    calm           \* history: owners make no more calls

timervars == <<tree, due, period, usage, incb, stopflag>>
vars == <<phase, alive, registered, timervars, pc, running, asked, fired, calm>>
-----------------------------------------------------------------------------
(* _calc_clock: the jitter takes up to jitter_pct percent away, the result *)
(* is rounded up to the next slice, always into the future.  The cache for *)
(* the random number is left out: any jitter may come.                     *)
Delays(t, rel) == {rel - ((j * rel) \div 100) : j \in 0 .. Jitter[t]}
CalcClockDown(rel) == rel - ((phase + rel) % Slice)     \* mutant: rounded down
CalcClock(rel) == rel + Slice - ((phase + rel) % Slice)

(* Mutant: a restart counts as a new user of the class.                    *)
StartExtCounts(t, first, interval) ==
    /\ \E rel \in Delays(t, first) : due' = [due EXCEPT ![t] = CalcClock(rel)]
    /\ period' = [period EXCEPT ![t] = IF Class[t] \in Periodic THEN interval ELSE 0]
    /\ tree' = tree \cup {t}
    /\ usage' = [usage EXCEPT ![Class[t]] = @ + 1]
    /\ UNCHANGED <<incb, stopflag>>

(* oonf_timer_start_ext                                                    *)
StartExt(t, first, interval) ==
    /\ \E rel \in Delays(t, first) : due' = [due EXCEPT ![t] = CalcClock(rel)]
    /\ period' = [period EXCEPT ![t] = IF Class[t] \in Periodic THEN interval ELSE 0]
    /\ tree' = tree \cup {t}
    /\ usage' = IF t \in tree THEN usage ELSE [usage EXCEPT ![Class[t]] = @ + 1]
    /\ UNCHANGED <<incb, stopflag>>

(* Mutants: a timer that does not run is taken from usage; the scheduler   *)
(* is not told.                                                            *)
StopAlways(T) ==
    /\ tree' = tree \ T
    /\ due' = [t \in Timers |-> IF t \in T THEN 0 ELSE due[t]]
    /\ usage' = [c \in Classes |-> usage[c] - Cardinality({t \in T : Class[t] = c})]
    /\ stopflag' = [c \in Classes |-> stopflag[c] \/ incb[c] \in T]
    /\ UNCHANGED <<period, incb>>
StopQuietly(T) ==
    /\ tree' = tree \ T
    /\ due' = [t \in Timers |-> IF t \in T THEN 0 ELSE due[t]]
    /\ usage' = [c \in Classes |->
                   usage[c] - Cardinality({t \in T \cap tree : Class[t] = c})]
    /\ UNCHANGED <<period, incb, stopflag>>

(* oonf_timer_stop for each of the timers T; one that does not run is left *)
(* alone.                                                                  *)
Stop(T) ==
    /\ tree' = tree \ T
    /\ due' = [t \in Timers |-> IF t \in T THEN 0 ELSE due[t]]
    /\ usage' = [c \in Classes |->
                   usage[c] - Cardinality({t \in T \cap tree : Class[t] = c})]
    /\ stopflag' = [c \in Classes |-> stopflag[c] \/ incb[c] \in T \cap tree]
    /\ UNCHANGED <<period, incb>>
-----------------------------------------------------------------------------
(* Calls of the owners.                                                    *)
OwnerRuns == ~calm /\ pc \in {"handlers", "callback"}

OwnerStarts(t, s) ==
    /\ OwnerRuns
    /\ t \in alive /\ Class[t] \in registered
    /\ StartExt(t, s[1], s[2])
    /\ asked' = asked \cup {t}
    /\ UNCHANGED <<phase, alive, registered, pc, running, fired, calm>>

(* oonf_timer_stop, or oonf_timer_set with time 0                          *)
OwnerStops(t) ==
    /\ OwnerRuns
    /\ t \in alive
    /\ Stop({t})
    /\ asked' = asked \ {t}
    /\ UNCHANGED <<phase, alive, registered, pc, running, fired, calm>>

(* An object is removed: its timer is stopped and its memory freed.        *)
OwnerFrees(t) ==
    /\ OwnerRuns
    /\ t \in alive
    /\ Stop({t})
    /\ alive' = alive \ {t}
    /\ asked' = asked \ {t}
    /\ UNCHANGED <<phase, registered, pc, running, fired, calm>>

(* A new object, maybe where an old one was.                               *)
OwnerAllocates(t) ==
    /\ OwnerRuns
    /\ t \notin alive
    /\ alive' = alive \cup {t}
    /\ period' = [period EXCEPT ![t] = 0]
    /\ UNCHANGED <<phase, registered, tree, due, usage, incb, stopflag, pc, running,
                   asked, fired, calm>>

(* oonf_timer_add                                                          *)
ClassAdd(c) ==
    /\ OwnerRuns
    /\ c \notin registered
    /\ registered' = registered \cup {c}
    /\ UNCHANGED <<phase, alive, timervars, pc, running, asked, fired, calm>>

(* oonf_timer_remove                                                       *)
ClassRemove(c) ==
    /\ OwnerRuns
    /\ c \in registered
    /\ registered' = registered \ {c}
    /\ LET T == {t \in tree : Class[t] = c}
       IN  Stop(T) /\ asked' = asked \ T
    /\ UNCHANGED <<phase, alive, pc, running, fired, calm>>

Calm ==
    /\ ~calm
    /\ calm' = TRUE
    /\ UNCHANGED <<phase, alive, registered, timervars, pc, running, asked, fired>>
-----------------------------------------------------------------------------
(* oonf_clock_update                                                       *)
ClockUpdate(step) ==
    /\ phase' = (phase + step) % Slice
    /\ due' = [t \in Timers |-> IF t \in tree THEN due[t] - step ELSE due[t]]
    /\ UNCHANGED <<alive, registered, tree, period, usage, incb, stopflag, running,
                   asked, calm>>

(* os_fd_event_wait returns, with events or without.                       *)
Wake(step) ==
    /\ pc = "wait"
    /\ pc' = "handlers"
    /\ ClockUpdate(step)
    /\ UNCHANGED fired

(* The handlers are done, the loop starts again with oonf_timer_walk.      *)
WalkBegins(step) ==
    /\ pc = "handlers"
    /\ pc' = "walk"
    /\ ClockUpdate(step)
    /\ fired' = {}

(* The first element of the tree; equal ones come in any order.            *)
First(t) == t \in tree /\ \A u \in tree : due[t] <= due[u]

(* A timer that is due: a one-shot timer is stopped before its callback.   *)
Fire(t) ==
    /\ incb' = [incb EXCEPT ![Class[t]] = t]
    /\ stopflag' = [stopflag EXCEPT ![Class[t]] = period[t] = 0]
    /\ IF period[t] = 0
       THEN /\ tree' = tree \ {t}
            /\ due' = [due EXCEPT ![t] = 0]
            /\ usage' = [usage EXCEPT ![Class[t]] = @ - 1]
            /\ asked' = asked \ {t}
       ELSE UNCHANGED <<tree, due, usage, asked>>
    /\ UNCHANGED period

WalkFires(t) ==
    /\ pc = "walk"
    /\ First(t)
    /\ due[t] <= 0
    /\ Fire(t)
    /\ pc' = "callback"
    /\ running' = t
    /\ fired' = fired \cup {t}
    /\ UNCHANGED <<phase, alive, registered, calm>>

(* Mutants: any timer, or no timer is started again.                       *)
CallbackReturnsAlways ==
    /\ pc = "callback"
    /\ pc' = "walk"
    /\ StartExt(running, period[running], period[running])
    /\ UNCHANGED <<phase, alive, registered, running, asked, fired, calm>>
CallbackReturnsNoRestart ==
    /\ pc = "callback"
    /\ pc' = "walk"
    /\ UNCHANGED <<phase, alive, registered, timervars, running, asked, fired, calm>>

(* After the callback a timer that was not stopped is started again.       *)
CallbackReturns ==
    /\ pc = "callback"
    /\ pc' = "walk"
    /\ IF stopflag[Class[running]] THEN UNCHANGED timervars
       ELSE StartExt(running, period[running], period[running])
    /\ UNCHANGED <<phase, alive, registered, running, asked, fired, calm>>

WalkEnds ==
    /\ pc = "walk"
    /\ \A t \in tree : First(t) => due[t] > 0
    /\ pc' = "wait"
    /\ UNCHANGED <<phase, alive, registered, timervars, running, asked, fired, calm>>
-----------------------------------------------------------------------------
Init ==
    /\ phase \in 0 .. Slice - 1
    /\ alive = {}
    /\ registered = Classes
    /\ tree = {}
    /\ due = [t \in Timers |-> 0]
    /\ period = [t \in Timers |-> 0]
    /\ usage = [c \in Classes |-> 0]
    /\ incb = [c \in Classes |-> NoTimer]
    /\ stopflag = [c \in Classes |-> FALSE]
    /\ pc = "handlers"
    /\ running = NoTimer
    /\ asked = {}
    /\ fired = {}
    /\ calm = FALSE

OwnerStep ==
    \/ \E t \in Timers : \/ \E s \in Starts : OwnerStarts(t, s)
                         \/ OwnerStops(t)
                         \/ OwnerFrees(t)
                         \/ OwnerAllocates(t)
    \/ \E c \in Classes : ClassAdd(c) \/ ClassRemove(c)

SchedulerStep ==
    \/ \E step \in 0 .. MaxStep : WalkBegins(step)
    \/ \E t \in Timers : WalkFires(t)
    \/ CallbackReturns
    \/ WalkEnds

Next ==
    \/ OwnerStep
    \/ SchedulerStep
    \/ \E step \in 0 .. MaxStep : Wake(step)
    \/ Calm

Spec == Init /\ [][Next]_vars

(* The loop goes on (a handler or callback returns), and time with it.     *)
FairSpec ==
    /\ Spec
    /\ WF_vars(SchedulerStep)
    /\ WF_vars(\E step \in 0 .. MaxStep : Wake(step))
    /\ SF_vars(\E step \in 1 .. MaxStep : Wake(step))
-----------------------------------------------------------------------------
(* The state keeps its types; the unsigned usage does not wrap.            *)
TypeOK ==
    /\ phase \in 0 .. Slice - 1
    /\ {alive, tree, asked, fired} \subseteq SUBSET Timers
    /\ registered \subseteq Classes
    /\ due \in [Timers -> Int]
    /\ period \in [Timers -> Nat]
    /\ usage \in [Classes -> Nat]
    /\ incb \in [Classes -> Timers \cup {NoTimer}]
    /\ stopflag \in [Classes -> BOOLEAN]
    /\ pc \in {"wait", "handlers", "walk", "callback"}
    /\ running \in Timers \cup {NoTimer}
    /\ pc = "callback" => running \in Timers
    /\ calm \in BOOLEAN

(* No freed timer is touched: the tree holds only allocated ones, and a    *)
(* timer that oonf_timer_walk starts again after its callback was neither  *)
(* stopped nor freed by it, also when the memory is in use again.          *)
TouchesOnlyLive ==
    /\ tree \subseteq alive
    /\ pc = "callback" /\ ~stopflag[Class[running]] => running \in tree

(* A timer runs if and only if it should: it was started, and since then   *)
(* not stopped, and a one-shot timer has not fired.  Whatever a callback   *)
(* does to its own timer is what counts after it has returned.             *)
RunsAsAsked == tree = asked

(* usage is the number of running timers of a class.                       *)
UsageCounts ==
    \A c \in Classes : usage[c] = Cardinality({t \in tree : Class[t] = c})

(* A timer fires at most once in a walk, even if callbacks start it again  *)
(* with time 0: a walk cannot run in circles.                              *)
OncePerWalk ==
    [][\A t \in Timers : WalkFires(t) => t \notin fired]_vars

(* A timer that is left running fires, a periodic one again and again.     *)
TimersFire ==
    \A t \in Timers :
        <>[](calm /\ t \in asked) => []<>(pc = "callback" /\ running = t)
=============================================================================
