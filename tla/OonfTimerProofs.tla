-------------------------- MODULE OonfTimerProofs ---------------------------
(* Proofs about the timer scheduler, for any timers, classes, jitter,      *)
(* times and slice.                                                        *)
EXTENDS OonfTimer, TLAPS, FiniteSetTheorems

(* Division and remainder.                                                 *)
LEMMA DivMod == ASSUME NEW a \in Int, NEW n \in Nat, n > 0
                PROVE  /\ a \div n \in Int
                       /\ a % n \in 0 .. n - 1
                       /\ a = n * (a \div n) + (a % n)
OBVIOUS

(* A jitter of up to 100 percent does not reach behind the present.        *)
LEMMA JitterBound ==
    ASSUME NEW j \in 0 .. 100, NEW rel \in Nat
    PROVE  rel - ((j * rel) \div 100) \in Nat
  <1>1. j * rel \in Int /\ (100 - j) * rel \in Nat
    OBVIOUS
  <1>2. (100 - j) * rel = 100 * rel - j * rel
    OBVIOUS
  <1> DEFINE a == j * rel
  <1>3. a \in Int /\ a <= 100 * rel
    BY <1>1, <1>2
  <1> HIDE DEF a
  <1>4. /\ a \div 100 \in Int
        /\ 100 * (a \div 100) <= a
    <2> DEFINE n == 100
    <2>1. n \in Nat /\ n > 0
      OBVIOUS
    <2> HIDE DEF n
    <2>2. a \div n \in Int /\ a % n \in 0 .. n - 1 /\ a = n * (a \div n) + (a % n)
      BY <1>3, <2>1, DivMod
    <2>3. n * (a \div n) <= a
      BY <2>1, <2>2, <1>3
    <2> QED BY <2>2, <2>3 DEF n
  <1>5. a \div 100 <= rel
    BY <1>3, <1>4
  <1> QED BY <1>4, <1>5 DEF a

(* A timer that is started is due in the future.                           *)
LEMMA ClockAhead ==
    ASSUME phase \in 0 .. Slice - 1, NEW t \in Timers, NEW first \in Nat,
           NEW rel \in Delays(t, first)
    PROVE  CalcClock(rel) \in Int /\ CalcClock(rel) > 0
  <1>1. PICK j \in 0 .. Jitter[t] : rel = first - ((j * first) \div 100)
    BY DEF Delays
  <1>2. Jitter[t] \in 0 .. 100
    BY TimerAssumption
  <1>3. j \in 0 .. 100
    BY <1>1, <1>2
  <1>4. rel \in Nat
    BY <1>1, <1>3, JitterBound
  <1>5. phase + rel \in Int /\ Slice \in Nat /\ Slice > 0
    BY <1>4, TimerAssumption
  <1>6. (phase + rel) % Slice \in 0 .. Slice - 1
    BY <1>5, DivMod
  <1> QED BY <1>4, <1>5, <1>6 DEF CalcClock
-----------------------------------------------------------------------------
(* TypeOK but for usage, which UsageCounts describes.                      *)
Shape ==
    /\ phase \in 0 .. Slice - 1
    /\ alive \subseteq Timers /\ tree \subseteq Timers
    /\ asked \subseteq Timers /\ fired \subseteq Timers
    /\ registered \subseteq Classes
    /\ due \in [Timers -> Int]
    /\ period \in [Timers -> Nat]
    /\ incb \in [Classes -> Timers \cup {NoTimer}]
    /\ stopflag \in [Classes -> BOOLEAN]
    /\ pc \in {"wait", "handlers", "walk", "callback"}
    /\ running \in Timers \cup {NoTimer}
    /\ pc = "callback" => running \in Timers
    /\ calm \in BOOLEAN

(* oonf_timer_stop knows the timer whose callback runs.                    *)
KnowsRunning == pc = "callback" => incb[Class[running]] = running

(* A timer that fired in this walk and runs is not due again, except the   *)
(* periodic one whose callback has not returned.                           *)
NotDueAgain ==
    pc \in {"walk", "callback"} =>
        \A t \in fired \cap tree :
            \/ due[t] > 0
            \/ pc = "callback" /\ t = running /\ ~stopflag[Class[t]]

(* OncePerWalk needs NotDueAgain, which needs to know that a stopped timer *)
(* is marked as such.                                                      *)
Inv == Shape /\ TouchesOnlyLive /\ RunsAsAsked /\ KnowsRunning /\ NotDueAgain

(* What oonf_timer_start_ext does to the state.                            *)
LEMMA StartExtEffect ==
    ASSUME Shape, NEW t \in Timers, NEW first \in Nat, NEW interval \in Nat,
           StartExt(t, first, interval)
    PROVE  /\ tree' = tree \cup {t}
           /\ due' \in [Timers -> Int]
           /\ due'[t] > 0
           /\ \A u \in Timers \ {t} : due'[u] = due[u]
           /\ period' \in [Timers -> Nat]
           /\ incb' = incb /\ stopflag' = stopflag
  <1>1. PICK rel \in Delays(t, first) : due' = [due EXCEPT ![t] = CalcClock(rel)]
    BY DEF StartExt
  <1>2. CalcClock(rel) \in Int /\ CalcClock(rel) > 0
    BY ClockAhead DEF Shape
  <1>3. due' \in [Timers -> Int] /\ due'[t] > 0 /\ \A u \in Timers \ {t} : due'[u] = due[u]
    BY <1>1, <1>2 DEF Shape
  <1>4. period' \in [Timers -> Nat]
    BY DEF StartExt, Shape
  <1> QED BY <1>3, <1>4 DEF StartExt

(* What oonf_timer_stop does to the state.                                 *)
LEMMA StopEffect ==
    ASSUME Shape, NEW T \in SUBSET Timers, Stop(T)
    PROVE  /\ tree' = tree \ T
           /\ due' \in [Timers -> Int]
           /\ \A u \in Timers \ T : due'[u] = due[u]
           /\ period' = period /\ incb' = incb
           /\ stopflag' \in [Classes -> BOOLEAN]
           /\ \A c \in Classes : stopflag'[c] <=> (stopflag[c] \/ incb[c] \in T \cap tree)
  <1>1. due' = [t \in Timers |-> IF t \in T THEN 0 ELSE due[t]]
    BY DEF Stop
  <1>2. due' \in [Timers -> Int] /\ \A u \in Timers \ T : due'[u] = due[u]
    BY <1>1 DEF Shape
  <1>3. stopflag' = [c \in Classes |-> stopflag[c] \/ incb[c] \in T \cap tree]
    BY DEF Stop
  <1>4. stopflag' \in [Classes -> BOOLEAN]
    BY <1>3, Zenon DEF Shape
  <1>5. \A c \in Classes : stopflag'[c] <=> (stopflag[c] \/ incb[c] \in T \cap tree)
    BY <1>3, Zenon
  <1> QED BY <1>2, <1>4, <1>5 DEF Stop

(* An owner that stops timers, in whatever way.                            *)
LEMMA StoppingInv ==
    ASSUME Inv, NEW T \in SUBSET Timers, Stop(T),
           alive' \subseteq Timers, tree \ T \subseteq alive',
           asked' = asked \ T, registered' \subseteq Classes,
           UNCHANGED <<phase, pc, running, fired, calm>>
    PROVE  Inv'
  <1> USE DEF Inv
  <1>1. /\ tree' = tree \ T
        /\ due' \in [Timers -> Int]
        /\ \A u \in Timers \ T : due'[u] = due[u]
        /\ period' = period /\ incb' = incb
        /\ stopflag' \in [Classes -> BOOLEAN]
        /\ \A c \in Classes : stopflag'[c] <=> (stopflag[c] \/ incb[c] \in T \cap tree)
    BY StopEffect
  <1>2. Shape'
    BY <1>1 DEF Shape
  <1>3. RunsAsAsked' /\ KnowsRunning'
    BY <1>1 DEF RunsAsAsked, KnowsRunning
  <1>4. pc = "callback" => running \in Timers /\ Class[running] \in Classes
    BY TimerAssumption DEF Shape
  <1>5. TouchesOnlyLive'
    BY <1>1, <1>4 DEF TouchesOnlyLive, KnowsRunning
  <1>6. NotDueAgain'
    <2> SUFFICES ASSUME pc \in {"walk", "callback"}, NEW t \in fired \cap (tree \ T)
                 PROVE  \/ due'[t] > 0
                        \/ pc = "callback" /\ t = running /\ ~stopflag'[Class[t]]
      BY <1>1 DEF NotDueAgain
    <2>1. t \in Timers \ T /\ due'[t] = due[t]
      BY <1>1 DEF Shape
    <2>2. CASE due[t] > 0
      BY <2>1, <2>2
    <2>3. CASE pc = "callback" /\ t = running /\ ~stopflag[Class[t]]
      BY <1>1, <1>4, <2>1, <2>3 DEF KnowsRunning
    <2> QED BY <2>2, <2>3 DEF NotDueAgain
  <1> QED BY <1>2, <1>3, <1>5, <1>6

(* An owner that starts a timer, or a periodic timer that is started again.*)
LEMMA StartingInv ==
    ASSUME Inv, NEW t \in Timers, NEW first \in Nat, NEW interval \in Nat,
           StartExt(t, first, interval), t \in alive, asked' = asked \cup {t},
           \/ pc' = pc
           \/ pc = "callback" /\ pc' = "walk" /\ t = running,
           UNCHANGED <<phase, alive, registered, running, fired, calm>>
    PROVE  Inv'
  <1> USE DEF Inv
  <1>1. /\ tree' = tree \cup {t}
        /\ due' \in [Timers -> Int]
        /\ due'[t] > 0
        /\ \A u \in Timers \ {t} : due'[u] = due[u]
        /\ period' \in [Timers -> Nat]
        /\ incb' = incb /\ stopflag' = stopflag
    BY StartExtEffect
  <1>2. Shape'
    BY <1>1 DEF Shape
  <1>3. RunsAsAsked' /\ KnowsRunning' /\ TouchesOnlyLive'
    BY <1>1 DEF RunsAsAsked, KnowsRunning, TouchesOnlyLive
  <1>4. NotDueAgain'
    BY <1>1 DEF NotDueAgain, Shape
  <1> QED BY <1>2, <1>3, <1>4

(* The calls of the owners keep the invariant.                             *)
LEMMA OwnerInv == ASSUME Inv, OwnerStep PROVE Inv'
  <1>1. ASSUME NEW t \in Timers, NEW x \in Starts, OwnerStarts(t, x) PROVE Inv'
    <2>1. x[1] \in Nat /\ x[2] \in Nat
      BY TimerAssumption
    <2> QED BY <1>1, <2>1, StartingInv DEF OwnerStarts
  <1>2. ASSUME NEW t \in Timers, OwnerStops(t) PROVE Inv'
    <2>1. {t} \in SUBSET Timers /\ tree \ {t} \subseteq alive
      BY DEF Inv, TouchesOnlyLive
    <2> QED BY <1>2, <2>1, StoppingInv DEF OwnerStops, Inv, Shape
  <1>3. ASSUME NEW t \in Timers, OwnerFrees(t) PROVE Inv'
    <2>1. {t} \in SUBSET Timers /\ tree \ {t} \subseteq alive \ {t}
      BY DEF Inv, TouchesOnlyLive
    <2> QED BY <1>3, <2>1, StoppingInv DEF OwnerFrees, Inv, Shape
  <1>4. ASSUME NEW t \in Timers, OwnerAllocates(t) PROVE Inv'
    BY <1>4 DEF OwnerAllocates, Inv, Shape, TouchesOnlyLive, RunsAsAsked, KnowsRunning,
                NotDueAgain
  <1>5. ASSUME NEW c \in Classes, ClassAdd(c) PROVE Inv'
    BY <1>5 DEF ClassAdd, timervars, Inv, Shape, TouchesOnlyLive, RunsAsAsked,
                KnowsRunning, NotDueAgain
  <1>6. ASSUME NEW c \in Classes, ClassRemove(c) PROVE Inv'
    <2> DEFINE T == {t \in tree : Class[t] = c}
    <2>1. T \in SUBSET Timers /\ tree \ T \subseteq alive
      BY DEF Inv, Shape, TouchesOnlyLive
    <2>2. /\ Stop(T) /\ asked' = asked \ T
          /\ registered' \subseteq Classes
          /\ alive' = alive /\ alive \subseteq Timers
          /\ UNCHANGED <<phase, pc, running, fired, calm>>
      BY <1>6 DEF ClassRemove, Inv, Shape
    <2> HIDE DEF T
    <2> QED BY <2>1, <2>2, StoppingInv
  <1> QED BY <1>1, <1>2, <1>3, <1>4, <1>5, <1>6 DEF OwnerStep

(* Time passes outside the walk only.                                      *)
LEMMA ClockInv ==
    ASSUME Inv, NEW step \in 0 .. MaxStep, Wake(step) \/ WalkBegins(step)
    PROVE  Inv'
  <1>1. ClockUpdate(step)
    BY DEF Wake, WalkBegins
  <1>2. phase' \in 0 .. Slice - 1
    BY <1>1, TimerAssumption, DivMod DEF ClockUpdate, Inv, Shape
  <1>3. due' \in [Timers -> Int]
    BY <1>1, TimerAssumption DEF ClockUpdate, Inv, Shape
  <1>4. Shape'
    BY <1>1, <1>2, <1>3 DEF ClockUpdate, Wake, WalkBegins, Inv, Shape
  <1>5. TouchesOnlyLive' /\ RunsAsAsked' /\ KnowsRunning'
    BY <1>1 DEF ClockUpdate, Wake, WalkBegins, Inv, TouchesOnlyLive, RunsAsAsked, KnowsRunning
  <1>6. NotDueAgain'
    BY DEF Wake, WalkBegins, NotDueAgain
  <1> QED BY <1>4, <1>5, <1>6 DEF Inv

(* A timer fires; in "walk" no timer that fired is due.                    *)
LEMMA FireInv == ASSUME Inv, NEW t \in Timers, WalkFires(t) PROVE Inv'
  <1>1. t \in tree /\ Class[t] \in Classes
    BY TimerAssumption DEF WalkFires, First
  <1>2. Shape'
    BY <1>1 DEF Inv, Shape, WalkFires, Fire
  <1>3. /\ tree' = IF period[t] = 0 THEN tree \ {t} ELSE tree
        /\ asked' = IF period[t] = 0 THEN asked \ {t} ELSE asked
        /\ pc' = "callback" /\ running' = t /\ alive' = alive
        /\ stopflag'[Class[t]] <=> period[t] = 0
        /\ incb'[Class[t]] = t
        /\ \A u \in Timers \ {t} : due'[u] = due[u]
        /\ due'[t] = IF period[t] = 0 THEN 0 ELSE due[t]
        /\ fired' = fired \cup {t}
    BY <1>1 DEF Inv, Shape, RunsAsAsked, WalkFires, Fire
  <1>4. TouchesOnlyLive' /\ RunsAsAsked' /\ KnowsRunning'
    BY <1>1, <1>3 DEF Inv, TouchesOnlyLive, RunsAsAsked, KnowsRunning
  <1>5. \A u \in fired \cap tree : due[u] > 0
    BY DEF Inv, NotDueAgain, WalkFires
  <1>6. NotDueAgain'
    BY <1>1, <1>3, <1>5 DEF Inv, Shape, NotDueAgain
  <1> QED BY <1>2, <1>4, <1>6 DEF Inv

(* A callback returns.                                                     *)
LEMMA ReturnInv == ASSUME Inv, CallbackReturns PROVE Inv'
  <1>1. CASE stopflag[Class[running]]
    BY <1>1 DEF CallbackReturns, timervars, Inv, Shape, TouchesOnlyLive, RunsAsAsked,
                KnowsRunning, NotDueAgain
  <1>2. CASE ~stopflag[Class[running]]
    <2>1. /\ running \in Timers /\ running \in tree /\ running \in alive
          /\ period[running] \in Nat
          /\ asked' = asked \cup {running}
      BY <1>2 DEF CallbackReturns, Inv, Shape, TouchesOnlyLive, RunsAsAsked
    <2>2. /\ StartExt(running, period[running], period[running])
          /\ pc = "callback" /\ pc' = "walk"
          /\ UNCHANGED <<phase, alive, registered, running, fired, calm>>
      BY <1>2 DEF CallbackReturns
    <2> QED BY <2>1, <2>2, StartingInv
  <1> QED BY <1>1, <1>2

(* The invariant holds initially.                                          *)
LEMMA InitInv == Init => Inv
  <1> SUFFICES ASSUME Init PROVE Inv
    OBVIOUS
  <1>1. stopflag \in [Classes -> BOOLEAN]
    BY DEF Init
  <1>2. Shape
    <2>1. due \in [Timers -> Int] /\ period \in [Timers -> Nat]
      BY DEF Init
    <2>2. incb \in [Classes -> Timers \cup {NoTimer}]
      BY DEF Init
    <2> QED BY <1>1, <2>1, <2>2 DEF Init, Shape
  <1>3. TouchesOnlyLive /\ RunsAsAsked /\ KnowsRunning /\ NotDueAgain
    BY DEF Init, TouchesOnlyLive, RunsAsAsked, KnowsRunning, NotDueAgain
  <1> QED BY <1>2, <1>3 DEF Inv

(* Every step keeps the invariant.                                         *)
LEMMA NextInv == ASSUME Inv, [Next]_vars PROVE Inv'
  <1>1. CASE WalkEnds
    BY <1>1 DEF WalkEnds, timervars, Inv, Shape, TouchesOnlyLive, RunsAsAsked,
                KnowsRunning, NotDueAgain
  <1>2. CASE Calm
    BY <1>2 DEF Calm, timervars, Inv, Shape, TouchesOnlyLive, RunsAsAsked,
                KnowsRunning, NotDueAgain
  <1>3. CASE UNCHANGED vars
    BY <1>3 DEF vars, timervars, Inv, Shape, TouchesOnlyLive, RunsAsAsked,
                KnowsRunning, NotDueAgain
  <1> QED BY <1>1, <1>2, <1>3, OwnerInv, ClockInv, FireInv, ReturnInv
             DEF Next, SchedulerStep

(* The invariant always holds.                                             *)
LEMMA InvAlways == Spec => []Inv
  <1>1. Inv /\ [Next]_vars => Inv'
    BY NextInv
  <1> QED BY <1>1, InitInv, PTL DEF Spec
-----------------------------------------------------------------------------
(* oonf_timer_walk never touches a timer that its callback stopped or      *)
(* freed, whatever calls the callback made.                                *)
THEOREM OnlyLiveTouched == Spec => []TouchesOnlyLive
  <1>1. Inv => TouchesOnlyLive
    BY DEF Inv
  <1> QED BY <1>1, InvAlways, PTL

(* The tree holds exactly the timers that owners want to run.              *)
THEOREM AlwaysAsAsked == Spec => []RunsAsAsked
  <1>1. Inv => RunsAsAsked
    BY DEF Inv
  <1> QED BY <1>1, InvAlways, PTL

(* No timer fires twice in a walk, whatever times it is started with.      *)
THEOREM FiresOncePerWalk == Spec => OncePerWalk
  <1>1. Inv /\ [Next]_vars => [\A t \in Timers : WalkFires(t) => t \notin fired]_vars
    <2> SUFFICES ASSUME Inv, NEW t \in Timers, WalkFires(t)
                 PROVE  t \notin fired
      OBVIOUS
    <2>1. t \in tree /\ due[t] \in Int /\ due[t] <= 0 /\ pc = "walk"
      BY DEF Inv, Shape, WalkFires, First
    <2> QED BY <2>1 DEF Inv, NotDueAgain
  <1> QED BY <1>1, InvAlways, PTL DEF Spec, OncePerWalk
-----------------------------------------------------------------------------
(* The running timers of a class, and the counter of the class.            *)
Of(S, c) == {t \in S : Class[t] = c}
Usage == usage \in [Classes -> Nat] /\ UsageCounts

(* Sets of timers are finite, and so their numbers are.                    *)
LEMMA OfFinite == ASSUME NEW S \in SUBSET Timers, NEW c
                  PROVE  IsFiniteSet(Of(S, c)) /\ Cardinality(Of(S, c)) \in Nat
  <1>1. Of(S, c) \in SUBSET Timers /\ IsFiniteSet(Timers)
    BY TimerAssumption DEF Of
  <1>2. IsFiniteSet(Of(S, c))
    BY <1>1, FS_Subset
  <1> QED BY <1>2, FS_CardinalityType

(* A start counts a timer that did not run.                                *)
LEMMA StartUsage ==
    ASSUME Shape, Usage, NEW t \in Timers, NEW first, NEW interval,
           StartExt(t, first, interval)
    PROVE  Usage'
  <1>1. tree' = tree \cup {t} /\ tree \subseteq Timers /\ Class[t] \in Classes
    BY TimerAssumption DEF StartExt, Shape
  <1>2. CASE t \in tree
    <2>1. tree' = tree /\ usage' = usage
      BY <1>1, <1>2 DEF StartExt
    <2> QED BY <2>1 DEF Usage, UsageCounts
  <1>3. CASE t \notin tree
    <2>1. usage' = [usage EXCEPT ![Class[t]] = @ + 1]
      BY <1>3 DEF StartExt
    <2>2. usage' \in [Classes -> Nat]
      BY <1>1, <2>1 DEF Usage
    <2>3. ASSUME NEW c \in Classes PROVE usage'[c] = Cardinality(Of(tree', c))
      <3>1. usage[c] = Cardinality(Of(tree, c))
        BY DEF Usage, UsageCounts, Of
      <3>2. CASE c = Class[t]
        <4>1. Of(tree', c) = Of(tree, c) \cup {t} /\ t \notin Of(tree, c)
          BY <1>1, <1>3, <3>2 DEF Of
        <4>2. Cardinality(Of(tree, c) \cup {t}) = Cardinality(Of(tree, c)) + 1
          BY <1>1, <4>1, OfFinite, FS_AddElement
        <4> QED BY <2>1, <3>1, <3>2, <4>1, <4>2 DEF Usage
      <3>3. CASE c # Class[t]
        <4>1. Of(tree', c) = Of(tree, c)
          BY <1>1, <3>3 DEF Of
        <4> QED BY <2>1, <3>1, <3>3, <4>1 DEF Usage
      <3> QED BY <3>2, <3>3
    <2> QED BY <2>2, <2>3 DEF Usage, UsageCounts, Of
  <1> QED BY <1>2, <1>3

(* A stop takes away the timers that ran.                                  *)
LEMMA StopUsage ==
    ASSUME Shape, Usage, NEW T \in SUBSET Timers,
           tree' = tree \ T,
           usage' = [c \in Classes |-> usage[c] - Cardinality({t \in T \cap tree : Class[t] = c})]
    PROVE  Usage'
  <1>1. ASSUME NEW c \in Classes
        PROVE  usage'[c] = Cardinality(Of(tree', c)) /\ usage'[c] \in Nat
    <2>1. IsFiniteSet(Of(tree, c))
      BY OfFinite DEF Shape
    <2>2. Cardinality(Of(tree, c) \ T) =
            Cardinality(Of(tree, c)) - Cardinality(Of(tree, c) \cap T)
      BY <2>1, FS_Difference
    <2>3. Of(tree', c) = Of(tree, c) \ T
      BY DEF Of
    <2>4. Of(tree, c) \cap T = {t \in T \cap tree : Class[t] = c}
      BY DEF Of
    <2>5. usage[c] = Cardinality(Of(tree, c))
      BY DEF Usage, UsageCounts, Of
    <2>6. tree' \in SUBSET Timers
      BY DEF Shape
    <2>7. Cardinality(Of(tree', c)) \in Nat
      BY <2>6, OfFinite
    <2> QED BY <2>2, <2>3, <2>4, <2>5, <2>7
  <1>2. usage' \in [Classes -> Nat]
    BY <1>1
  <1> QED BY <1>1, <1>2 DEF Usage, UsageCounts, Of

(* A one-shot timer that fires is taken away, too.                         *)
LEMMA FireUsage ==
    ASSUME Shape, Usage, NEW t \in tree, Fire(t)
    PROVE  Usage'
  <1>1. CASE period[t] # 0
    BY <1>1 DEF Fire, Usage, UsageCounts
  <1>2. CASE period[t] = 0
    <2>1. tree' = tree \ {t} /\ usage' = [usage EXCEPT ![Class[t]] = @ - 1]
      BY <1>2 DEF Fire
    <2>2. t \in Timers /\ Class[t] \in Classes
      BY TimerAssumption DEF Shape
    <2>3. ASSUME NEW c \in Classes
          PROVE  usage'[c] = usage[c] - Cardinality({u \in {t} \cap tree : Class[u] = c})
      <3>1. CASE c = Class[t]
        <4>1. {u \in {t} \cap tree : Class[u] = c} = {t}
          BY <3>1
        <4> QED BY <2>1, <2>2, <3>1, <4>1, FS_Singleton DEF Usage
      <3>2. CASE c # Class[t]
        <4>1. {u \in {t} \cap tree : Class[u] = c} = {}
          BY <3>2
        <4>2. Cardinality({}) = 0
          BY FS_EmptySet
        <4>3. usage'[c] = usage[c] /\ usage[c] \in Nat
          BY <2>1, <3>2 DEF Usage
        <4> QED BY <4>1, <4>2, <4>3
      <3> QED BY <3>1, <3>2
    <2>4. usage' = [c \in Classes |->
                      usage[c] - Cardinality({u \in {t} \cap tree : Class[u] = c})]
      <3>1. usage' = [c \in Classes |-> usage'[c]]
        BY <2>1 DEF Usage
      <3> QED BY <3>1, <2>3, Zenon
    <2> DEFINE T == {t}
    <2>5. /\ T \in SUBSET Timers
          /\ tree' = tree \ T
          /\ usage' = [c \in Classes |->
                         usage[c] - Cardinality({u \in T \cap tree : Class[u] = c})]
      BY <2>1, <2>2, <2>4
    <2> HIDE DEF T
    <2> QED BY <2>5, StopUsage
  <1> QED BY <1>1, <1>2

(* Every step keeps the counters.                                          *)
LEMMA NextUsage == ASSUME Inv, Usage, [Next]_vars PROVE Usage'
  <1> USE DEF Inv
  <1>1. ASSUME NEW T \in SUBSET Timers, Stop(T) PROVE Usage'
    BY <1>1, StopUsage DEF Stop
  <1>2. CASE OwnerStep
    <2>1. ASSUME NEW t \in Timers, NEW x \in Starts, OwnerStarts(t, x) PROVE Usage'
      BY <2>1, StartUsage DEF OwnerStarts
    <2>2. ASSUME NEW t \in Timers, OwnerStops(t) \/ OwnerFrees(t) PROVE Usage'
      BY <2>2, <1>1 DEF OwnerStops, OwnerFrees
    <2>3. ASSUME NEW t \in Timers, OwnerAllocates(t) PROVE Usage'
      BY <2>3 DEF OwnerAllocates, Usage, UsageCounts
    <2>4. ASSUME NEW c \in Classes, ClassAdd(c) PROVE Usage'
      BY <2>4 DEF ClassAdd, timervars, Usage, UsageCounts
    <2>5. ASSUME NEW c \in Classes, ClassRemove(c) PROVE Usage'
      <3>1. {t \in tree : Class[t] = c} \in SUBSET Timers
        BY DEF Shape
      <3> QED BY <2>5, <3>1, <1>1 DEF ClassRemove
    <2> QED BY <1>2, <2>1, <2>2, <2>3, <2>4, <2>5 DEF OwnerStep
  <1>3. ASSUME NEW step \in 0 .. MaxStep, WalkBegins(step) \/ Wake(step) PROVE Usage'
    BY <1>3 DEF WalkBegins, Wake, ClockUpdate, Usage, UsageCounts
  <1>4. ASSUME NEW t \in Timers, WalkFires(t) PROVE Usage'
    BY <1>4, FireUsage DEF WalkFires, First
  <1>5. CASE CallbackReturns
    <2>1. running \in Timers
      BY <1>5 DEF CallbackReturns, Shape
    <2>2. CASE stopflag[Class[running]]
      BY <1>5, <2>2 DEF CallbackReturns, timervars, Usage, UsageCounts
    <2>3. CASE ~stopflag[Class[running]]
      BY <1>5, <2>1, <2>3, StartUsage DEF CallbackReturns
    <2> QED BY <2>2, <2>3
  <1>6. CASE WalkEnds \/ Calm \/ UNCHANGED vars
    BY <1>6 DEF WalkEnds, Calm, vars, timervars, Usage, UsageCounts
  <1> QED BY <1>2, <1>3, <1>4, <1>5, <1>6 DEF Next, SchedulerStep

(* The counters are right initially.                                       *)
LEMMA InitUsage == Init => Usage
  <1>1. Cardinality({}) = 0
    BY FS_EmptySet
  <1>2. Init => \A c \in Classes : {t \in tree : Class[t] = c} = {}
    BY DEF Init
  <1>3. Init => usage \in [Classes -> Nat] /\ \A c \in Classes : usage[c] = 0
    BY DEF Init
  <1> QED BY <1>1, <1>2, <1>3 DEF Usage, UsageCounts

(* The counter of a class is the number of its running timers, whatever    *)
(* the order of starts, stops and fires.                                   *)
THEOREM UsageIsExact == Spec => []UsageCounts
  <1>1. Inv /\ Usage /\ [Next]_vars => Usage'
    BY NextUsage
  <1>2. Usage => UsageCounts
    BY DEF Usage
  <1> QED BY <1>1, <1>2, InitUsage, InvAlways, PTL DEF Spec

(* Type correctness; usage, an unsigned number, never wraps.               *)
THEOREM TypeCorrect == Spec => []TypeOK
  <1>1. Inv /\ Usage /\ [Next]_vars => Usage'
    BY NextUsage
  <1>2. Inv /\ Usage => TypeOK
    BY DEF Inv, Shape, Usage, TypeOK
  <1> QED BY <1>1, <1>2, InitUsage, InvAlways, PTL DEF Spec
=============================================================================
