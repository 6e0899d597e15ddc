------------------------- MODULE DuplicateSetProofs -------------------------
(* Proofs about the duplicate set, for every window, sequence number width *)
(* and number of originators.                                              *)
EXTENDS DuplicateSet, TLAPS

(* The sequence number space and its bounds are positive numbers.          *)
LEMMA SpaceFacts ==
    /\ SeqSpace \in Nat /\ SeqSpace > 0 /\ Limit \in Nat
    /\ SeqSpace = 2 * Limit + 2 /\ Window - 1 <= Limit
    /\ Window \in Nat /\ Window > 0
BY DupSetAssumption DEF SeqSpace, Limit

(* A message number on the wire fits the space.                            *)
LEMMA WireType == ASSUME NEW m \in Nat PROVE Wire(m) \in 0 .. SeqSpace - 1
BY SpaceFacts DEF Wire

(* Division and remainder.                                                 *)
LEMMA DivMod == ASSUME NEW a \in Int, NEW s \in Nat, s > 0
                PROVE a \div s \in Int /\ a % s \in 0 .. s-1 /\ a = s * (a \div s) + (a % s)
OBVIOUS

(* Multiplication distributes over differences.                            *)
LEMMA Distributive == ASSUME NEW s \in Int, NEW a \in Int, NEW b \in Int
                      PROVE  s * (a - b) = s * a - s * b
OBVIOUS

(* A multiple of s that is moved by less than s has a small factor.        *)
LEMMA Unique == ASSUME NEW s \in Nat, s > 0, NEW q \in Int, NEW r \in Int,
                       s * q + r < s, s * q + r > -s, r < s, r > -s
                PROVE q \in {-1, 0, 1}
  <1>1. s * q < 2 * s /\ s * q > -(2*s)
    OBVIOUS
  <1>2. q < 2
    <2>1. SUFFICES ASSUME q >= 2 PROVE FALSE OBVIOUS
    <2>2. s * q >= s * 2 BY <2>1
    <2> QED BY <1>1, <2>2
  <1>3. q > -2
    <2>1. SUFFICES ASSUME q <= -2 PROVE FALSE OBVIOUS
    <2>2. s * q <= s * (-2) BY <2>1
    <2> QED BY <1>1, <2>2
  <1> QED BY <1>2, <1>3

(* The signed difference of two wire numbers is the difference of the      *)
(* messages, as long as those are at most half a sequence space apart.     *)
LEMMA DifferenceOfWire ==
    ASSUME NEW m \in Nat, NEW n \in Nat,
           m - n <= Limit, n - m <= Limit + 1
    PROVE  SeqnoDifference(Wire(m), Wire(n)) = m - n
  <1> DEFINE S == SeqSpace
             r == Wire(m) - Wire(n)
             q == (m \div S) - (n \div S)
  <1>1. S \in Nat /\ S > 0 /\ Limit \in Nat /\ S = 2 * Limit + 2
    BY SpaceFacts
  <1>2. /\ Wire(m) \in 0 .. S - 1 /\ Wire(n) \in 0 .. S - 1
        /\ m = S * (m \div S) + Wire(m) /\ n = S * (n \div S) + Wire(n)
        /\ m \div S \in Int /\ n \div S \in Int
    BY <1>1, DivMod DEF Wire
  <1> HIDE DEF S
  <1>3. r \in Int /\ q \in Int /\ m - n = S * q + r /\ r < S /\ r > -S
    <2>1. r \in Int /\ q \in Int /\ r < S /\ r > -S
      BY <1>1, <1>2
    <2>2. S * q = S * (m \div S) - S * (n \div S)
      BY <1>1, <1>2, Distributive
    <2>3. S * (m \div S) \in Int /\ S * (n \div S) \in Int
      BY <1>1, <1>2
    <2> QED BY <1>2, <2>1, <2>2, <2>3
  <1>4. m - n < S /\ m - n > -S
    BY <1>1
  <1> HIDE DEF r, q
  <1>5. q \in {-1, 0, 1}
    BY <1>1, <1>3, <1>4, Unique
  <1>6. r % S = IF r < 0 THEN r + S ELSE r
    <2>1. r % S \in 0 .. S - 1 /\ r = S * (r \div S) + (r % S) /\ r \div S \in Int
      BY <1>1, <1>3, DivMod
    <2>2. r \div S \in {-1, 0, 1}
      BY <2>1, <1>1, <1>3, Unique
    <2> QED BY <2>1, <2>2, <1>1, <1>3
  <1>7. m - n \in {r - S, r, r + S}
    BY <1>1, <1>3, <1>5
  <1>8. SeqnoDifference(Wire(m), Wire(n)) =
          IF r % S > Limit THEN (r % S) - S ELSE r % S
    BY DEF SeqnoDifference, r, S
  <1> QED BY <1>1, <1>3, <1>6, <1>7, <1>8

(* Messages less than a space apart have different wire numbers.           *)
LEMMA WireInjective ==
    ASSUME NEW m \in Nat, NEW n \in Nat,
           m - n <= Limit, n - m <= Limit + 1, Wire(m) = Wire(n)
    PROVE  m = n
  <1>1. Wire(m) \in Int /\ SeqSpace \in Nat /\ SeqSpace > 0 /\ Limit \in Nat
    BY WireType, SpaceFacts
  <1>2. (Wire(m) - Wire(n)) % SeqSpace = 0
    BY <1>1
  <1>3. SeqnoDifference(Wire(m), Wire(n)) = 0
    BY <1>1, <1>2 DEF SeqnoDifference
  <1> QED BY <1>3, DifferenceOfWire

(* Test, read in message numbers instead of wire numbers.                  *)
LEMMA TestMeaning ==
    ASSUME NEW e \in Entry, NEW m \in Nat, NEW n \in Nat, NEW set \in BOOLEAN,
           e.current = Wire(n), m - n <= Limit, n - m <= Limit + 1
    PROVE  Test(e, Wire(m), set) =
             IF m = n THEN <<"CURRENT", e>>
             ELSE IF m - n < -(Window - 1) THEN TestTooOld(e, Wire(m))
             ELSE IF m - n <= 0 THEN TestInWindow(e, m - n, set)
             ELSE TestNewest(e, Wire(m), m - n, set)
  <1>1. SeqnoDifference(Wire(m), e.current) = m - n
    BY DifferenceOfWire
  <1>2. Wire(m) = e.current <=> m = n
    BY WireInjective
  <1> QED BY <1>1, <1>2, Zenon DEF Test

(* Writing the window of an entry keeps it well formed.                    *)
LEMMA WithWindowType ==
    ASSUME NEW e \in Entry, NEW h \in SUBSET (0 .. HistoryBits - 1),
           NEW c \in 0 .. SeqSpace - 1, NEW count \in 0 .. MaxTooOld
    PROVE  /\ WithWindow(e, h, c, count) \in Entry
           /\ WithWindow(e, h, c, count).history = h
           /\ WithWindow(e, h, c, count).current = c
           /\ WithWindow(e, h, c, count).too_old_count = count
           /\ WithWindow(e, h, c, count).vtime = e.vtime
BY DEF WithWindow, Entry

(* The fields of an entry have their types.                                *)
LEMMA EntryFields ==
    ASSUME NEW e \in Entry
    PROVE  /\ e.history \in SUBSET (0 .. HistoryBits - 1)
           /\ e.current \in 0 .. SeqSpace - 1
           /\ e.too_old_count \in 0 .. MaxTooOld
           /\ e.vtime \in Nat
BY DEF Entry

(* The history of the window that TestNewest leaves.                       *)
NextHistory(e, d) ==
    IF d >= Window THEN {0} ELSE ShiftLeft(e.history, d) \cup {0}

(* The histories that _test writes fit the width of the history.           *)
LEMMA HistoryType ==
    ASSUME NEW e \in Entry, NEW d \in Int
    PROVE  /\ {0} \in SUBSET (0 .. HistoryBits - 1)
           /\ NextHistory(e, d) \in SUBSET (0 .. HistoryBits - 1)
           /\ d \in 0 .. Window - 1 =>
                e.history \cup {d} \in SUBSET (0 .. HistoryBits - 1)
  <1>1. {0} \in SUBSET (0 .. HistoryBits - 1)
    BY DupSetAssumption
  <1>2. ShiftLeft(e.history, d) \in SUBSET (0 .. HistoryBits - 1)
    BY DEF ShiftLeft
  <1>3. d \in 0 .. Window - 1 => d \in 0 .. HistoryBits - 1
    BY DupSetAssumption
  <1> QED BY <1>1, <1>2, <1>3, EntryFields DEF NextHistory
-----------------------------------------------------------------------------
(* What holds of one entry.  WindowExact is not inductive alone: a shift   *)
(* brings zero bits in for numbers never accepted only if nothing above    *)
(* the newest message was accepted, and the bound on refusals needs the    *)
(* counter they are compared with.                                         *)
KeyInv(k) ==
    /\ entry[k].current = Wire(newest[k])
    /\ \A b \in 0 .. Window - 1 :
         b \in entry[k].history <=> newest[k] - b \in seen[k]
    /\ newest[k] \in seen[k]
    /\ \A s \in seen[k] : s <= newest[k]
    /\ rejects[k] <= entry[k].too_old_count

Inv == TypeOK /\ \A k \in live : KeyInv(k)

(* The strengthening implies the invariants that are model-checked.        *)
LEMMA InvImplies == Inv => WindowExact /\ NoLockout
  <1> SUFFICES ASSUME Inv, NEW k \in live
               PROVE  /\ entry[k].current = Wire(newest[k])
                      /\ \A b \in 0 .. Window - 1 :
                           b \in entry[k].history <=> newest[k] - b \in seen[k]
                      /\ rejects[k] <= MaxTooOld
    BY DEF WindowExact, NoLockout
  <1>1. k \in Keys /\ entry[k].too_old_count \in 0 .. MaxTooOld /\ rejects[k] \in Nat
    BY DEF Inv, TypeOK, Entry
  <1> QED BY <1>1, DupSetAssumption DEF Inv, KeyInv

(* One call of _test on entry e with newest message n, accepted messages   *)
(* ss and message m: each answer t[1], when it is given and what it leaves *)
(* in the entry.                                                           *)
TestCases(e, n, ss, m, set, t) ==
    \/ t = <<"CURRENT", e>> /\ m = n
    \/ /\ t = <<"TOO_OLD", WithWindow(e, e.history, e.current, e.too_old_count + 1)>>
       /\ e.too_old_count + 1 <= MaxTooOld
       /\ n - m >= Window
    \/ /\ t = <<"NEWEST", WithWindow(e, {0}, Wire(m), 0)>>
       /\ n - m >= Window
    \/ /\ t = <<"DUPLICATE", WithWindow(e, e.history, e.current, 0)>>
       /\ m < n /\ m \in ss
    \/ /\ t = <<"NEW", WithWindow(e, IF set THEN e.history \cup {n - m}
                                     ELSE e.history, e.current, 0)>>
       /\ m < n /\ n - m < Window /\ m \notin ss
    \/ /\ t = <<"NEWEST", IF set THEN WithWindow(e, NextHistory(e, m - n), Wire(m), 0)
                          ELSE WithWindow(e, e.history, e.current, 0)>>
       /\ m > n

(* What _test answers on an entry that satisfies the invariant.            *)
LEMMA TestStep ==
    ASSUME Inv, NEW k \in live, NEW m \in Nat, NEW set \in BOOLEAN,
           Representative(k, m)
    PROVE  TestCases(entry[k], newest[k], seen[k], m, set,
                     Test(entry[k], Wire(m), set))
  <1> DEFINE n == newest[k]
             e == entry[k]
             t == Test(entry[k], Wire(m), set)
  <1> SUFFICES TestCases(e, n, seen[k], m, set, t)
    OBVIOUS
  <1> USE DEF TestCases
  <1>1. e \in Entry /\ n \in Nat /\ seen[k] \in SUBSET Nat
    BY DEF Inv, TypeOK
  <1>2. /\ e.current = Wire(n)
        /\ \A b \in 0 .. Window - 1 : b \in e.history <=> n - b \in seen[k]
    BY DEF Inv, KeyInv
  <1>3. m - n <= Limit /\ n - m <= Limit + 1
    BY DEF Representative
  <1>4. m - n \in Int /\ Window \in Nat /\ Window > 0 /\ -(m - n) = n - m
    BY <1>1, SpaceFacts
  <1>5. t = IF m = n THEN <<"CURRENT", e>>
             ELSE IF m - n < -(Window - 1) THEN TestTooOld(e, Wire(m))
             ELSE IF m - n <= 0 THEN TestInWindow(e, m - n, set)
             ELSE TestNewest(e, Wire(m), m - n, set)
    BY <1>1, <1>2, <1>3, TestMeaning
  <1> HIDE DEF n, e, t
  <1>6. CASE m = n
    BY <1>5, <1>6
  <1>7. CASE m # n /\ m - n < -(Window - 1)
    <2>1. t = TestTooOld(e, Wire(m)) /\ n - m >= Window
      BY <1>1, <1>4, <1>5, <1>7
    <2>2. e.too_old_count + 1 > MaxTooOld \/ e.too_old_count + 1 <= MaxTooOld
      BY <1>1, EntryFields, DupSetAssumption
    <2> QED BY <2>1, <2>2 DEF TestTooOld
  <1>8. CASE m # n /\ ~(m - n < -(Window - 1)) /\ m - n <= 0
    <2>1. t = TestInWindow(e, m - n, set)
      BY <1>5, <1>8
    <2>2. m < n /\ n - m \in 0 .. Window - 1 /\ n - (n - m) = m
      BY <1>8, <1>1, <1>4
    <2>3. n - m \in e.history <=> m \in seen[k]
      BY <1>2, <2>2
    <2>4. n - m < Window
      BY <2>2, <1>4
    <2> QED BY <2>1, <2>2, <2>3, <2>4, <1>4 DEF TestInWindow
  <1>9. CASE m # n /\ ~(m - n <= 0)
    <2>1. t = TestNewest(e, Wire(m), m - n, set) /\ m > n
      BY <1>5, <1>9, <1>1, <1>4
    <2> QED BY <2>1 DEF TestNewest, NextHistory
  <1> QED BY <1>6, <1>7, <1>8, <1>9

(* A new validity time leaves the window of an entry alone.                *)
LEMMA SetVtime ==
    ASSUME NEW e \in Entry, NEW v \in Nat
    PROVE  /\ [e EXCEPT !.vtime = v] \in Entry
           /\ [e EXCEPT !.vtime = v].history = e.history
           /\ [e EXCEPT !.vtime = v].current = e.current
           /\ [e EXCEPT !.vtime = v].too_old_count = e.too_old_count
BY DEF Entry

(* A step that writes the state of one key only.                           *)
LEMMA OneKeyStep ==
    ASSUME Inv, NEW k \in Keys, NEW e \in Entry, NEW n \in Nat,
           NEW ss \in SUBSET Nat, NEW rj \in Nat,
           live' = live \cup {k},
           entry' = [entry EXCEPT ![k] = e], newest' = [newest EXCEPT ![k] = n],
           seen' = [seen EXCEPT ![k] = ss], rejects' = [rejects EXCEPT ![k] = rj],
           verdict' \in Verdict,
           e.current = Wire(n), n \in ss, \A s \in ss : s <= n,
           \A b \in 0 .. Window - 1 : b \in e.history <=> n - b \in ss,
           rj <= e.too_old_count
    PROVE  Inv'
  <1>1. TypeOK'
    BY DEF Inv, TypeOK
  <1>2. ASSUME NEW j \in live' PROVE KeyInv(j)'
    <2>1. CASE j = k
      BY <2>1 DEF Inv, TypeOK, KeyInv
    <2>2. CASE j # k
      <3>1. j \in live /\ j \in Keys
        BY <2>2, <1>2 DEF Inv, TypeOK
      <3>2. /\ entry'[j] = entry[j] /\ newest'[j] = newest[j]
            /\ seen'[j] = seen[j] /\ rejects'[j] = rejects[j]
        BY <2>2, <3>1 DEF Inv, TypeOK
      <3> QED BY <3>1, <3>2 DEF Inv, KeyInv
    <2> QED BY <2>1, <2>2
  <1> QED BY <1>1, <1>2 DEF Inv

(* The window after it moved up from n to m stays exact.                   *)
LEMMA ShiftExact ==
    ASSUME NEW e \in Entry, NEW n \in Nat, NEW m \in Nat, m > n,
           NEW ss \in SUBSET Nat, \A s \in ss : s <= n,
           \A b \in 0 .. Window - 1 : b \in e.history <=> n - b \in ss
    PROVE  \A b \in 0 .. Window - 1 :
             b \in NextHistory(e, m - n) <=> m - b \in ss \cup {m}
  <1> SUFFICES ASSUME NEW b \in 0 .. Window - 1
               PROVE  b \in NextHistory(e, m - n) <=> m - b \in ss \cup {m}
    OBVIOUS
  <1> USE DupSetAssumption
  <1>1. CASE b = 0
    BY <1>1 DEF NextHistory
  <1>2. CASE b # 0 /\ b < m - n
    <2>1. m - b > n /\ m - b # m
      BY <1>2
    <2>2. m - b \notin ss \cup {m}
      BY <2>1
    <2> QED BY <1>2, <2>2 DEF NextHistory, ShiftLeft
  <1>3. CASE b # 0 /\ b >= m - n
    <2>1. b - (m - n) \in 0 .. Window - 1 /\ m - n < Window /\ b \in 0 .. HistoryBits - 1
      BY <1>3
    <2>2. b \in NextHistory(e, m - n) <=> b - (m - n) \in e.history
      BY <1>3, <2>1 DEF NextHistory, ShiftLeft
    <2>3. n - (b - (m - n)) = m - b /\ m - b # m
      BY <1>3
    <2> QED BY <2>1, <2>2, <2>3
  <1> QED BY <1>1, <1>2, <1>3

(* The first message of an originator.                                     *)
LEMMA EntryAddFirstInv ==
    ASSUME Inv, NEW k \in Keys, NEW m \in Nat, NEW v \in Nat,
           EntryAddFirst(k, m, v)
    PROVE  Inv'
  <1> DEFINE e == [history |-> {0}, current |-> Wire(m), too_old_count |-> 0,
                   vtime |-> v]
  <1>1. e \in Entry /\ e.current = Wire(m) /\ e.history = {0} /\ e.too_old_count = 0
    BY WireType, DupSetAssumption DEF Entry
  <1> DEFINE ss == {m}
             rj == 0
  <1>2. \A b \in 0 .. Window - 1 : b \in e.history <=> m - b \in ss
    BY <1>1, DupSetAssumption
  <1>3. verdict' \in Verdict
    BY DEF EntryAddFirst, Result, Verdict, Results
  <1>4. /\ live' = live \cup {k} /\ entry' = [entry EXCEPT ![k] = e]
        /\ newest' = [newest EXCEPT ![k] = m] /\ seen' = [seen EXCEPT ![k] = ss]
        /\ rejects' = [rejects EXCEPT ![k] = rj]
    BY DEF EntryAddFirst
  <1>5. ss \in SUBSET Nat /\ m \in ss /\ \A s \in ss : s <= m
    OBVIOUS
  <1>6. rj \in Nat /\ rj <= e.too_old_count
    BY <1>1
  <1> HIDE DEF e, ss, rj
  <1> QED BY <1>1, <1>2, <1>3, <1>4, <1>5, <1>6, OneKeyStep

(* A message of a known originator.                                        *)
LEMMA EntryAddKnownInv ==
    ASSUME Inv, NEW k \in Keys, NEW m \in Nat, NEW v \in Nat,
           EntryAddKnown(k, m, v)
    PROVE  Inv'
  <1> DEFINE n == newest[k]
             e == entry[k]
             t == Test(entry[k], Wire(m), TRUE)
             rj == IF t[1] = "TOO_OLD" THEN rejects[k] + 1 ELSE 0
             e2 == IF IsNew(t[1]) THEN [t[2] EXCEPT !.vtime = v] ELSE t[2]
             n2 == IF t[1] = "NEWEST" THEN m ELSE n
             s2 == IF t[1] = "NEWEST" /\ m < n THEN {m}
                   ELSE IF IsNew(t[1]) THEN seen[k] \cup {m} ELSE seen[k]
  <1>1. /\ k \in live /\ Representative(k, m) /\ live' = live \cup {k}
        /\ entry' = [entry EXCEPT ![k] = e2] /\ newest' = [newest EXCEPT ![k] = n2]
        /\ seen' = [seen EXCEPT ![k] = s2] /\ rejects' = [rejects EXCEPT ![k] = rj]
        /\ verdict' = [op |-> "add", key |-> k, msg |-> m, result |-> t[1]]
    BY Zenon DEF EntryAddKnown, CountReject, Result
  <1>2. /\ e \in Entry /\ n \in Nat /\ seen[k] \in SUBSET Nat /\ rejects[k] \in Nat
        /\ e.current = Wire(n) /\ n \in seen[k] /\ \A s \in seen[k] : s <= n
        /\ \A b \in 0 .. Window - 1 : b \in e.history <=> n - b \in seen[k]
        /\ rejects[k] <= e.too_old_count
    BY <1>1 DEF Inv, TypeOK, KeyInv
  <1>3. /\ e.history \in SUBSET (0 .. HistoryBits - 1)
        /\ e.current \in 0 .. SeqSpace - 1 /\ Wire(m) \in 0 .. SeqSpace - 1
        /\ e.too_old_count \in 0 .. MaxTooOld /\ 0 \in 0 .. MaxTooOld
        /\ Window \in Nat /\ Window > 0
        /\ {0} \in SUBSET (0 .. HistoryBits - 1)
    BY <1>2, EntryFields, WireType, SpaceFacts, HistoryType, DupSetAssumption
  <1> DEFINE Good ==
        /\ t[1] \in Results /\ e2 \in Entry /\ n2 \in Nat /\ s2 \in SUBSET Nat
        /\ rj \in Nat /\ e2.current = Wire(n2) /\ n2 \in s2
        /\ \A s \in s2 : s <= n2
        /\ \A b \in 0 .. Window - 1 : b \in e2.history <=> n2 - b \in s2
        /\ rj <= e2.too_old_count
  <1>0. TestCases(e, n, seen[k], m, TRUE, t)
    BY <1>1, TestStep
  <1>4. \/ t = <<"CURRENT", e>> /\ m = n
        \/ /\ t = <<"TOO_OLD", WithWindow(e, e.history, e.current, e.too_old_count + 1)>>
           /\ e.too_old_count + 1 <= MaxTooOld
           /\ n - m >= Window
        \/ /\ t = <<"NEWEST", WithWindow(e, {0}, Wire(m), 0)>>
           /\ n - m >= Window
        \/ /\ t = <<"DUPLICATE", WithWindow(e, e.history, e.current, 0)>>
           /\ m < n /\ m \in seen[k]
        \/ /\ t = <<"NEW", WithWindow(e, e.history \cup {n - m}, e.current, 0)>>
           /\ m < n /\ n - m < Window /\ m \notin seen[k]
        \/ /\ t = <<"NEWEST", WithWindow(e, NextHistory(e, m - n), Wire(m), 0)>>
           /\ m > n
    <2> HIDE DEF t, e, n
    <2> QED BY <1>0 DEF TestCases
  <1> HIDE DEF t, e, n
  <1> SUFFICES Good
    <2> SUFFICES ASSUME Good PROVE Inv'
      OBVIOUS
    <2>1. verdict' \in Verdict
      BY <1>1 DEF Verdict
    <2> HIDE DEF e2, n2, s2, rj
    <2> QED BY <1>1, <2>1, OneKeyStep
  <1>5. CASE t = <<"CURRENT", e>> /\ m = n
    <2>1. e2 = e /\ n2 = n /\ s2 = seen[k] /\ rj = 0 /\ t[1] \in Results
      BY <1>5 DEF IsNew, Results
    <2> HIDE DEF e2, n2, s2, rj
    <2> QED BY <1>2, <1>3, <2>1
  <1>6. CASE /\ t = <<"TOO_OLD", WithWindow(e, e.history, e.current, e.too_old_count + 1)>>
             /\ e.too_old_count + 1 <= MaxTooOld /\ n - m >= Window
    <2>1. e.too_old_count + 1 \in 0 .. MaxTooOld
      BY <1>3, <1>6
    <2>2. /\ t[2] \in Entry /\ t[2].history = e.history /\ t[2].current = e.current
          /\ t[2].too_old_count = e.too_old_count + 1
      BY <1>2, <1>3, <1>6, <2>1, WithWindowType
    <2>3. e2 = t[2] /\ n2 = n /\ s2 = seen[k] /\ rj = rejects[k] + 1 /\ t[1] \in Results
      BY <1>6 DEF IsNew, Results
    <2> HIDE DEF e2, n2, s2, rj
    <2> QED BY <1>2, <1>3, <2>2, <2>3
  <1>7. CASE t = <<"NEWEST", WithWindow(e, {0}, Wire(m), 0)>> /\ n - m >= Window
    <2>1. /\ t[2] \in Entry /\ t[2].history = {0} /\ t[2].current = Wire(m)
          /\ t[2].too_old_count = 0
      BY <1>2, <1>3, <1>7, WithWindowType
    <2>2. m < n
      BY <1>2, <1>3, <1>7
    <2>3. /\ e2 = [t[2] EXCEPT !.vtime = v] /\ n2 = m /\ s2 = {m} /\ rj = 0
          /\ t[1] \in Results
      BY <1>7, <2>2 DEF IsNew, Results
    <2>4. /\ e2 \in Entry /\ e2.history = {0} /\ e2.current = Wire(m)
          /\ e2.too_old_count = 0
      BY <2>1, <2>3, SetVtime
    <2> HIDE DEF e2, n2, s2, rj
    <2> QED BY <2>3, <2>4, <1>3
  <1>8. CASE t = <<"DUPLICATE", WithWindow(e, e.history, e.current, 0)>> /\ m < n /\ m \in seen[k]
    <2>1. /\ t[2] \in Entry /\ t[2].history = e.history /\ t[2].current = e.current
          /\ t[2].too_old_count = 0
      BY <1>2, <1>3, <1>8, WithWindowType
    <2>2. e2 = t[2] /\ n2 = n /\ s2 = seen[k] /\ rj = 0 /\ t[1] \in Results
      BY <1>8 DEF IsNew, Results
    <2> HIDE DEF e2, n2, s2, rj
    <2> QED BY <1>2, <2>1, <2>2
  <1>9. CASE /\ t = <<"NEW", WithWindow(e, e.history \cup {n - m}, e.current, 0)>>
             /\ m < n /\ n - m < Window /\ m \notin seen[k]
    <2>1. n - m \in 0 .. Window - 1
      BY <1>2, <1>3, <1>9
    <2>2. e.history \cup {n - m} \in SUBSET (0 .. HistoryBits - 1)
      BY <1>2, <2>1, HistoryType
    <2>3. /\ t[2] \in Entry /\ t[2].history = e.history \cup {n - m}
          /\ t[2].current = e.current /\ t[2].too_old_count = 0
      BY <1>2, <1>3, <1>9, <2>2, WithWindowType
    <2>4. /\ e2 = [t[2] EXCEPT !.vtime = v] /\ n2 = n /\ s2 = seen[k] \cup {m}
          /\ rj = 0 /\ t[1] \in Results
      BY <1>9 DEF IsNew, Results
    <2>5. /\ e2 \in Entry /\ e2.history = e.history \cup {n - m}
          /\ e2.current = e.current /\ e2.too_old_count = 0
      BY <2>3, <2>4, SetVtime
    <2> HIDE DEF e2, n2, s2, rj
    <2>6. \A b \in 0 .. Window - 1 : b = n - m <=> n - b = m
      BY <1>2, <1>3
    <2>7. \A b \in 0 .. Window - 1 : b \in e2.history <=> n2 - b \in s2
      BY <1>2, <2>4, <2>5, <2>6
    <2>8. \A s \in s2 : s <= n2
      BY <1>2, <1>9, <2>4
    <2>9. e2.current = Wire(n2) /\ n2 \in s2 /\ s2 \in SUBSET Nat /\ rj <= e2.too_old_count
      BY <1>2, <2>4, <2>5
    <2> QED BY <1>2, <2>4, <2>5, <2>7, <2>8, <2>9
  <1>10. CASE t = <<"NEWEST", WithWindow(e, NextHistory(e, m - n), Wire(m), 0)>> /\ m > n
    <2>1. m - n \in Int /\ ~(m < n)
      BY <1>2, <1>10
    <2>2. NextHistory(e, m - n) \in SUBSET (0 .. HistoryBits - 1)
      BY <1>2, <2>1, HistoryType
    <2>3. /\ t[2] \in Entry /\ t[2].history = NextHistory(e, m - n)
          /\ t[2].current = Wire(m) /\ t[2].too_old_count = 0
      BY <1>2, <1>3, <1>10, <2>2, WithWindowType
    <2>4. /\ e2 = [t[2] EXCEPT !.vtime = v] /\ n2 = m /\ s2 = seen[k] \cup {m}
          /\ rj = 0 /\ t[1] \in Results
      BY <1>10, <2>1 DEF IsNew, Results
    <2>5. /\ e2 \in Entry /\ e2.history = NextHistory(e, m - n)
          /\ e2.current = Wire(m) /\ e2.too_old_count = 0
      BY <2>3, <2>4, SetVtime
    <2>6. \A b \in 0 .. Window - 1 :
            b \in NextHistory(e, m - n) <=> m - b \in seen[k] \cup {m}
      BY <1>2, <1>10, ShiftExact
    <2> HIDE DEF e2, n2, s2, rj
    <2>7. \A s \in s2 : s <= n2
      BY <1>2, <1>10, <2>4
    <2> QED BY <1>2, <2>4, <2>5, <2>6, <2>7
  <1> QED BY <1>4, <1>5, <1>6, <1>7, <1>8, <1>9, <1>10

(* A question about an unknown originator.                                 *)
LEMMA DuplicateTestUnknownInv ==
    ASSUME Inv, NEW k \in Keys, NEW m \in Nat, DuplicateTestUnknown(k, m)
    PROVE  Inv'
  <1>1. verdict' \in Verdict
    BY DEF DuplicateTestUnknown, Result, Verdict, Results
  <1> QED BY <1>1 DEF DuplicateTestUnknown, Inv, TypeOK, KeyInv

(* A question about a known originator, which may restart its entry.       *)
LEMMA DuplicateTestKnownInv ==
    ASSUME Inv, NEW k \in Keys, NEW m \in Nat, DuplicateTestKnown(k, m)
    PROVE  Inv'
  <1> DEFINE n == newest[k]
             e == entry[k]
             t == Test(entry[k], Wire(m), FALSE)
             restart == t[1] = "NEWEST" /\ m < n
             rj == IF t[1] = "TOO_OLD" THEN rejects[k] + 1 ELSE 0
             e2 == t[2]
             n2 == IF restart THEN m ELSE n
             s2 == IF restart THEN {m} ELSE seen[k]
  <1>1. /\ k \in live /\ Representative(k, m) /\ live' = live
        /\ entry' = [entry EXCEPT ![k] = e2] /\ newest' = [newest EXCEPT ![k] = n2]
        /\ seen' = [seen EXCEPT ![k] = s2] /\ rejects' = [rejects EXCEPT ![k] = rj]
        /\ verdict' = [op |-> "test", key |-> k, msg |-> m, result |-> t[1]]
    BY Zenon DEF DuplicateTestKnown, CountReject, Result
  <1>2. /\ e \in Entry /\ n \in Nat /\ seen[k] \in SUBSET Nat /\ rejects[k] \in Nat
        /\ e.current = Wire(n) /\ n \in seen[k] /\ \A s \in seen[k] : s <= n
        /\ \A b \in 0 .. Window - 1 : b \in e.history <=> n - b \in seen[k]
        /\ rejects[k] <= e.too_old_count
    BY <1>1 DEF Inv, TypeOK, KeyInv
  <1>3. /\ e.history \in SUBSET (0 .. HistoryBits - 1)
        /\ e.current \in 0 .. SeqSpace - 1 /\ Wire(m) \in 0 .. SeqSpace - 1
        /\ e.too_old_count \in 0 .. MaxTooOld /\ 0 \in 0 .. MaxTooOld
        /\ Window \in Nat /\ Window > 0
        /\ {0} \in SUBSET (0 .. HistoryBits - 1)
    BY <1>2, EntryFields, WireType, SpaceFacts, HistoryType, DupSetAssumption
  <1> DEFINE Good ==
        /\ t[1] \in Results /\ e2 \in Entry /\ n2 \in Nat /\ s2 \in SUBSET Nat
        /\ rj \in Nat /\ e2.current = Wire(n2) /\ n2 \in s2
        /\ \A s \in s2 : s <= n2
        /\ \A b \in 0 .. Window - 1 : b \in e2.history <=> n2 - b \in s2
        /\ rj <= e2.too_old_count
  <1>4. TestCases(e, n, seen[k], m, FALSE, t)
    BY <1>1, TestStep
  <1> SUFFICES Good
    <2> SUFFICES ASSUME Good PROVE Inv'
      OBVIOUS
    <2>1. verdict' \in Verdict
      BY <1>1 DEF Verdict
    <2>2. live' = live \cup {k}
      BY <1>1
    <2> HIDE DEF e2, n2, s2, rj
    <2> QED BY <1>1, <2>1, <2>2, OneKeyStep
  <1> HIDE DEF t, e, n
  <1>5. CASE t = <<"NEWEST", WithWindow(e, {0}, Wire(m), 0)>> /\ n - m >= Window
    <2>1. /\ t[2] \in Entry /\ t[2].history = {0} /\ t[2].current = Wire(m)
          /\ t[2].too_old_count = 0
      BY <1>2, <1>3, <1>5, WithWindowType
    <2>2. m < n
      BY <1>2, <1>3, <1>5
    <2>3. e2 = t[2] /\ n2 = m /\ s2 = {m} /\ rj = 0 /\ t[1] \in Results
      BY <1>5, <2>2 DEF Results
    <2> HIDE DEF e2, n2, s2, rj
    <2> QED BY <1>3, <2>1, <2>3
  <1>6. CASE /\ t = <<"TOO_OLD", WithWindow(e, e.history, e.current, e.too_old_count + 1)>>
             /\ e.too_old_count + 1 <= MaxTooOld
    <2>1. e.too_old_count + 1 \in 0 .. MaxTooOld
      BY <1>3, <1>6
    <2>2. /\ t[2] \in Entry /\ t[2].history = e.history /\ t[2].current = e.current
          /\ t[2].too_old_count = e.too_old_count + 1
      BY <1>2, <1>3, <1>6, <2>1, WithWindowType
    <2>3. e2 = t[2] /\ n2 = n /\ s2 = seen[k] /\ rj = rejects[k] + 1 /\ t[1] \in Results
      BY <1>6 DEF Results
    <2> HIDE DEF e2, n2, s2, rj
    <2> QED BY <1>2, <1>3, <2>2, <2>3
  <1>7. CASE /\ t[1] \in {"DUPLICATE", "NEW", "NEWEST"} /\ ~restart
             /\ t[2] = WithWindow(e, e.history, e.current, 0)
    <2>1. /\ t[2] \in Entry /\ t[2].history = e.history /\ t[2].current = e.current
          /\ t[2].too_old_count = 0
      BY <1>2, <1>3, <1>7, WithWindowType
    <2>2. e2 = t[2] /\ n2 = n /\ s2 = seen[k] /\ rj = 0 /\ t[1] \in Results
      BY <1>7 DEF Results
    <2> HIDE DEF e2, n2, s2, rj
    <2> QED BY <1>2, <2>1, <2>2
  <1>8. CASE t = <<"CURRENT", e>>
    <2>1. e2 = e /\ n2 = n /\ s2 = seen[k] /\ rj = 0 /\ t[1] \in Results
      BY <1>8 DEF Results
    <2> HIDE DEF e2, n2, s2, rj
    <2> QED BY <1>2, <1>3, <2>1
  <1>9. m > n => ~(m < n)
    BY <1>2
  <1> QED BY <1>4, <1>5, <1>6, <1>7, <1>8, <1>9 DEF TestCases

(* Removing entries, one time unit or all of them, disturbs no other.      *)
LEMMA RemoveInv ==
    ASSUME Inv, NEW gone \in SUBSET live, RemoveEntries(gone),
           entry' \in [Keys -> Entry],
           \A k \in live \ gone :
             /\ entry'[k].history = entry[k].history
             /\ entry'[k].current = entry[k].current
             /\ entry'[k].too_old_count = entry[k].too_old_count
    PROVE  Inv'
  <1>1. TypeOK'
    BY DEF Inv, TypeOK, RemoveEntries
  <1>2. ASSUME NEW k \in live' PROVE KeyInv(k)'
    <2>1. k \in live \ gone /\ k \in Keys
      BY <1>2 DEF RemoveEntries, Inv, TypeOK
    <2>2. /\ newest'[k] = newest[k] /\ seen'[k] = seen[k] /\ rejects'[k] = rejects[k]
      BY <2>1 DEF RemoveEntries
    <2>3. KeyInv(k)
      BY <2>1 DEF Inv
    <2> QED BY <2>1, <2>2, <2>3 DEF KeyInv
  <1> QED BY <1>1, <1>2 DEF Inv

(* A blank entry is an entry.                                              *)
LEMMA BlankEntryType == BlankEntry \in Entry
BY DupSetAssumption, SpaceFacts DEF BlankEntry, Entry

(* Time passes and entries expire.                                         *)
LEMMA TickInv == ASSUME Inv, Tick PROVE Inv'
  <1> DEFINE gone == {k \in live : entry[k].vtime = 1}
  <1>1. /\ RemoveEntries(gone) /\ gone \in SUBSET live
        /\ entry' = [k \in Keys |->
                       IF k \in gone THEN BlankEntry
                       ELSE IF k \in live /\ entry[k].vtime > 0
                       THEN [entry[k] EXCEPT !.vtime = @ - 1]
                       ELSE entry[k]]
    BY DEF Tick
  <1>2. ASSUME NEW k \in Keys
        PROVE  /\ entry'[k] \in Entry
               /\ k \in live \ gone =>
                    /\ entry'[k].history = entry[k].history
                    /\ entry'[k].current = entry[k].current
                    /\ entry'[k].too_old_count = entry[k].too_old_count
    <2>1. entry[k] \in Entry /\ entry[k].vtime \in Nat
      BY EntryFields DEF Inv, TypeOK
    <2>2. CASE entry[k].vtime > 0
      <3>1. entry[k].vtime - 1 \in Nat
        BY <2>1, <2>2
      <3> QED BY <1>1, <2>1, <2>2, <3>1, BlankEntryType, SetVtime
    <2>3. CASE ~(entry[k].vtime > 0)
      BY <1>1, <2>1, <2>3, BlankEntryType
    <2> QED BY <2>2, <2>3
  <1>3. entry' \in [Keys -> Entry]
    BY <1>1, <1>2
  <1>4. live \subseteq Keys
    BY DEF Inv, TypeOK
  <1> HIDE DEF gone
  <1> QED BY <1>1, <1>2, <1>3, <1>4, RemoveInv

(* The whole set is removed.                                               *)
LEMMA SetRemoveInv == ASSUME Inv, SetRemove PROVE Inv'
  <1>1. RemoveEntries(live) /\ live \in SUBSET live
    BY DEF SetRemove
  <1>2. entry' \in [Keys -> Entry]
    BY BlankEntryType DEF SetRemove, Inv, TypeOK
  <1> QED BY <1>1, <1>2, RemoveInv

(* Every step keeps the invariant.                                         *)
LEMMA NextInv == ASSUME Inv, [Next]_vars PROVE Inv'
  <1>1. CASE UNCHANGED vars
    BY <1>1 DEF Inv, TypeOK, KeyInv, vars
  <1>2. ASSUME NEW k \in Keys, NEW m \in 0 .. MaxMsg, NEW v \in Vtimes,
               EntryAddFirst(k, m, v) \/ EntryAddKnown(k, m, v)
        PROVE  Inv'
    <2>1. m \in Nat /\ v \in Nat
      BY DupSetAssumption
    <2> QED BY <1>2, <2>1, EntryAddFirstInv, EntryAddKnownInv
  <1>3. ASSUME NEW k \in Keys, NEW m \in 0 .. MaxMsg,
               DuplicateTestKnown(k, m) \/ DuplicateTestUnknown(k, m)
        PROVE  Inv'
    <2>1. m \in Nat
      BY DupSetAssumption
    <2> QED BY <1>3, <2>1, DuplicateTestKnownInv, DuplicateTestUnknownInv
  <1>4. ASSUME NEW k \in Keys, NEW m \in 0 .. MaxMsg, EntryAddNoMemory(k, m)
        PROVE  Inv'
    <2>1. verdict' \in Verdict
      BY <1>4, DupSetAssumption DEF EntryAddNoMemory, Result, Verdict, Results
    <2> QED BY <1>4, <2>1 DEF EntryAddNoMemory, Inv, TypeOK, KeyInv
  <1> QED BY <1>1, <1>2, <1>3, <1>4, TickInv, SetRemoveInv DEF Next

(* The empty set satisfies the invariant.                                  *)
LEMMA InitInv == Init => Inv
  <1> SUFFICES ASSUME Init PROVE Inv
    OBVIOUS
  <1>1. TypeOK
    BY BlankEntryType DEF Init, TypeOK
  <1> QED BY <1>1 DEF Init, Inv

(* The invariant always holds.                                             *)
LEMMA InvAlways == Spec => []Inv
BY InitInv, NextInv, PTL DEF Spec

(* The variables of the duplicate set always have their types: the counter *)
(* of too old numbers stays at or below its limit and the history fits its *)
(* word, for every window, width and set of originators.                   *)
THEOREM TypeCorrect == Spec => []TypeOK
  <1>1. Inv => TypeOK
    BY DEF Inv
  <1> QED BY <1>1, InvAlways, PTL

(* The window of oonf_duplicate_set.c is always exact.                     *)
THEOREM WindowIsExact == Spec => []WindowExact
BY InvAlways, InvImplies, PTL

(* No originator is refused more than MaxTooOld times in a row.            *)
THEOREM NoOriginatorLockedOut == Spec => []NoLockout
BY InvAlways, InvImplies, PTL

(* A call on an existing entry answers what TestCases says.                *)
LEMMA VerdictCases ==
    ASSUME Inv, Next, NEW k \in live, verdict' # NoVerdict, verdict'.key = k
    PROVE  /\ verdict'.msg \in Nat
           /\ \E t, set : /\ verdict'.result = t[1]
                          /\ TestCases(entry[k], newest[k], seen[k], verdict'.msg, set, t)
  <1>1. ASSUME NEW j \in Keys, NEW m \in 0 .. MaxMsg, NEW v \in Vtimes,
               EntryAddKnown(j, m, v)
        PROVE  /\ verdict'.msg \in Nat
               /\ \E t, set : /\ verdict'.result = t[1]
                              /\ TestCases(entry[k], newest[k], seen[k], verdict'.msg, set, t)
    <2>1. /\ j = k /\ verdict'.msg = m /\ Representative(k, m)
          /\ verdict'.result = Test(entry[k], Wire(m), TRUE)[1]
      BY <1>1 DEF EntryAddKnown, Result
    <2>2. m \in Nat
      BY DupSetAssumption
    <2>3. TestCases(entry[k], newest[k], seen[k], m, TRUE, Test(entry[k], Wire(m), TRUE))
      BY <2>1, <2>2, TestStep
    <2> QED BY <2>1, <2>2, <2>3
  <1>2. ASSUME NEW j \in Keys, NEW m \in 0 .. MaxMsg, DuplicateTestKnown(j, m)
        PROVE  /\ verdict'.msg \in Nat
               /\ \E t, set : /\ verdict'.result = t[1]
                              /\ TestCases(entry[k], newest[k], seen[k], verdict'.msg, set, t)
    <2>2. /\ j = k /\ verdict'.msg = m /\ Representative(k, m)
          /\ verdict'.result = Test(entry[k], Wire(m), FALSE)[1]
      BY <1>2 DEF DuplicateTestKnown, Result
    <2>3. m \in Nat
      BY DupSetAssumption
    <2>4. TestCases(entry[k], newest[k], seen[k], m, FALSE, Test(entry[k], Wire(m), FALSE))
      BY <2>2, <2>3, TestStep
    <2> QED BY <2>2, <2>3, <2>4
  <1>3. ASSUME NEW j \in Keys, NEW m \in 0 .. MaxMsg,
               \/ EntryAddNoMemory(j, m) \/ DuplicateTestUnknown(j, m)
               \/ \E v \in Vtimes : EntryAddFirst(j, m, v)
        PROVE  FALSE
    BY <1>3 DEF EntryAddNoMemory, DuplicateTestUnknown, EntryAddFirst, Result
  <1>4. ~Tick /\ ~SetRemove
    BY DEF Tick, SetRemove, RemoveEntries
  <1> QED BY <1>1, <1>2, <1>3, <1>4 DEF Next

(* Each message is accepted at most once while its entry is not restarted. *)
THEOREM NeverAcceptedTwice == Spec => NoDoubleAccept
  <1>1. ASSUME Inv, [Next]_vars
        PROVE  [\A k \in live :
                  ( /\ verdict' /= NoVerdict
                    /\ verdict'.key = k
                    /\ IsNew(verdict'.result)
                    /\ verdict'.msg > newest[k] - Window )
                  => verdict'.msg \notin seen[k]]_vars
    <2> SUFFICES ASSUME Next, NEW k \in live, verdict' /= NoVerdict,
                        verdict'.key = k, IsNew(verdict'.result),
                        verdict'.msg > newest[k] - Window
                 PROVE  verdict'.msg \notin seen[k]
      BY <1>1
    <2>1. PICK t, set : /\ verdict'.result = t[1]
                        /\ TestCases(entry[k], newest[k], seen[k], verdict'.msg, set, t)
      BY <1>1, VerdictCases
    <2>2. /\ verdict'.msg \in Nat /\ newest[k] \in Nat /\ Window \in Nat
          /\ \A s \in seen[k] : s <= newest[k]
      BY <1>1, VerdictCases, DupSetAssumption DEF Inv, TypeOK, KeyInv
    <2> QED BY <2>1, <2>2 DEF TestCases, IsNew
  <1> QED BY <1>1, InvAlways, PTL DEF Spec, NoDoubleAccept

(* A message that was not accepted yet is never refused inside the window. *)
THEOREM FreshNeverRefused == Spec => FreshAccepted
  <1>1. ASSUME Inv, [Next]_vars
        PROVE  [\A k \in live :
                  ( /\ verdict' /= NoVerdict
                    /\ verdict'.key = k
                    /\ verdict'.msg > newest[k] - Window
                    /\ verdict'.msg \notin seen[k] )
                  => IsNew(verdict'.result)]_vars
    <2> SUFFICES ASSUME Next, NEW k \in live, verdict' /= NoVerdict,
                        verdict'.key = k, verdict'.msg > newest[k] - Window,
                        verdict'.msg \notin seen[k]
                 PROVE  IsNew(verdict'.result)
      BY <1>1
    <2>1. PICK t, set : /\ verdict'.result = t[1]
                        /\ TestCases(entry[k], newest[k], seen[k], verdict'.msg, set, t)
      BY <1>1, VerdictCases
    <2>2. /\ verdict'.msg \in Nat /\ newest[k] \in Nat /\ Window \in Nat
          /\ newest[k] \in seen[k]
      BY <1>1, VerdictCases, DupSetAssumption DEF Inv, TypeOK, KeyInv
    <2> QED BY <2>1, <2>2 DEF TestCases, IsNew
  <1> QED BY <1>1, InvAlways, PTL DEF Spec, FreshAccepted
=============================================================================
