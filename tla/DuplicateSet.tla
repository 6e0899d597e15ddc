---------------------------- MODULE DuplicateSet ----------------------------
(***************************************************************************)
(* The duplicate set (src-plugins/subsystems/oonf_duplicate_set.c): per    *)
(* (message type, originator) a sliding window of the sequence numbers     *)
(* that were already seen, which OLSRv2 consults before it processes       *)
(* (processed_set) and before it forwards (forwarded_set) a flooded        *)
(* message.                                                                *)
(*                                                                         *)
(* A sequence number on the wire is a message number modulo SeqSpace.  The *)
(* model feeds the set unwrapped message numbers at most half a sequence   *)
(* space away from the newest one: every wire number has exactly one such  *)
(* representative, so no input of the code is left out, and what the       *)
(* window means can be said in terms of messages instead of residues.      *)
(*                                                                         *)
(* History variables: newest, seen and rejects; verdict is the return      *)
(* value of the last call.                                                 *)
(***************************************************************************)
EXTENDS Integers

CONSTANTS
    Keys,          \* (message type, originator) pairs
    HalfSpace,     \* half of _offset: 2^7, 2^15, 2^31 or 2^63
    Window,        \* 32, the numbers bitmask can address
    HistoryBits,   \* 64, the width of entry->history
    MaxTooOld,     \* OONF_DUPSET_MAXIMUM_TOO_OLD
    Vtimes,        \* validity times callers pass; 0 stops the timer
    MaxMsg         \* bound: largest message number that is sent

ASSUME DupSetAssumption ==
    /\ Window \in Nat \ {0}
    /\ HistoryBits \in Nat /\ Window <= HistoryBits
    /\ HalfSpace \in Nat /\ Window <= HalfSpace
    /\ MaxTooOld \in Nat
    /\ Vtimes \subseteq Nat
    /\ MaxMsg \in Nat

VARIABLES
    live,          \* keys with an entry in set->_tree
    entry,         \* the entry of each key (BlankEntry when not live)
    newest,        \* history: message number that entry.current stands for
    seen,          \* history: messages accepted since creation or reset
    rejects,       \* history: consecutive TOO_OLD verdicts
    verdict        \* the last call and its result

vars == <<live, entry, newest, seen, rejects, verdict>>

(* _offset and _limit of oonf_duplicate_set_add; _mask is SeqSpace - 1.    *)
SeqSpace == 2 * HalfSpace
Limit == HalfSpace - 1

Results == {"TOO_OLD", "DUPLICATE", "NEW", "CURRENT", "NEWEST", "FIRST"}

(* oonf_duplicate_is_new *)
IsNew(result) == result \in {"NEW", "NEWEST", "FIRST"}

Entry == [history: SUBSET (0 .. HistoryBits - 1), current: 0 .. SeqSpace - 1,
          too_old_count: 0 .. MaxTooOld, vtime: Nat]

BlankEntry == [history |-> {}, current |-> 0, too_old_count |-> 0, vtime |-> 0]

NoVerdict == [op |-> "none"]
Verdict == [op: {"add", "test"}, key: Keys, msg: Nat, result: Results]

Wire(m) == m % SeqSpace

(* _seqno_difference: the 64 bit difference, masked to the width of the    *)
(* set and read as a signed number.                                        *)
SeqnoDifference(a, b) ==
    LET reldiff == (a - b) % SeqSpace
    IN  IF reldiff > Limit THEN reldiff - SeqSpace ELSE reldiff

(* entry->history <<= diff: bits leave at the top of the 64 bit word.      *)
ShiftLeft(history, diff) ==
    {b \in 0 .. HistoryBits - 1 : b >= diff /\ b - diff \in history}

(* The part of an entry _test may write.                                   *)
WithWindow(e, history, current, count) ==
    [history |-> history, current |-> current, too_old_count |-> count,
     vtime |-> e.vtime]

(* Mutants: the restart forgotten, and one refusal too many before it.     *)
TestTooOldNoRestart(e, seqno) ==
    <<"TOO_OLD", WithWindow(e, e.history, e.current, e.too_old_count + 1)>>
TestTooOldLate(e, seqno) ==
    IF e.too_old_count > MaxTooOld
    THEN <<"NEWEST", WithWindow(e, {0}, seqno, 0)>>
    ELSE <<"TOO_OLD", WithWindow(e, e.history, e.current, e.too_old_count + 1)>>

(* _test, number behind the window: count it, and restart the entry after  *)
(* MaxTooOld of them in a row - whether or not the caller asked to set.    *)
TestTooOld(e, seqno) ==
    IF e.too_old_count + 1 > MaxTooOld
    THEN <<"NEWEST", WithWindow(e, {0}, seqno, 0)>>
    ELSE <<"TOO_OLD", WithWindow(e, e.history, e.current, e.too_old_count + 1)>>

(* Mutant: the bit of an accepted number is not stored.                    *)
TestInWindowNoBit(e, diff, set) ==
    <<IF -diff \in e.history THEN "DUPLICATE" ELSE "NEW",
      WithWindow(e, e.history, e.current, 0)>>

(* _test, number inside the window: the bit -diff says if it is known.     *)
TestInWindow(e, diff, set) ==
    IF -diff \in e.history
    THEN <<"DUPLICATE", WithWindow(e, e.history, e.current, 0)>>
    ELSE <<"NEW", WithWindow(e, IF set THEN e.history \cup {-diff} ELSE e.history,
                             e.current, 0)>>

(* Mutants: the history is not moved with the window; it is moved but the  *)
(* bit of the new number is forgotten.                                     *)
TestNewestNoShift(e, seqno, diff, set) ==
    <<"NEWEST", IF set THEN WithWindow(e, e.history \cup {0}, seqno, 0)
                ELSE WithWindow(e, e.history, e.current, 0)>>
TestNewestNoBit(e, seqno, diff, set) ==
    <<"NEWEST", IF set THEN WithWindow(e, ShiftLeft(e.history, diff), seqno, 0)
                ELSE WithWindow(e, e.history, e.current, 0)>>

(* _test, number ahead of the window: the window moves up to it.           *)
TestNewest(e, seqno, diff, set) ==
    <<"NEWEST",
      IF set
      THEN WithWindow(e, IF diff >= Window THEN {0}
                         ELSE ShiftLeft(e.history, diff) \cup {0}, seqno, 0)
      ELSE WithWindow(e, e.history, e.current, 0)>>

(* _test: what it returns and what it leaves in the entry.                 *)
Test(e, seqno, set) ==
    LET diff == SeqnoDifference(seqno, e.current) IN
    IF seqno = e.current THEN <<"CURRENT", e>>
    ELSE IF diff < -(Window - 1) THEN TestTooOld(e, seqno)
    ELSE IF diff <= 0 THEN TestInWindow(e, diff, set)
    ELSE TestNewest(e, seqno, diff, set)
-----------------------------------------------------------------------------
Init ==
    /\ live = {}
    /\ entry = [k \in Keys |-> BlankEntry]
    /\ newest = [k \in Keys |-> 0]
    /\ seen = [k \in Keys |-> {}]
    /\ rejects = [k \in Keys |-> 0]
    /\ verdict = NoVerdict

Result(op, k, m, result) ==
    verdict' = [op |-> op, key |-> k, msg |-> m, result |-> result]

(* The representative of a wire number that is closest to the newest one.  *)
Representative(k, m) ==
    /\ m - newest[k] <= Limit
    /\ newest[k] - m <= Limit + 1

CountReject(k, result) ==
    rejects' = [rejects EXCEPT ![k] = IF result = "TOO_OLD" THEN @ + 1 ELSE 0]

(* oonf_duplicate_entry_add, no entry yet.  oonf_timer_start, and then     *)
(* oonf_timer_set because FIRST counts as new, leave the timer at vtime.   *)
EntryAddFirst(k, m, vtime) ==
    /\ k \notin live
    /\ live' = live \cup {k}
    /\ entry' = [entry EXCEPT ![k] =
                   [history |-> {0}, current |-> Wire(m), too_old_count |-> 0,
                    vtime |-> vtime]]
    /\ newest' = [newest EXCEPT ![k] = m]
    /\ seen' = [seen EXCEPT ![k] = {m}]
    /\ rejects' = [rejects EXCEPT ![k] = 0]
    /\ Result("add", k, m, "FIRST")

(* oonf_duplicate_entry_add, no entry yet and oonf_class_malloc fails.     *)
EntryAddNoMemory(k, m) ==
    /\ k \notin live
    /\ Result("add", k, m, "TOO_OLD")
    /\ UNCHANGED <<live, entry, newest, seen, rejects>>

(* oonf_duplicate_entry_add, entry exists: test and set, and restart the   *)
(* validity timer when the number was new.                                 *)
EntryAddKnown(k, m, vtime) ==
    LET t == Test(entry[k], Wire(m), TRUE) IN
    /\ k \in live
    /\ Representative(k, m)
    /\ entry' = [entry EXCEPT ![k] =
                   IF IsNew(t[1]) THEN [t[2] EXCEPT !.vtime = vtime] ELSE t[2]]
    /\ newest' = [newest EXCEPT ![k] = IF t[1] = "NEWEST" THEN m ELSE @]
    /\ seen' = [seen EXCEPT ![k] =
                   IF t[1] = "NEWEST" /\ m < newest[k] THEN {m}
                   ELSE IF IsNew(t[1]) THEN @ \cup {m} ELSE @]
    /\ CountReject(k, t[1])
    /\ Result("add", k, m, t[1])
    /\ UNCHANGED live

(* oonf_duplicate_test, no entry.                                          *)
DuplicateTestUnknown(k, m) ==
    /\ k \notin live
    /\ Result("test", k, m, "FIRST")
    /\ UNCHANGED <<live, entry, newest, seen, rejects>>

(* oonf_duplicate_test, entry exists: _test without set.  The restart of   *)
(* TestTooOld happens here too.                                            *)
DuplicateTestKnown(k, m) ==
    LET t == Test(entry[k], Wire(m), FALSE)
        restart == t[1] = "NEWEST" /\ m < newest[k] IN
    /\ k \in live
    /\ Representative(k, m)
    /\ entry' = [entry EXCEPT ![k] = t[2]]
    /\ newest' = [newest EXCEPT ![k] = IF restart THEN m ELSE @]
    /\ seen' = [seen EXCEPT ![k] = IF restart THEN {m} ELSE @]
    /\ CountReject(k, t[1])
    /\ Result("test", k, m, t[1])
    /\ UNCHANGED live

(* _remove_duplicate_entry for every key in gone.                          *)
RemoveEntries(gone) ==
    /\ live' = live \ gone
    /\ newest' = [k \in Keys |-> IF k \in gone THEN 0 ELSE newest[k]]
    /\ seen' = [k \in Keys |-> IF k \in gone THEN {} ELSE seen[k]]
    /\ rejects' = [k \in Keys |-> IF k \in gone THEN 0 ELSE rejects[k]]
    /\ verdict' = NoVerdict

(* One unit of time: _cb_vtime fires for the entries that reach their      *)
(* validity time.  A stopped timer (vtime 0) never fires.                  *)
Tick ==
    LET gone == {k \in live : entry[k].vtime = 1} IN
    /\ \E k \in live : entry[k].vtime > 0
    /\ RemoveEntries(gone)
    /\ entry' = [k \in Keys |->
                   IF k \in gone THEN BlankEntry
                   ELSE IF k \in live /\ entry[k].vtime > 0
                   THEN [entry[k] EXCEPT !.vtime = @ - 1]
                   ELSE entry[k]]

(* oonf_duplicate_set_remove: every entry goes, whatever its timer says.   *)
SetRemove ==
    /\ live /= {}
    /\ RemoveEntries(live)
    /\ entry' = [k \in Keys |-> IF k \in live THEN BlankEntry ELSE entry[k]]

Next ==
    \/ \E k \in Keys, m \in 0 .. MaxMsg :
         \/ \E vtime \in Vtimes : EntryAddFirst(k, m, vtime)
         \/ EntryAddNoMemory(k, m)
         \/ \E vtime \in Vtimes : EntryAddKnown(k, m, vtime)
         \/ DuplicateTestUnknown(k, m)
         \/ DuplicateTestKnown(k, m)
    \/ Tick
    \/ SetRemove

Spec == Init /\ [][Next]_vars
-----------------------------------------------------------------------------
(* The variables keep their types; in particular too_old_count never runs  *)
(* past OONF_DUPSET_MAXIMUM_TOO_OLD and the history stays in its word.     *)
TypeOK ==
    /\ live \subseteq Keys
    /\ entry \in [Keys -> Entry]
    /\ newest \in [Keys -> Nat]
    /\ seen \in [Keys -> SUBSET Nat]
    /\ rejects \in [Keys -> Nat]
    /\ verdict \in Verdict \cup {NoVerdict}

(* The bit window of oonf_duplicate_set.c is exact: current is the wire    *)
(* form of the newest accepted message, and bit b of the window is set if  *)
(* and only if the message b behind the newest one has been accepted since *)
(* the entry was created or restarted - across every wrap of the wire      *)
(* numbers, every shift and every jump past the window.                    *)
WindowExact ==
    \A k \in live :
      /\ entry[k].current = Wire(newest[k])
      /\ \A b \in 0 .. Window - 1 :
           b \in entry[k].history <=> newest[k] - b \in seen[k]

(* oonf_duplicate_entry_add never accepts a message a second time: unless  *)
(* the entry was restarted by that very call, a message answered with NEW  *)
(* or NEWEST was not accepted before.  olsrv2_mpr_shall_process and        *)
(* olsrv2_mpr_forwarding_selector rely on it to flood once.                *)
NoDoubleAccept ==
    [][\A k \in live :
         ( /\ verdict' /= NoVerdict
           /\ verdict'.key = k
           /\ IsNew(verdict'.result)
           /\ verdict'.msg > newest[k] - Window )
         => verdict'.msg \notin seen[k]]_vars

(* No message is lost to the filter: a message that is ahead of the newest *)
(* one, or less than Window behind it, and was not accepted before, is     *)
(* answered with NEW or NEWEST, in whatever order messages arrive.         *)
FreshAccepted ==
    [][\A k \in live :
         ( /\ verdict' /= NoVerdict
           /\ verdict'.key = k
           /\ verdict'.msg > newest[k] - Window
           /\ verdict'.msg \notin seen[k] )
         => IsNew(verdict'.result)]_vars

(* An originator that lost its sequence number (reboot) is not locked out: *)
(* no more than MaxTooOld of its messages in a row are refused as too old. *)
NoLockout == \A k \in live : rejects[k] <= MaxTooOld
=============================================================================
