--------------------------- MODULE LatchRecovery ----------------------------
(***************************************************************************)
(* Asking the craft for a decoder start point (LatchRecovery,              *)
(* src/core/src/recovery.cpp, driven by RxCore): a bounded burst of        *)
(* recovery requests when a stream latches, stood down by an IRAP at the   *)
(* egress, started again by a repaired frame, and backed off when a burst  *)
(* went unanswered.  One egress stream, whose wire tuple changes with the  *)
(* craft's session.  Time is counted in request periods, as countdowns.    *)
(***************************************************************************)
EXTENDS Naturals, Sequences

CONSTANTS Sessions,       \* wire tuples the egress stream can be latched to
          Attempts,       \* kAttempts
          AskPeriod,         \* kPeriodMs
          RearmBackoff,   \* kRearmBackoffMs
          MaxLatches      \* bound

ASSUME RecoveryAssumption ==
    /\ Attempts \in Nat \ {0} /\ AskPeriod \in Nat \ {0} /\ RearmBackoff \in Nat \ {0}
    /\ 0 \notin Sessions

Unlatched == 0
NoEntry == [key |-> Unlatched, attempts |-> 0, next |-> 0, done |-> FALSE,
            answered |-> FALSE, rearm |-> 0]

VARIABLES tuple,   \* the tuple the engine has latched, Unlatched for none
          entry,     \* entries_: the egress stream has at most one between two due() calls
          asks,      \* history: ages of the requests since the last latch or IRAP
          latches

lrVars == <<tuple, entry, asks, latches>>

LRInit ==
    /\ tuple = Unlatched /\ entry = NoEntry /\ asks = << >>
    /\ latches = 0

-----------------------------------------------------------------------------
\* The engine latches a tuple, perhaps in place of another, or tears it down; due()
\* runs in the iteration of a teardown, before anything latches again.
Latched(k) ==
    /\ tuple # k /\ (tuple # Unlatched \/ entry = NoEntry)
    /\ latches < MaxLatches /\ latches' = latches + 1
    /\ tuple' = k /\ UNCHANGED <<entry, asks>>
TornDown ==
    /\ tuple # Unlatched /\ tuple' = Unlatched
    /\ UNCHANGED <<entry, asks, latches>>

\* due(): forget what is not latched, enter what is new, ask when the schedule says so.
Reconciled ==
    IF tuple = Unlatched THEN NoEntry
    ELSE IF entry.key = tuple THEN entry ELSE [NoEntry EXCEPT !.key = tuple]
Asks(e) == e.key # Unlatched /\ ~e.done /\ e.attempts < Attempts /\ e.next = 0
Asked(e) ==
    [e EXCEPT !.attempts = @ + 1, !.next = AskPeriod,
              !.rearm = IF e.attempts + 1 >= Attempts THEN RearmBackoff ELSE @]

Due ==
    \E e \in {Reconciled} :
        LET past == IF e.key = entry.key THEN asks ELSE << >>
        IN /\ entry' = IF Asks(e) THEN Asked(e) ELSE e
           /\ asks' = IF Asks(e) THEN Append(past, 0) ELSE past
           /\ entry' # entry
           /\ UNCHANGED <<tuple, latches>>

Less(n) == IF n = 0 THEN 0 ELSE n - 1
Young(age) == age < RearmBackoff

\* The oldest request is the first, so those the history forgets are a prefix.
Elapse ==
    /\ entry # NoEntry
    /\ entry' = [entry EXCEPT !.next = Less(@), !.rearm = Less(@)]
    /\ \E k \in 0 .. Len(asks) :
         /\ \A i \in DOMAIN asks : i <= k <=> ~Young(asks[i] + 1)
         /\ asks' = [i \in 1 .. Len(asks) - k |-> asks[i + k] + 1]
    /\ entry' # entry \/ asks' # asks
    /\ UNCHANGED <<tuple, latches>>

-----------------------------------------------------------------------------
\* A frame reaches the egress: an IRAP, repaired or not, is note_irap.
Irap ==
    /\ entry # NoEntry
    /\ entry' = [entry EXCEPT !.done = TRUE, !.answered = TRUE]
    /\ asks' = << >>
    /\ UNCHANGED <<tuple, latches>>

\* note_damage(): an asking schedule is left alone, an unanswered one waits its backoff.
InFlight(e) == ~e.done /\ e.attempts < Attempts
NotBackedOff(e) == FALSE
BackedOff(e) == ~e.answered /\ e.rearm > 0
Rearmed(e) == [e EXCEPT !.attempts = 0, !.done = FALSE, !.next = 0, !.answered = FALSE]

Damage ==
    /\ entry # NoEntry
    /\ entry' = IF InFlight(entry) \/ BackedOff(entry) THEN entry ELSE Rearmed(entry)
    /\ entry' # entry
    /\ UNCHANGED <<tuple, asks, latches>>

LRNext == (\E k \in Sessions : Latched(k)) \/ TornDown \/ Due \/ Elapse \/ Irap \/ Damage

LRSpec == LRInit /\ [][LRNext]_lrVars

-----------------------------------------------------------------------------
\* A craft that answers nothing is asked at most Attempts times in any stretch as long as
\* the backoff, however many repaired frames go by and in whatever order they come with
\* the asking.
AskBudget == Len(asks) <= Attempts
=============================================================================
