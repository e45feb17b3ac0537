---------------------------- MODULE RxAdmission ----------------------------
(***************************************************************************)
(* Discovery, admission and subscription of the receive engine             *)
(* (try_latch, tick, select_originator and unpin_originator in             *)
(* core/src/rx.cpp): which tuple (originator, session, stream) serves each *)
(* local output, from the first packet heard to the implicit teardown.     *)
(* What a latched stream does with its packets is RxStream.                *)
(***************************************************************************)
EXTENDS Integers, Sequences, FiniteSets, TLC

CONSTANTS
  Tuples,          \* senders on the air: set of [orig, session, stream, type]
  Outputs,         \* the configured wants, in order: sequence of [id, type]
  Pins,            \* originators the operator may select
  AdmitN, AdmitWindow, IdleTeardown, CacheCap, AdmTickGap, MaxNow

ASSUME AdmissionConstants ==
  /\ {AdmitN, AdmitWindow, IdleTeardown, CacheCap, AdmTickGap, MaxNow} \subseteq Nat
  /\ AdmitN > 0 /\ CacheCap > 0 /\ AdmTickGap > 0 /\ MaxNow > 0

VARIABLES
  admNow, admTickBy,
  pin,         \* want.originator, the same in every want; NoPin when unset
  streams,     \* set of [tuple, id, last]
  discovery,   \* set of [tuple, count, first, last]
  arrivals     \* history: arrival times of each candidate since it was listed

admVars == <<admNow, admTickBy, pin, streams, discovery, arrivals>>

NoPin == 0
Originators == {t.orig : t \in Tuples}
NoArrivals == [t \in Tuples |-> <<>>]

AdmInit ==
  /\ admNow = 1 /\ admTickBy = admNow + AdmTickGap /\ pin = NoPin
  /\ streams = {} /\ discovery = {} /\ arrivals = NoArrivals

Latched(t) == \E x \in streams : x.tuple = t
Serving(id) == {x \in streams : x.id = id}

\* A want t may fill: an empty one, or one served by an earlier session of the
\* same originator.
Open(w, t) ==
  /\ w.type = t.type /\ pin \in {NoPin, t.orig}
  /\ \A x \in Serving(w.id) : x.tuple.orig = t.orig /\ x.tuple.session # t.session

\* Mutant: any tuple may replace the incumbent.
WantIgnoresIncumbent(t) ==
  {i \in DOMAIN Outputs : Outputs[i].type = t.type /\ pin \in {NoPin, t.orig}}
Want(t) ==
  {i \in DOMAIN Outputs : Open(Outputs[i], t)
                          /\ \A j \in 1 .. i - 1 : ~Open(Outputs[j], t)}

\* Mutant: the admission window never closes.
WindowNeverCloses(c) == FALSE
\* Mutant: the window is taken in the wrong unit.
WindowTooShort(c) == admNow - c.first > AdmitWindow \div 1000
WindowClosed(c) == admNow - c.first > AdmitWindow

Listed(t) == {c \in discovery : c.tuple = t}

\* The candidate after this packet: counted on, or begun afresh.
Touched(t) ==
  IF \E c \in Listed(t) : ~WindowClosed(c)
  THEN LET c == CHOOSE c \in Listed(t) : TRUE
       IN [c EXCEPT !.count = @ + 1, !.last = admNow]
  ELSE [tuple |-> t, count |-> 1, first |-> admNow, last |-> admNow]

\* Mutant: the candidate just touched counts towards the cap as before.
EvictAtCapPlusOne(others) ==
  IF Cardinality(others) > CacheCap
  THEN {others \ {v} : v \in {c \in others : \A d \in others : c.last <= d.last}}
  ELSE {others}

\* The LRU bound: one of the least recently heard others makes room.
Evict(others) ==
  IF Cardinality(others) + 1 > CacheCap
  THEN {others \ {v} : v \in {c \in others : \A d \in others : c.last <= d.last}}
  ELSE {others}

\* A packet of a tuple that is not latched: try_latch.
HearUnlatched(t) ==
  /\ ~Latched(t)
  /\ IF Want(t) = {} THEN UNCHANGED <<streams, discovery, arrivals>>
     ELSE \E i \in Want(t), left \in Evict(discovery \ Listed(t)) :
       /\ arrivals' = [u \in Tuples |->
            IF u = t THEN IF Touched(t).count >= AdmitN THEN <<>>
                          ELSE Append(arrivals[t], admNow)
            ELSE IF \E c \in left : c.tuple = u THEN arrivals[u] ELSE <<>>]
       /\ IF Touched(t).count < AdmitN
          THEN discovery' = left \cup {Touched(t)} /\ UNCHANGED streams
          ELSE /\ discovery' = left
               /\ streams' = (streams \ Serving(Outputs[i].id))
                    \cup {[tuple |-> t, id |-> Outputs[i].id, last |-> admNow]}
  /\ UNCHANGED <<admNow, admTickBy, pin>>

\* A packet of a latched stream keeps it alive.
HearLatched(t) ==
  /\ Latched(t)
  /\ streams' = {IF x.tuple = t THEN [x EXCEPT !.last = admNow] ELSE x : x \in streams}
  /\ UNCHANGED <<admNow, admTickBy, pin, discovery, arrivals>>

\* tick: implicit teardown, and ageing of the discovery cache.
AdmTick ==
  /\ streams' = {x \in streams : admNow - x.last <= IdleTeardown}
  /\ discovery' = {c \in discovery : admNow - c.last <= 4 * AdmitWindow}
  /\ arrivals' = [t \in Tuples |->
       IF \E c \in discovery' : c.tuple = t THEN arrivals[t] ELSE <<>>]
  /\ admTickBy' = admNow + AdmTickGap /\ UNCHANGED <<admNow, pin>>

\* Mutant: a new selection lets the old subscription run on.
SelectKeepsStreams(o) ==
  /\ pin # o /\ pin' = o /\ discovery' = {} /\ arrivals' = NoArrivals
  /\ UNCHANGED <<admNow, admTickBy, streams>>

\* select_originator: a changed pin tears the subscription down.
Select(o) ==
  /\ pin # o /\ pin' = o /\ streams' = {} /\ discovery' = {} /\ arrivals' = NoArrivals
  /\ UNCHANGED <<admNow, admTickBy>>

\* unpin_originator: tears down whether or not a pin was set.
Unpin ==
  /\ pin' = NoPin /\ streams' = {} /\ discovery' = {} /\ arrivals' = NoArrivals
  /\ UNCHANGED <<admNow, admTickBy>>

AdmAdvance ==
  /\ admNow < admTickBy /\ admNow < MaxNow /\ admNow' = admNow + 1
  /\ UNCHANGED <<admTickBy, pin, streams, discovery, arrivals>>

AdmNext ==
  \/ \E t \in Tuples : HearUnlatched(t) \/ HearLatched(t)
  \/ AdmTick \/ Unpin \/ AdmAdvance
  \/ \E o \in Pins : Select(o)

AdmSpec == AdmInit /\ [][AdmNext]_admVars
-----------------------------------------------------------------------------
\* Types, the cache cap of the enumeration-flood defence, and one entry a tuple.
AdmissionTypeOK ==
  /\ admNow \in 1 .. MaxNow /\ pin \in Pins \cup {NoPin}
  /\ Cardinality(discovery) <= CacheCap
  /\ \A c \in discovery : c.tuple \in Tuples /\ c.count \in 1 .. AdmitN - 1
  /\ \A c, d \in discovery : c.tuple = d.tuple => c = d

\* Every output is served by at most one stream, every tuple serves at most one
\* output, and a selected originator is the only one anybody watches.
OneServer ==
  /\ \A x, y \in streams : (x.id = y.id \/ x.tuple = y.tuple) => x = y
  /\ \A x \in streams : pin \in {NoPin, x.tuple.orig}

\* A subscription is changed under the viewer only by a new session of the same
\* originator: another craft gets in only after a teardown.
IncumbentHolds ==
  [][\A x \in streams, y \in streams' :
       x.id = y.id => x.tuple.orig = y.tuple.orig]_admVars

\* A tuple is latched only on AdmitN packets heard within the window: one packet
\* more than the arrivals listed, all of them recent.
AdmissionEarned ==
  [][\A y \in streams' : ~Latched(y.tuple) =>
       LET h == Append(arrivals[y.tuple], admNow)
       IN Len(h) >= AdmitN /\ admNow - h[Len(h) - AdmitN + 1] <= AdmitWindow]_admVars

\* A sender that keeps sending is let in: 2 * AdmitN - 1 packets in one window
\* always suffice, however they straddle the restart of the count.
AdmissionGranted ==
  \A t \in Tuples :
    Len(arrivals[t]) >= 2 * AdmitN - 1 =>
      LET h == arrivals[t]
      IN h[Len(h)] - h[Len(h) - 2 * AdmitN + 2] > AdmitWindow

\* A seat at an output is exclusive, earned, kept by its originator while it is served,
\* and within reach of every sender that keeps sending, under a capped cache (rx.cpp
\* admit and find_or_latch).
AdmissionSound == /\ []AdmissionTypeOK /\ []OneServer /\ []AdmissionGranted
                  /\ IncumbentHolds /\ AdmissionEarned
=============================================================================
