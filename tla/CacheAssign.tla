---------------------------- MODULE CacheAssign -----------------------------
(***************************************************************************)
(* Assignment of a cache node to a craft: the ground repeats CACHE_ASSIGN  *)
(* (rx_node.cpp assign_caches, service_cache_repair) until the cache's     *)
(* status shows the target; the cache gates every datagram                 *)
(* (src/core/src/cache_assignment.cpp), retunes, and commits.  The ground  *)
(* restarts with a new session; UDP delays, reorders, duplicates, loses.   *)
(***************************************************************************)
EXTENDS Naturals, Sequences, SequencesExt

CONSTANTS Targets,        \* originators the operator may select
          RetiredCap,    \* sessions the gate remembers as retired
          MaxSessions,   \* bound: sessions of the ground
          MaxEpoch       \* bound: selections of a session

ASSUME CacheAssignAssumption ==
    RetiredCap \in Nat /\ MaxSessions \in Nat \ {0} /\ MaxEpoch \in Nat

VARIABLES ground,   \* [session, epoch, target]: desired_cache_assignment
          wire,     \* CACHE_ASSIGN datagrams in flight
          gate,     \* [current, retired] of the cache's gate
          serves,   \* the store's target originator, 0 for none
          past      \* history: sessions whose assignment was current once

caVars == <<ground, wire, gate, serves, past>>

NoAssign == [session |-> 0, epoch |-> 0, target |-> 0]

CAInit ==
    /\ ground = [session |-> 1, epoch |-> 0, target |-> 0]
    /\ wire = {} /\ serves = 0 /\ past = {}
    /\ gate = [current |-> NoAssign, retired |-> <<>>]

\* assign_caches() on a selection.
SelectCraft(t) ==
    /\ ground.epoch < MaxEpoch
    /\ ground' = [ground EXCEPT !.epoch = @ + 1, !.target = t]
    /\ UNCHANGED <<wire, gate, serves, past>>

\* The ground process restarts: a new session, epochs from 1 again.
GroundRestart ==
    /\ ground.session < MaxSessions
    /\ ground' = [session |-> ground.session + 1, epoch |-> 0, target |-> 0]
    /\ UNCHANGED <<wire, gate, serves, past>>

\* has_fresh_target(): no more sends while the cache reports the target.
SendAssign ==
    /\ ground.epoch > 0
    /\ serves # ground.target
    /\ wire' = wire \cup {ground}
    /\ UNCHANGED <<ground, gate, serves, past>>

\* evaluate(), for a datagram of the configured controller to this cache.
AppliesAlways(a) ==
    \/ gate.current = NoAssign
    \/ a.session # gate.current.session
    \/ a.session = gate.current.session /\ a.epoch > gate.current.epoch
Applies(a) ==
    \/ gate.current = NoAssign
    \/ a.session # gate.current.session /\ a.session \notin ToSet(gate.retired)
    \/ a.session = gate.current.session /\ a.epoch > gate.current.epoch

\* commit(): a replaced session is retired, the oldest retired one forgotten.
Retired(a) ==
    IF gate.current = NoAssign \/ gate.current.session = a.session THEN gate.retired
    ELSE LET q == Append(gate.retired, gate.current.session)
         IN IF Len(q) > RetiredCap THEN Tail(q) ELSE q

\* A datagram at the cache: gate, retune, target, commit; a failed retune
\* changes nothing, so the same epoch stays applicable.
ReceiveAssign(a, keep, tuned) ==
    /\ wire' = IF keep THEN wire ELSE wire \ {a}
    /\ IF Applies(a) /\ tuned
       THEN /\ serves' = a.target
            /\ gate' = [current |-> a, retired |-> Retired(a)]
            /\ past' = past \cup {a.session}
       ELSE UNCHANGED <<gate, serves, past>>
    /\ UNCHANGED ground

CANext ==
    \/ \E t \in Targets : SelectCraft(t)
    \/ GroundRestart
    \/ SendAssign
    \/ \E a \in wire, keep, tuned \in BOOLEAN : ReceiveAssign(a, keep, tuned)

-----------------------------------------------------------------------------
\* A session of the ground that the cache has replaced never takes the cache
\* back, and within a session the applied epoch only grows, whatever copies of
\* old assignments still arrive (cache_assignment.cpp evaluate and commit).
NoReturn ==
    [][gate'.current # gate.current =>
         IF gate'.current.session = gate.current.session
         THEN gate'.current.epoch > gate.current.epoch
         ELSE gate'.current.session \notin past]_caVars
=============================================================================
