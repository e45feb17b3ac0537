----------------------------- MODULE PowerSeek ------------------------------
(***************************************************************************)
(* What both calibrations share: the power search (PowerSeek in            *)
(* src/core/include/wblink/calibrate.h), which climbs from the floor, then *)
(* verifies downwards for the least loss, and its measurement, the dwell   *)
(* (calib_dwell.h): a burst of numbered probes, a tally of the distinct    *)
(* ones heard, and bounded re-elicitation of a lost tally.  Powers are     *)
(* steps of the sweep, losses are classes compared with the two            *)
(* thresholds, clocks are choices of the caller.                           *)
(***************************************************************************)
EXTENDS Integers, FiniteSets, FiniteSetsExt

CONSTANTS MaxQdb,         \* the ceiling; the floor is 0 and a step is 1
          BracketCap,     \* no_bracket_cap_qdb, MaxQdb when there is none
          LossOk, LossBad, LossMax,
          DescentBudget,  \* verify_descent_budget
          Count,          \* probes of a dwell
          TallyRetries

ASSUME SeekAssumption ==
    /\ MaxQdb \in Nat /\ BracketCap \in 0..MaxQdb /\ DescentBudget \in Nat
    /\ 0 <= LossOk /\ LossOk <= LossBad /\ LossBad < LossMax
ASSUME DwellAssumption == Count \in Nat \ {0} /\ TallyRetries \in Nat

Unset == -1

\* begin().  clean, bad and best are powers; loss is best_loss_.
SeekBegin == [phase |-> "sweep", qdb |-> 0, clean |-> Unset, bad |-> Unset,
              best |-> Unset, loss |-> 0, descents |-> 0]

\* A SeekStep: the search after the dwell and what the caller does next.
SeekStep(kind, s) == [kind |-> kind, seek |-> s]

NoteBad(s) == [s EXCEPT !.bad = IF @ = Unset THEN s.qdb ELSE @]

\* place_(): without a wall above the highest clean power, verify starts at the cap.
Place(s) ==
    LET walled == s.bad > s.clean
    IN SeekStep("verify",
                [s EXCEPT !.phase = "verify",
                          !.qdb = IF walled THEN s.clean ELSE Min({s.clean, BracketCap})])

\* The placement: the walk goes back to its best reading.
Settled(s) == [s EXCEPT !.qdb = s.best]

\* verify_(): descend while the reading is unacceptable or the best so far.
Verify(s, loss) ==
    LET isBest == s.best = Unset \/ loss < s.loss
        kept == IF isBest THEN [s EXCEPT !.best = s.qdb, !.loss = loss] ELSE s
        down == (loss > LossOk \/ isBest) /\ s.descents < DescentBudget /\ s.qdb > 0
        noted == IF loss > LossBad THEN NoteBad(kept) ELSE kept
    IN IF down THEN SeekStep("verify", [noted EXCEPT !.descents = @ + 1, !.qdb = @ - 1])
       ELSE SeekStep("done", Settled(kept))

\* on_dwell(): hot stands for an RSSI above the guard.
OnDwell(s, loss, hot) ==
    LET clean == loss <= LossBad
        read == IF clean THEN [s EXCEPT !.clean = s.qdb]
                ELSE IF s.clean # Unset THEN NoteBad(s) ELSE s
    IN IF s.phase = "verify" THEN Verify(s, loss)
       ELSE IF clean /\ hot THEN Place(read)
       ELSE IF s.qdb < MaxQdb THEN SeekStep("probe", [read EXCEPT !.qdb = @ + 1])
       ELSE IF read.clean # Unset THEN Place(read)
       ELSE SeekStep("failed", read)

-----------------------------------------------------------------------------
(* The dwell.                                                              *)

IdleSender == [st |-> "idle", run |-> 0, dwell |-> 0, seq |-> 0, retries |-> 0, got |-> 0]

BeginDwell(run, dwell) ==
    [st |-> "emitting", run |-> run, dwell |-> dwell, seq |-> 1,
     retries |-> TallyRetries, got |-> 0]

Probe(s, seq) == [kind |-> "probe", run |-> s.run, dwell |-> s.dwell, seq |-> seq]

\* next_probe() when pacing (emitting) or tally_wait_ms (awaiting) has elapsed:
\* the sender after it and the probes sent.
NextProbe(s) ==
    CASE s.st = "emitting" ->
           [snd |-> IF s.seq = Count THEN [s EXCEPT !.st = "await"]
                    ELSE [s EXCEPT !.seq = @ + 1],
            out |-> {Probe(s, s.seq)}]
      [] s.st = "await" /\ s.retries > 0 ->
           [snd |-> [s EXCEPT !.retries = @ - 1], out |-> {Probe(s, Count)}]
      [] s.st = "await" /\ s.retries = 0 ->
           [snd |-> [s EXCEPT !.st = "noevidence"], out |-> {}]
      [] OTHER -> [snd |-> s, out |-> {}]

\* on_tally(): only the dwell in progress is evidence.
OnTallyAnyDwell(s, t) ==
    IF s.st \in {"emitting", "await"} /\ t.run = s.run
    THEN [s EXCEPT !.st = "done", !.got = t.received] ELSE s
OnTally(s, t) ==
    IF s.st \in {"emitting", "await"} /\ t.run = s.run /\ t.dwell = s.dwell
    THEN [s EXCEPT !.st = "done", !.got = t.received] ELSE s

\* The receiver: the run, the open dwell with the probes seen, the closed dwell
\* with its tally.  expire_run() forgets all of it.
IdleReceiver == [run |-> 0, open |-> 0, seen |-> {}, closed |-> 0, count |-> 0]

Close(r) == [r EXCEPT !.closed = r.open, !.count = Cardinality(r.seen),
                      !.open = 0, !.seen = {}]

Tally(r) == {[kind |-> "tally", run |-> r.run, dwell |-> r.closed, received |-> r.count]}

\* on_probe(): a closed dwell is answered again, an older one ignored, a later
\* one closes the open one.  Returns the receiver and the tally sent, if any.
OnProbe(r0, p) ==
    LET r == IF p.run = r0.run THEN r0 ELSE [IdleReceiver EXCEPT !.run = p.run]
        succeeds == r.open # 0 /\ p.dwell # r.open
        base == IF succeeds THEN Close(r) ELSE r
        heard == [base EXCEPT !.open = p.dwell, !.seen = @ \cup {p.seq}]
    IN IF p.dwell = r.closed THEN [rcv |-> r, out |-> Tally(r)]
       ELSE IF p.dwell < r.open \/ p.dwell < r.closed THEN [rcv |-> r, out |-> {}]
       ELSE IF p.seq = Count THEN [rcv |-> Close(heard), out |-> Tally(Close(heard))]
       ELSE [rcv |-> heard, out |-> IF succeeds THEN Tally(base) ELSE {}]
=============================================================================
