----------------------------- MODULE CraftCalib -----------------------------
(***************************************************************************)
(* The craft's own power calibration (Calibrator in                        *)
(* src/core/include/wblink/calibrate.h) as TxCore drives it                *)
(* (src/node/include/wblink/node/tx_core.h): for every rate a power        *)
(* search, each step of it one dwell against the ground's receiver, on a   *)
(* live link whose power other authorities move too.  The air loses,       *)
(* delays, reorders and, over two adapters, duplicates.  The craft is a    *)
(* radio, so powers are offsets and rung ceilings are not tapered.         *)
(***************************************************************************)
EXTENDS PowerSeek

CONSTANTS TopRung,     \* the last rate, 7 in the code
          AirCap,      \* bound: calibration frames in flight
          MaxRuns,     \* bound: runs started
          MaxMeddles   \* bound: operator, retune and clock events

ASSUME CalibAssumption == LossMax = Count /\ TopRung \in Nat

VARIABLES cal,     \* the Calibrator
          snd,     \* its DwellSender
          rcv,     \* the ground's DwellReceiver
          air,     \* probes and tallies in flight
          hw,      \* the actuator: who set it last and, for a probe, to what
          pinned,  \* the rung the selector is pinned to, Unset for its window
          latch,   \* a power override is latched
          curve,   \* a curve is installed
          heard,   \* history: probes of the current dwell the ground heard
          reads,   \* history: verify readings of the run that carried a tally
          stray,   \* history: why power or pin need not be where the run put them
          runs, meddles

ccVars == <<cal, snd, rcv, air, hw, pinned, latch, curve, heard, reads, stray,
            runs, meddles>>

Rungs == 0..TopRung
NoPlacement == [qdb |-> Unset, loss |-> 0]

IdleCalibrator ==
    [state |-> "idle", rung |-> 0, enter |-> FALSE, seek |-> SeekBegin, dwell |-> 0,
     restore |-> FALSE, ready |-> FALSE, art |-> [r \in Rungs |-> NoPlacement]]

ByProbe(q) == [by |-> "probe", qdb |-> q]
By(owner) == [by |-> owner, qdb |-> Unset]

CCInit ==
    /\ cal = IdleCalibrator /\ snd = IdleSender /\ rcv = IdleReceiver /\ air = {}
    /\ hw = By("safe") /\ pinned = Unset /\ latch = FALSE /\ curve = FALSE
    /\ heard = {} /\ reads = {} /\ stray = {} /\ runs = 0 /\ meddles = 0

Calibrating == cal.state = "running"

\* The power authority outside a run: latch, then curve, then the safe offset.
Authority(l, c) == By(IF l THEN "latch" ELSE IF c THEN "curve" ELSE "safe")

\* A write of the run itself, accepted or refused: its result is ignored.
WrittenByRun(ok) ==
    IF ok THEN stray \ {"refused", "moved"} ELSE stray \cup {"refused"}

\* A write of another authority: during a run it moves the power away.
WrittenByOther(ok) ==
    IF ~ok THEN stray
    ELSE IF Calibrating THEN stray \cup {"moved"} ELSE stray \ {"refused"}

-----------------------------------------------------------------------------
\* CALIBRATE 1 and 0.  A start drops a restore that is still pending.
Start ==
    /\ ~Calibrating /\ runs < MaxRuns
    /\ runs' = runs + 1
    /\ cal' = [IdleCalibrator EXCEPT !.state = "running", !.enter = TRUE]
    /\ reads' = {} /\ stray' = {}
    /\ UNCHANGED <<snd, rcv, air, hw, pinned, latch, curve, heard, meddles>>

\* The end of a run asks for the power and the pin to be handed back.
FinishUnrestored(c, s) == [c EXCEPT !.state = s, !.ready = (s = "done")]
Finish(c, s) == [c EXCEPT !.state = s, !.restore = TRUE, !.ready = (s = "done")]

Abort ==
    /\ Calibrating
    /\ cal' = Finish(cal, "failed") /\ snd' = IdleSender
    /\ UNCHANGED <<rcv, air, hw, pinned, latch, curve, heard, reads, stray, runs, meddles>>

\* What Calibrator::tick() returns: the calibrator, the sender, the power and the
\* rung to set (Unset for none), and the verify reading it consumed.
Acts(c, s, q, r, read) == [cal |-> c, snd |-> s, qdb |-> q, rung |-> r, read |-> read]

NewDwell(c) == [c EXCEPT !.dwell = @ + 1]

\* apply_step(): the next dwell of the same rung, or the end of the run.
ApplyStep(c, step, read) ==
    LET k == [c EXCEPT !.seek = step.seek]
    IN IF step.kind = "failed" THEN Acts(Finish(k, "failed"), IdleSender, Unset, Unset, read)
       ELSE Acts(NewDwell(k), BeginDwell(runs, k.dwell + 1), step.seek.qdb, Unset, read)

\* next_rung(): the following rung from the floor, or the finished artifact.
NextRung(c, read) ==
    IF c.rung = TopRung THEN Acts(Finish(c, "done"), IdleSender, Unset, Unset, read)
    ELSE LET k == NewDwell([c EXCEPT !.rung = @ + 1, !.seek = SeekBegin])
         IN Acts(k, BeginDwell(runs, k.dwell), 0, k.rung, read)

\* A dwell without a tally counts as lost whole; it may not complete a rung.
Blackout(c) ==
    LET step == OnDwell(c.seek, LossMax, FALSE)
    IN IF step.kind \in {"probe", "verify"} THEN ApplyStep(c, step, {})
       ELSE Acts(Finish(c, "failed"), IdleSender, Unset, Unset, {})

\* A dwell with its tally.
Reading(c, hot) ==
    LET loss == Count - snd.got
        step == OnDwell(c.seek, loss, hot)
        read == IF c.seek.phase = "verify"
                THEN {[rung |-> c.rung, qdb |-> c.seek.qdb, loss |-> loss,
                       at |-> hw, on |-> pinned, stray |-> stray]} ELSE {}
    IN IF step.kind = "done"
       THEN NextRung([c EXCEPT !.seek = step.seek,
                               !.art[c.rung] = [qdb |-> step.seek.qdb,
                                                loss |-> step.seek.loss]], read)
       ELSE ApplyStep(c, step, read)

\* Calibrator::tick(); late: the hard cap has passed.
CalTick(late, hot) ==
    IF ~Calibrating THEN Acts(cal, snd, Unset, Unset, {})
    ELSE IF late THEN Acts(Finish(cal, "failed"), IdleSender, Unset, Unset, {})
    ELSE IF snd.st = "noevidence" THEN Blackout(cal)
    ELSE IF cal.enter
    THEN Acts(NewDwell([cal EXCEPT !.enter = FALSE]), BeginDwell(runs, cal.dwell + 1),
              0, cal.rung, {})
    ELSE IF snd.st = "done" THEN Reading(cal, hot)
    ELSE Acts(cal, snd, Unset, Unset, {})

\* What may go wrong in a pass: the hard cap passes, the radio refuses a power
\* write (or, restoring a curve with nothing committed yet, none is made), the
\* ladder carries no profile of the rate to pin.
Faults == {"late", "refused", "ladderless"}

\* The calibrator and its sender once the tick's writes are made: what it asked for
\* is done, or the run fails where the ladder has no profile to pin.
AfterWrites(a, ladderless) ==
    IF ladderless THEN [cal |-> Finish(a.cal, "failed"), snd |-> IdleSender]
    ELSE [cal |-> [a.cal EXCEPT !.restore = FALSE, !.ready = FALSE], snd |-> a.snd]

\* calibrate_probe_service(): the sender after it and the probe it sends, if any.
ProbeService(p, due) ==
    IF due /\ p.cal.state = "running" THEN NextProbe(p.snd)
    ELSE [snd |-> p.snd, out |-> {}]

\* One pass of the loop: calibrate_service() (artifact, restore, power, pin), then
\* calibrate_probe_service().  due: the pacing or tally clock allows a frame;
\* lost: it does not get through; saved: the artifact write succeeds.  A choice
\* that cannot matter in the pass is not offered.
CalibPass(faults, hot, saved, due, lost) ==
    /\ faults # {} => meddles < MaxMeddles
    /\ "late" \in faults => Calibrating
    /\ hot => snd.st = "done"
    /\ lost => due
    /\ \E a \in {CalTick("late" \in faults, hot)} :
       \E p \in {AfterWrites(a, "ladderless" \in faults)} :
       \E n \in {ProbeService(p, due)} :
        /\ "refused" \in faults => a.cal.restore \/ a.qdb # Unset
        /\ "ladderless" \in faults => a.rung # Unset
        /\ a.cal.ready \/ saved
        /\ lost => n.out # {}
        /\ meddles' = IF faults = {} THEN meddles ELSE meddles + 1
        /\ cal' = p.cal
        /\ snd' = n.snd
        /\ curve' = (curve \/ (a.cal.ready /\ saved))
        /\ hw' = IF "refused" \in faults THEN hw
                 ELSE IF a.cal.restore THEN Authority(latch, curve')
                 ELSE IF a.qdb # Unset THEN ByProbe(a.qdb) ELSE hw
        /\ pinned' = IF a.cal.restore THEN Unset
                     ELSE IF a.rung # Unset /\ "ladderless" \notin faults THEN a.rung
                     ELSE pinned
        /\ stray' = IF a.cal.restore THEN faults \cap {"refused"}
                    ELSE IF a.qdb = Unset THEN stray
                    ELSE WrittenByRun("refused" \notin faults)
                           \ (IF a.rung # Unset THEN {"repinned"} ELSE {})
        /\ air' = IF lost \/ Cardinality(air) >= AirCap THEN air ELSE air \cup n.out
        /\ heard' = IF a.cal.dwell # cal.dwell THEN {} ELSE heard
        /\ reads' = reads \cup a.read
        /\ UNCHANGED <<rcv, latch, runs>>

\* A probe at the ground, which answers at once; keep: another copy follows.
ProbeHeard(m, keep, lost) ==
    /\ m.kind = "probe"
    /\ keep => meddles < MaxMeddles
    /\ meddles' = IF keep THEN meddles + 1 ELSE meddles
    /\ \E o \in {OnProbe(rcv, m)} :
        /\ rcv' = o.rcv
        /\ air' = (IF keep THEN air ELSE air \ {m}) \cup (IF lost THEN {} ELSE o.out)
    /\ heard' = IF m.run = snd.run /\ m.dwell = snd.dwell THEN heard \cup {m.seq} ELSE heard
    /\ UNCHANGED <<cal, snd, hw, pinned, latch, curve, reads, stray, runs>>

\* A tally at the craft; the calibrator ignores it unless it runs.
TallyHeard(m) ==
    /\ m.kind = "tally"
    /\ air' = air \ {m}
    /\ snd' = IF Calibrating THEN OnTally(snd, m) ELSE snd
    /\ UNCHANGED <<cal, rcv, hw, pinned, latch, curve, heard, reads, stray, runs, meddles>>

Meddle == meddles < MaxMeddles /\ meddles' = meddles + 1

\* TX_POWER: refused while a run is on; otherwise the calibrator is built anew,
\* and with it goes a restore that an abort left pending.  ok: the radio takes the
\* power written, if one is.
SetPowerTier(ok) ==
    /\ Meddle
    /\ ~Calibrating
    /\ ok => latch \/ curve
    /\ cal' = IdleCalibrator /\ snd' = IdleSender
    /\ hw' = IF ok THEN Authority(latch, curve) ELSE hw
    /\ stray' = WrittenByOther(ok) \cup (IF cal.restore THEN {"dropped"} ELSE {})
    /\ UNCHANGED <<rcv, air, pinned, latch, curve, heard, reads, runs>>

\* The override latch, set and cleared at any time; one the radio refuses is not
\* recorded.
SetOverride(on, ok) ==
    /\ Meddle
    /\ latch' = IF ok THEN on ELSE latch /\ on
    /\ hw' = IF ok THEN Authority(on, curve) ELSE hw
    /\ stray' = WrittenByOther(ok)
    /\ UNCHANGED <<cal, snd, rcv, air, pinned, curve, heard, reads, runs>>

\* reassert_power() after a channel change.
ReassertPower ==
    /\ Meddle
    /\ hw' = Authority(latch, curve)
    /\ stray' = WrittenByOther(TRUE)
    /\ UNCHANGED <<cal, snd, rcv, air, pinned, latch, curve, heard, reads, runs>>

\* A profile window of the operator, over HTTP, takes a run's pin away.
MovePin ==
    /\ Meddle
    /\ pinned' = Unset
    /\ stray' = IF Calibrating THEN stray \cup {"repinned"} ELSE stray
    /\ UNCHANGED <<cal, snd, rcv, air, hw, latch, curve, heard, reads, runs>>

CCNext ==
    \/ Start
    \/ Abort
    \/ \E faults \in SUBSET Faults, hot, saved, due, lost \in BOOLEAN :
          CalibPass(faults, hot, saved, due, lost)
    \/ \E m \in air, keep, lost \in BOOLEAN : ProbeHeard(m, keep, lost)
    \/ \E m \in air : TallyHeard(m)
    \/ \E ok \in BOOLEAN : SetPowerTier(ok)
    \/ \E on, ok \in BOOLEAN : SetOverride(on, ok)
    \/ ReassertPower
    \/ MovePin

CCSpec == CCInit /\ [][CCNext]_ccVars

-----------------------------------------------------------------------------
\* A dwell is never credited with more probes than the ground heard of it: not
\* by a tally of an earlier dwell or run, a probe heard twice, or a dwell closed
\* by the next one (calib_dwell.h on_tally and on_probe).
EvidenceHonest ==
    [][snd.st # "done" /\ snd'.st = "done" => snd'.got <= Cardinality(heard)]_ccVars

\* A rung is placed at the least loss its verify walk read, and a placement better
\* than total loss is one of those readings (calibrate.h verify_ and the artifact
\* bookkeeping in Calibrator::tick).  A reading was taken at the power and the
\* rate it is booked for, unless a refused write, another authority's write or
\* the operator's window took the radio elsewhere since the dwell began.
PlacementMeasured ==
    /\ \A r \in Rungs : cal.art[r].qdb # Unset =>
          /\ \A d \in reads : d.rung = r => cal.art[r].loss <= d.loss
          /\ cal.art[r].loss < LossMax =>
                \E d \in reads : /\ d.rung = r /\ d.qdb = cal.art[r].qdb
                                 /\ d.loss = cal.art[r].loss
    /\ \A d \in reads :
          /\ d.stray \cap {"refused", "moved"} = {} => d.at = ByProbe(d.qdb)
          /\ "repinned" \notin d.stray => d.on = d.rung

\* From its first dwell to its end a run holds the power and the rate of the
\* search's present step, and once it is over both are handed back, whatever ended
\* it; the exceptions are the ones the code has (TxCore::calibrate_service,
\* Calibrator::apply_step and next_rung, TxCore::set_power_tier).
PowerOwned ==
    /\ Calibrating /\ ~cal.enter =>
          /\ stray \cap {"refused", "moved"} = {} => hw = ByProbe(cal.seek.qdb)
          /\ "repinned" \notin stray => pinned = cal.rung
    /\ ~Calibrating /\ ~cal.restore /\ "dropped" \notin stray =>
          /\ "refused" \notin stray => hw.by # "probe"
          /\ pinned = Unset

\* The two together: what a run measures and what it does to the radio.
CraftCalibSound == PlacementMeasured /\ PowerOwned

\* A latch set during a run waits for it (TxCore::set_power_override): while a run
\* owns the actuator no probe of it goes out at a latched power.
RunYieldsFirst ==
    [][\A m \in air' \ air : m.kind = "probe" => hw'.by # "latch"]_ccVars
=============================================================================
