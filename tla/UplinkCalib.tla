---------------------------- MODULE UplinkCalib ----------------------------
(***************************************************************************)
(* The ground's uplink power calibration (UplinkCalibrator) and the        *)
(* sequence that follows it with the craft's own run (CalibSequencer, both *)
(* in src/core/include/wblink/uplink_calibrate.h), inside the loop of      *)
(* src/node/src/rx_node.cpp that owns the actuator (UplinkPower), the      *)
(* artifact and the selected craft.  The search itself is PowerSeek, as in *)
(* CraftCalib; here a dwell only ends, and the run with it.                *)
(* The craft is seen through the commands it takes and the word it airs.   *)
(***************************************************************************)
EXTENDS Naturals

CONSTANTS Crafts,       \* originators, not 0
          MaxStarts,    \* bound: runs the operator starts
          MaxCraftRuns, \* bound: runs of a craft
          MaxMoves      \* bound: latches, claims, moves, overrides, boots

ASSUME UplinkCalibAssumption == 0 \notin Crafts

NoCommand == [arg |-> "none", to |-> 0, taken |-> FALSE]
NoArtifact == [craft |-> 0, fp |-> 0]

VARIABLES ucal,     \* the calibrator: state, the craft it is bound to, dwell ended
          seq,      \* the sequencer: phase, saw_running
          power,    \* override latched; artifact in memory; pairing key; who set hw
          sel,      \* selection: state, craft, the fingerprint of the last tally
          vcmd,     \* the command campaign: argument, target, taken by it
          craft,    \* each craft's calibrator, and its runs
          word,     \* the calibration state last heard of the craft
          starts, moves,
          owed      \* history: a claimed craft's sequence still waits for its run

ucVars == <<ucal, seq, power, sel, vcmd, craft, word, starts, moves, owed>>

UCInit ==
    /\ ucal = [state |-> "idle", of |-> 0, ended |-> FALSE]
    /\ seq = [phase |-> "idle", saw |-> FALSE]
    /\ power = [latch |-> FALSE, art |-> NoArtifact, key |-> <<0, 0>>, hw |-> "auto"]
    /\ sel = [state |-> "spectating", craft |-> 0, fp |-> 0]
    /\ vcmd = NoCommand
    /\ craft = [c \in Crafts |-> [state |-> "idle", runs |-> 0]]
    /\ word = "none" /\ starts = 0 /\ moves = 0 /\ owed = FALSE

SeqActive == seq.phase \in {"uplink", "downlink"}

\* UplinkPower::resolve() with the artifact's pairing check.  The owner between latch
\* and artifact, a power map of the configuration, which no run replaces, is left out.
Matches(a, s) == a # NoArtifact /\ a.craft = s.craft /\ (s.fp # 0 => a.fp = s.fp)
Resolve(l, a, s) == IF l THEN "latch" ELSE IF Matches(a, s) THEN "artifact" ELSE "auto"
Applied(p, s) == [p EXCEPT !.hw = Resolve(p.latch, p.art, s)]
Pairing(s) == <<s.craft, s.fp>>

\* The pairing pass: never while a run owns the actuator.
Repaired(p, s, running) ==
    IF ~running /\ p.art # NoArtifact /\ p.key # Pairing(s)
    THEN Applied([p EXCEPT !.key = Pairing(s)], s) ELSE p

\* start_vehicle_command("calibrate", ...) for a claimed craft, one campaign at a time.
Issued(arg) ==
    IF sel.state = "committed" /\ sel.craft # 0 /\ vcmd.arg = "none"
    THEN [arg |-> arg, to |-> sel.craft, taken |-> FALSE] ELSE vcmd

-----------------------------------------------------------------------------
\* POST uplink calibrate: start, start_both.
OperatorStart(both) ==
    /\ ~SeqActive /\ ucal.state # "running" /\ starts < MaxStarts
    /\ sel.craft # 0 /\ ~power.latch /\ word # "running"
    /\ ucal' = [state |-> "running", of |-> sel.craft, ended |-> FALSE]
    /\ seq' = IF both THEN [phase |-> "uplink", saw |-> FALSE] ELSE seq
    /\ owed' = IF both THEN sel.state = "committed" ELSE owed
    /\ starts' = starts + 1
    /\ UNCHANGED <<power, sel, vcmd, craft, word, moves>>

\* cancel_calibration(): both engines end, the actuator goes back to its owner at
\* once, and the craft's phase is cancelled over the air.
CancelledCal ==
    IF ucal.state = "running" THEN [ucal EXCEPT !.state = "failed", !.ended = FALSE] ELSE ucal
CancelledSeq == IF SeqActive THEN [seq EXCEPT !.phase = "failed"] ELSE seq
CancelledCmd == IF seq.phase = "downlink" THEN Issued("abort") ELSE vcmd
LeftPower(p, s) == p
CancelledPower(p, s) == IF ucal.state = "running" THEN Applied(p, s) ELSE p

CancelCalibration ==
    ucal' = CancelledCal /\ seq' = CancelledSeq /\ vcmd' = CancelledCmd

\* Operator abort, a scout sweep, an issuer's or a followed retune.
Cancel ==
    /\ ucal.state = "running" \/ SeqActive
    /\ CancelCalibration /\ power' = CancelledPower(power, sel)
    /\ UNCHANGED <<sel, craft, word, starts, moves, owed>>

\* tx_power_set: the run yields first, then the latch applies.
Override(on) ==
    /\ moves < MaxMoves /\ on # power.latch
    /\ CancelCalibration
    /\ power' = Applied([CancelledPower(power, sel) EXCEPT !.latch = on], sel)
    /\ moves' = moves + 1
    /\ UNCHANGED <<sel, craft, word, starts, owed>>

\* move(): detach and watch; refused while a campaign or a sequence is running.
Move ==
    /\ moves < MaxMoves /\ vcmd.arg = "none" /\ ~SeqActive
    /\ CancelCalibration /\ power' = CancelledPower(power, sel)
    /\ sel' = [sel EXCEPT !.state = "spectating", !.craft = 0]
    /\ moves' = moves + 1
    /\ UNCHANGED <<craft, word, starts, owed>>

\* A claim, whose issuer actions cancel any run on the way; the word is forgotten.
ClaimCraft(c) ==
    /\ moves < MaxMoves
    /\ CancelCalibration /\ power' = CancelledPower(power, sel)
    /\ sel' = [sel EXCEPT !.state = "committed", !.craft = c]
    /\ word' = IF sel.craft = c THEN word ELSE "none"
    /\ moves' = moves + 1
    /\ UNCHANGED <<craft, starts, owed>>

\* A spectating ground adopts the craft it hears, and drops it (0) when its stream
\* is torn down, as the pause of a calibration does.
Adopt(c) ==
    /\ sel.state = "spectating" /\ sel.craft # c /\ moves < MaxMoves
    /\ sel' = [sel EXCEPT !.craft = c]
    /\ moves' = moves + 1
    /\ UNCHANGED <<ucal, seq, power, vcmd, craft, word, starts, owed>>

\* A tally of the selected craft: evidence only for the run it answers.
UplinkTallyHeard ==
    /\ ucal.state = "running" /\ ~ucal.ended /\ sel.craft = ucal.of
    /\ ucal' = [ucal EXCEPT !.ended = TRUE]
    /\ sel' = [sel EXCEPT !.fp = sel.craft]
    /\ UNCHANGED <<seq, power, vcmd, craft, word, starts, moves, owed>>

-----------------------------------------------------------------------------
\* CalibSequencer::tick() after the calibrator's.  late: the phase's own deadline
\* has passed.  Its abort_downlink is not acted on by the loop.  A terminal word is
\* believed once the craft was seen running.
BelievesAlways == TRUE
Believes == seq.saw

Ended(s, p) == [s EXCEPT !.phase = p]

SeqTick(cal, late) ==
    IF seq.phase = "uplink"
    THEN CASE cal = "running" -> seq
           [] cal = "done" -> [phase |-> "downlink", saw |-> FALSE]
           [] OTHER -> Ended(seq, "failed")
    ELSE IF seq.phase # "downlink" THEN seq
    ELSE IF seq.saw /\ late THEN Ended(seq, "failed")
    ELSE IF word = "running" THEN [seq EXCEPT !.saw = TRUE]
    ELSE IF ~Believes THEN IF late THEN Ended(seq, "failed") ELSE seq
    ELSE IF word \in {"done", "failed"} THEN Ended(seq, word) ELSE seq

\* The run's tick() and what the loop does with it: a dwell more, the end of the
\* run, or a completed artifact that is saved or not.  A selection that changed
\* cancels only a run that is still going.
Outcomes ==
    IF ucal.state # "running" THEN {"rest"}
    ELSE {"dwell", "failed"} \cup IF ucal.ended THEN {"saved", "unsaved"} ELSE {}

CalAfter(o) ==
    CASE o = "rest" -> ucal
      [] o = "dwell" /\ sel.craft = ucal.of -> [ucal EXCEPT !.ended = FALSE]
      [] o = "saved" -> [ucal EXCEPT !.state = "done", !.ended = FALSE]
      [] OTHER -> [ucal EXCEPT !.state = "failed", !.ended = FALSE]

PowerAfter(o) ==
    LET running == CalAfter(o).state = "running"
        ticked == IF o = "rest" THEN power
                  ELSE IF running THEN [power EXCEPT !.hw = "probe"] ELSE Applied(power, sel)
        paired == Repaired(ticked, sel, running)
    IN IF o = "saved"
       THEN Applied([paired EXCEPT !.art = [craft |-> sel.craft, fp |-> sel.fp]], sel)
       ELSE paired

GroundPass(o, late) ==
    /\ o \in Outcomes /\ (late => seq.phase = "downlink")
    /\ ucal' = CalAfter(o) /\ power' = PowerAfter(o)
    /\ seq' = SeqTick(CalAfter(o).state, late)
    /\ vcmd' = IF seq.phase = "uplink" /\ seq'.phase = "downlink" THEN Issued("start") ELSE vcmd
    /\ UNCHANGED <<sel, craft, word, starts, moves, owed>>

-----------------------------------------------------------------------------
\* POST vehicle/command calibrate: refused while the uplink run is going.
OperatorCommand ==
    /\ ucal.state # "running" /\ vcmd' = Issued("start") /\ vcmd' # vcmd
    /\ craft[sel.craft].runs < MaxCraftRuns
    /\ UNCHANGED <<ucal, seq, power, sel, craft, word, starts, moves, owed>>

\* The craft takes a command once: the start of a running calibration is refused.
Taken(c) ==
    CASE vcmd.arg = "start" /\ c.state # "running" /\ c.runs < MaxCraftRuns ->
            [state |-> "running", runs |-> c.runs + 1]
      [] vcmd.arg = "abort" /\ c.state = "running" -> [c EXCEPT !.state = "failed"]
      [] OTHER -> c

CraftTakes ==
    /\ vcmd.arg # "none" /\ ~vcmd.taken
    /\ vcmd' = [vcmd EXCEPT !.taken = TRUE]
    /\ craft' = [craft EXCEPT ![vcmd.to] = Taken(@)]
    /\ UNCHANGED <<ucal, seq, power, sel, word, starts, moves, owed>>

\* The campaign ends, acknowledged or not.
CommandEnds ==
    /\ vcmd.arg # "none" /\ vcmd' = NoCommand
    /\ UNCHANGED <<ucal, seq, power, sel, craft, word, starts, moves, owed>>

CraftEnds(c, r) ==
    /\ craft[c].state = "running" /\ craft' = [craft EXCEPT ![c].state = r]
    /\ owed' = (owed /\ ~(r = "done" /\ SeqActive /\ sel.craft = c))
    /\ UNCHANGED <<ucal, seq, power, sel, vcmd, word, starts, moves>>

CraftReboots(c) ==
    /\ craft[c].state # "idle" /\ moves < MaxMoves /\ moves' = moves + 1
    /\ craft' = [craft EXCEPT ![c].state = "idle"]
    /\ UNCHANGED <<ucal, seq, power, sel, vcmd, word, starts, owed>>

\* The word is sticky: it is lost or heard, never expired.
WordHeard ==
    /\ sel.craft # 0 /\ word # craft[sel.craft].state /\ word' = craft[sel.craft].state
    /\ UNCHANGED <<ucal, seq, power, sel, vcmd, craft, starts, moves, owed>>

UCNext ==
    \/ \E b \in BOOLEAN : OperatorStart(b) \/ Override(b)
    \/ Cancel \/ Move \/ UplinkTallyHeard \/ OperatorCommand
    \/ \E c \in Crafts : ClaimCraft(c)
    \/ \E c \in Crafts \cup {0} : Adopt(c)
    \/ \E o \in Outcomes, late \in BOOLEAN : GroundPass(o, late)
    \/ CraftTakes \/ CommandEnds \/ WordHeard
    \/ \E c \in Crafts : CraftReboots(c)
    \/ \E c \in Crafts, r \in {"done", "failed"} : CraftEnds(c, r)

UCSpec == UCInit /\ [][UCNext]_ucVars

-----------------------------------------------------------------------------
\* However a run ends, and whoever ended it, the probe power is off the uplink
\* adapter and a latched override is on it (uplink_restore_actuators()).
UplinkHandedBack ==
    ucal.state # "running" => power.hw # "probe" /\ (power.latch => power.hw = "latch")

\* A sequence over a claimed craft that reports done saw that craft complete a run
\* after the sequence began, never the word of an earlier one (saw_running_ in
\* CalibSequencer::tick()).  A spectator's is left out: it starts nothing on the craft,
\* and the craft it watches may be replaced by another that airs an old done.
SequenceEarned == seq.phase = "done" => ~owed

\* A calibration that is over is over on the radio too, and says done only of what was
\* done (uplink_calibrate.h CalibSequencer, rx_node.cpp uplink_restore_actuators).
CalibrationSettled == UplinkHandedBack /\ SequenceEarned
=============================================================================
