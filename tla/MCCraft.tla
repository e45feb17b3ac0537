------------------------------- MODULE MCCraft -------------------------------
(***************************************************************************)
(* The craft's controllers and the calibrations they serve: the adaptive   *)
(* selector, the power calibration of the craft against the ground's dwell *)
(* receiver, the ground's uplink calibration and its sequence, the encoder *)
(* actuator, the frame-rate ladder and the transmit path.  The components  *)
(* share no state in the model, so a behaviour exercises one of them       *)
(* (part) while the others rest in an initial state.                       *)
(***************************************************************************)
EXTENDS MCAdaptive, CraftCalib, UplinkCalib, VencHttp, FrameRate, CraftTx

CONSTANTS Crowd,   \* bound: the run, its dwell and the frames in flight, together
          Bustle,  \* bound: starts and moves of the uplink calibration, together
          Load     \* bound: inputs and events of the transmit path, together

VARIABLE part

MCInit ==
    /\ part \in {"selector", "calib", "sweep", "uplink", "venc", "fps", "tx"}
    /\ Init /\ (part # "selector" => setup = LossSetup)
    /\ CCInit /\ UCInit
    /\ VEInit /\ (part # "venc" => enc.live)
    /\ FLInit /\ (part # "fps" => cmd.enabled)
    /\ TXInit /\ (part # "tx" => radio.reports /\ datagrams.type = "rtp")

\* The craft's calibration is bounded in two ways.  calib: the first dwells of two
\* runs on a crowded air, with interference at any point.  sweep: one whole run
\* over every rung, one frame in flight at a time, with interference once the last
\* rung's verify walk has a tally.
Crowded == runs + cal.dwell + Cardinality(air) <= Crowd
Sparse == Cardinality(air) <= 1 /\ runs <= 1
LastWalk == cal.rung = TopRung /\ cal.seek.phase = "verify" /\ snd.st = "done"

Unhurried == starts + moves <= Bustle
WithinLoad == budget.inputs + budget.events >= MaxInputs + MaxEvents - Load

Select ==
    part = "selector" /\ Next /\ UNCHANGED <<part, ccVars, ucVars, veVars, flVars, txVars>>
Calib ==
    /\ part = "calib" /\ CCNext /\ Crowded'
    /\ UNCHANGED <<part, adaptiveVars, ucVars, veVars, flVars, txVars>>
Sweep ==
    /\ part = "sweep" /\ CCNext /\ Sparse' /\ (meddles' # meddles => LastWalk)
    /\ UNCHANGED <<part, adaptiveVars, ucVars, veVars, flVars, txVars>>
Uplink ==
    /\ part = "uplink" /\ UCNext /\ Unhurried'
    /\ UNCHANGED <<part, adaptiveVars, ccVars, veVars, flVars, txVars>>
Venc ==
    part = "venc" /\ VENext /\ UNCHANGED <<part, adaptiveVars, ccVars, ucVars, flVars, txVars>>
Fps ==
    part = "fps" /\ FLNext /\ UNCHANGED <<part, adaptiveVars, ccVars, ucVars, veVars, txVars>>
Transmit ==
    /\ part = "tx" /\ TXNext /\ WithinLoad'
    /\ UNCHANGED <<part, adaptiveVars, ccVars, ucVars, veVars, flVars>>

MCSpec ==
    MCInit /\ [][Select \/ Calib \/ Sweep \/ Uplink \/ Venc \/ Fps \/ Transmit]_
                    <<part, adaptiveVars, ccVars, ucVars, veVars, flVars, txVars>>
=============================================================================
