---------------------------- MODULE CraftProofs -----------------------------
(***************************************************************************)
(* The craft's controllers and the ground's uplink calibration, each by    *)
(* itself and for every value of its constants.  A section gives the       *)
(* inductive invariant of a component, shows that its steps keep it, and   *)
(* states the property that follows.                                       *)
(***************************************************************************)
EXTENDS UplinkCalib, VencHttp, FrameRate, CraftCalib, CraftTx, SequenceTheorems,
        FiniteSetTheorems, WellFoundedInduction, TLAPS

-----------------------------------------------------------------------------
(* The uplink calibration and its sequence *)

CalStates == {"idle", "running", "done", "failed"}
SomeCraft == Crafts \cup {0}

UCTypeOK ==
    /\ ucal \in [state : CalStates, of : SomeCraft, ended : BOOLEAN]
    /\ seq \in [phase : {"idle", "uplink", "downlink", "done", "failed"}, saw : BOOLEAN]
    /\ power \in [latch : BOOLEAN, art : [craft : SomeCraft, fp : SomeCraft],
                  key : SomeCraft \X SomeCraft, hw : {"auto", "artifact", "latch", "probe"}]
    /\ sel \in [state : {"spectating", "committed"}, craft : SomeCraft, fp : SomeCraft]
    /\ vcmd.arg # "none" => vcmd.to \in Crafts
    /\ craft \in [Crafts -> [state : CalStates, runs : Nat]]
    /\ word \in CalStates \cup {"none"}
    /\ owed \in BOOLEAN

\* While a claimed craft's run is owed, the selection is that craft, and once it was heard
\* or seen running it has not reached done, so neither has its word.
RunOwed ==
    owed /\ SeqActive =>
        /\ sel.state = "committed" /\ sel.craft \in Crafts
        /\ seq.phase = "uplink" => ~seq.saw
        /\ word = "running" \/ seq.saw => craft[sel.craft].state # "done"
        /\ seq.saw => word # "done"

UCInv == UCTypeOK /\ RunOwed /\ CalibrationSettled

Powers == [latch : BOOLEAN, art : [craft : SomeCraft, fp : SomeCraft],
           key : SomeCraft \X SomeCraft, hw : {"auto", "artifact", "latch", "probe"}]
HandedBack(p) == p.hw # "probe" /\ (p.latch => p.hw = "latch")

\* The owner an actuator goes back to is never the probe, and is the latch when it is set.
LEMMA AppliedHandsBack ==
  ASSUME NEW p \in Powers, NEW s
  PROVE  Applied(p, s) \in Powers /\ HandedBack(Applied(p, s))
BY DEF Applied, Resolve, Powers, HandedBack

\* Who sets the power after a cancel: a run that was cancelled handed it back.
LEMMA CancelHandsBack ==
  ASSUME UCInv
  PROVE  /\ CancelledPower(power, sel) \in Powers /\ HandedBack(CancelledPower(power, sel))
         /\ CancelledCal \in [state : CalStates, of : SomeCraft, ended : BOOLEAN]
         /\ CancelledCal.state # "running"
         /\ CancelledSeq \in [phase : {"idle", "uplink", "downlink", "done", "failed"},
                              saw : BOOLEAN]
         /\ CancelledSeq.phase \notin {"uplink", "downlink"}
         /\ CancelledSeq.phase = "done" => ~owed
         /\ CancelledCmd.arg # "none" => CancelledCmd.to \in Crafts
<1>1. power \in Powers BY DEF UCInv, UCTypeOK, Powers
<1>2. CancelledPower(power, sel) \in Powers /\ HandedBack(CancelledPower(power, sel))
  BY <1>1, AppliedHandsBack DEF CancelledPower, UCInv, CalibrationSettled, UplinkHandedBack,
        HandedBack
<1>3. /\ CancelledCal \in [state : CalStates, of : SomeCraft, ended : BOOLEAN]
      /\ CancelledCal.state # "running"
  BY DEF CancelledCal, UCInv, UCTypeOK, CalStates
<1>4. /\ CancelledSeq \in [phase : {"idle", "uplink", "downlink", "done", "failed"},
                           saw : BOOLEAN]
      /\ CancelledSeq.phase \notin {"uplink", "downlink"}
      /\ CancelledSeq.phase = "done" => ~owed
  BY DEF CancelledSeq, SeqActive, UCInv, UCTypeOK, CalibrationSettled, SequenceEarned
<1>5. CancelledCmd.arg # "none" => CancelledCmd.to \in Crafts
  BY UplinkCalibAssumption DEF CancelledCmd, Issued, UCInv, UCTypeOK, SomeCraft
<1> QED BY <1>2, <1>3, <1>4, <1>5

\* A cancelled calibration keeps the invariant, whatever else of the ground moves.
LEMMA CancelKeeps ==
  ASSUME UCInv, CancelCalibration, power' \in Powers, HandedBack(power'),
         sel' \in [state : {"spectating", "committed"}, craft : SomeCraft, fp : SomeCraft],
         word' \in CalStates \cup {"none"}, craft' = craft, owed' = owed
  PROVE  UCInv'
<1>1. UCTypeOK'
  BY CancelHandsBack DEF UCTypeOK, CancelCalibration, Powers, UCInv
<1>2. RunOwed'
  BY CancelHandsBack DEF RunOwed, SeqActive, CancelCalibration
<1>3. CalibrationSettled'
  BY CancelHandsBack DEF CalibrationSettled, UplinkHandedBack, SequenceEarned,
        CancelCalibration, HandedBack
<1> QED BY <1>1, <1>2, <1>3 DEF UCInv

\* The ground's pass: a run that ended handed the power back, and a sequence ends done
\* only on a word its craft's run wrote.
LEMMA PassKeeps ==
  ASSUME UCInv, NEW o \in Outcomes, NEW late \in BOOLEAN, GroundPass(o, late)
  PROVE  UCInv'
<1>1. power \in Powers BY DEF UCInv, UCTypeOK, Powers
<1>2. /\ CalAfter(o) \in [state : CalStates, of : SomeCraft, ended : BOOLEAN]
      /\ CalAfter(o).state = "running" =>
            ucal.state = "running" /\ o = "dwell"
      /\ o = "rest" => ucal.state # "running" /\ CalAfter(o) = ucal
      /\ o \in {"rest", "dwell", "failed", "saved", "unsaved"}
  BY DEF CalAfter, Outcomes, UCInv, UCTypeOK, CalStates
<1>3. PowerAfter(o) \in Powers /\ (CalAfter(o).state # "running" => HandedBack(PowerAfter(o)))
  <2> DEFINE running == CalAfter(o).state = "running"
             ticked == IF o = "rest" THEN power
                       ELSE IF running THEN [power EXCEPT !.hw = "probe"]
                       ELSE Applied(power, sel)
             paired == Repaired(ticked, sel, running)
  <2>1. ticked \in Powers /\ (~running => HandedBack(ticked))
    <3>1. CASE o = "rest"
      BY <3>1, <1>1, <1>2 DEF UCInv, CalibrationSettled, UplinkHandedBack, HandedBack
    <3>2. CASE o # "rest" /\ running BY <3>2, <1>1 DEF Powers
    <3>3. CASE o # "rest" /\ ~running BY <3>3, <1>1, AppliedHandsBack
    <3> QED BY <3>1, <3>2, <3>3
  <2> HIDE DEF ticked, running
  <2>2. Pairing(sel) \in SomeCraft \X SomeCraft BY DEF Pairing, UCInv, UCTypeOK
  <2>3. [ticked EXCEPT !.key = Pairing(sel)] \in Powers BY <2>1, <2>2 DEF Powers
  <2>4. paired \in Powers /\ (~running => HandedBack(paired))
    <3>1. CASE paired = ticked BY <3>1, <2>1
    <3>2. CASE paired = Applied([ticked EXCEPT !.key = Pairing(sel)], sel)
      BY <3>2, <2>3, AppliedHandsBack
    <3> QED BY <3>1, <3>2 DEF Repaired
  <2> HIDE DEF paired
  <2>5. [paired EXCEPT !.art = [craft |-> sel.craft, fp |-> sel.fp]] \in Powers
    BY <2>4 DEF Powers, UCInv, UCTypeOK
  <2>6. CASE o = "saved"
    <3>1. PowerAfter(o) = Applied([paired EXCEPT !.art = [craft |-> sel.craft, fp |-> sel.fp]], sel)
      BY <2>6 DEF PowerAfter, paired, ticked, running
    <3> QED BY <3>1, <2>5, AppliedHandsBack
  <2>7. CASE o # "saved"
    <3>1. PowerAfter(o) = paired BY <2>7 DEF PowerAfter, paired, ticked, running
    <3> QED BY <3>1, <2>4 DEF running
  <2> QED BY <2>6, <2>7
<1>4. seq' = SeqTick(CalAfter(o).state, late) /\ UNCHANGED <<sel, craft, word, owed>>
  BY DEF GroundPass
<1>5. seq' \in [phase : {"idle", "uplink", "downlink", "done", "failed"}, saw : BOOLEAN]
  BY <1>4 DEF SeqTick, Ended, Believes, UCInv, UCTypeOK, CalStates
<1>6. seq'.phase \in {"uplink", "downlink"} =>
        /\ seq.phase \in {"uplink", "downlink"}
        /\ seq'.phase = "uplink" => seq' = seq
        /\ seq'.saw => seq.saw \/ word = "running"
  <2>1. CASE seq.phase = "uplink" BY <2>1, <1>4 DEF SeqTick, Ended, UCInv, UCTypeOK
  <2>2. CASE seq.phase = "downlink" BY <2>2, <1>4 DEF SeqTick, Ended, Believes, UCInv, UCTypeOK
  <2>3. CASE seq.phase \notin {"uplink", "downlink"} BY <2>3, <1>4 DEF SeqTick, Ended, UCInv, UCTypeOK
  <2> QED BY <2>1, <2>2, <2>3
<1>7. RunOwed'
  BY <1>4, <1>6 DEF RunOwed, SeqActive, UCInv
<1>8. seq'.phase = "done" =>
        seq.phase = "done" \/ (seq.phase = "downlink" /\ seq.saw /\ word = "done")
  BY <1>4 DEF SeqTick, Ended, Believes, UCInv, UCTypeOK
<1>9. SequenceEarned'
  BY <1>4, <1>8 DEF SequenceEarned, RunOwed, SeqActive, UCInv, CalibrationSettled
<1>10. CalibrationSettled'
  BY <1>3, <1>9 DEF CalibrationSettled, UplinkHandedBack, GroundPass, HandedBack
<1>11. vcmd'.arg # "none" => vcmd'.to \in Crafts
  BY UplinkCalibAssumption DEF GroundPass, Issued, UCInv, UCTypeOK, SomeCraft
<1>12. UCTypeOK'
  BY <1>2, <1>3, <1>4, <1>5, <1>11 DEF UCTypeOK, GroundPass, Powers, UCInv
<1> QED BY <1>7, <1>10, <1>12 DEF UCInv

\* Every step of the ground, the crafts and the air keeps the invariant.
LEMMA UCInvStep == UCInv /\ [UCNext]_ucVars => UCInv'
<1> SUFFICES ASSUME UCInv, [UCNext]_ucVars PROVE UCInv' OBVIOUS
<1> USE UplinkCalibAssumption
<1>1. ASSUME NEW b \in BOOLEAN, OperatorStart(b) PROVE UCInv'
  <2>1. UCTypeOK'
    BY <1>1 DEF OperatorStart, UCInv, UCTypeOK, CalStates
  <2>2. RunOwed'
    BY <1>1 DEF OperatorStart, RunOwed, SeqActive, UCInv, UCTypeOK, SomeCraft
  <2>3. CalibrationSettled'
    BY <1>1 DEF OperatorStart, CalibrationSettled, UplinkHandedBack, SequenceEarned, UCInv
  <2> QED BY <2>1, <2>2, <2>3 DEF UCInv
<1>2. ASSUME NEW b \in BOOLEAN, Override(b) PROVE UCInv'
  <2>1. [CancelledPower(power, sel) EXCEPT !.latch = b] \in Powers
    BY CancelHandsBack DEF Powers
  <2>2. power' \in Powers /\ HandedBack(power')
    BY <1>2, <2>1, AppliedHandsBack DEF Override
  <2> QED BY <1>2, <2>2, CancelKeeps DEF Override, UCInv, UCTypeOK
<1>3. CASE Cancel
  BY <1>3, CancelHandsBack, CancelKeeps DEF Cancel, UCInv, UCTypeOK
<1>4. CASE Move
  BY <1>4, CancelHandsBack, CancelKeeps DEF Move, UCInv, UCTypeOK, SomeCraft
<1>5. ASSUME NEW c \in Crafts, ClaimCraft(c) PROVE UCInv'
  BY <1>5, CancelHandsBack, CancelKeeps DEF ClaimCraft, UCInv, UCTypeOK, SomeCraft
<1>6. ASSUME NEW c \in Crafts \cup {0}, Adopt(c) PROVE UCInv'
  <2>1. UCTypeOK' BY <1>6 DEF Adopt, UCInv, UCTypeOK, SomeCraft
  <2>2. RunOwed' BY <1>6 DEF Adopt, RunOwed, SeqActive, UCInv
  <2>3. CalibrationSettled'
    BY <1>6 DEF Adopt, CalibrationSettled, UplinkHandedBack, SequenceEarned, UCInv
  <2> QED BY <2>1, <2>2, <2>3 DEF UCInv
<1>7. CASE UplinkTallyHeard
  <2>1. UCTypeOK' BY <1>7 DEF UplinkTallyHeard, UCInv, UCTypeOK
  <2>2. RunOwed' BY <1>7 DEF UplinkTallyHeard, RunOwed, SeqActive, UCInv, UCTypeOK
  <2>3. CalibrationSettled'
    BY <1>7 DEF UplinkTallyHeard, CalibrationSettled, UplinkHandedBack, SequenceEarned, UCInv,
          UCTypeOK
  <2> QED BY <2>1, <2>2, <2>3 DEF UCInv
<1>8. CASE OperatorCommand
  <2>1. UCTypeOK' BY <1>8 DEF OperatorCommand, Issued, UCInv, UCTypeOK, SomeCraft
  <2> QED BY <1>8, <2>1 DEF OperatorCommand, RunOwed, SeqActive, UCInv, CalibrationSettled,
            UplinkHandedBack, SequenceEarned
<1>9. ASSUME NEW o \in Outcomes, NEW late \in BOOLEAN, GroundPass(o, late) PROVE UCInv'
  BY <1>9, PassKeeps
<1>10. CASE CraftTakes
  <2>1. /\ vcmd.to \in Crafts /\ craft' = [craft EXCEPT ![vcmd.to] = Taken(craft[vcmd.to])]
        /\ UNCHANGED <<ucal, seq, power, sel, word, owed>>
        /\ vcmd' = [vcmd EXCEPT !.taken = TRUE]
    BY <1>10 DEF CraftTakes, UCInv, UCTypeOK
  <2>2. /\ Taken(craft[vcmd.to]) \in [state : CalStates, runs : Nat]
        /\ Taken(craft[vcmd.to]).state = "done" => craft[vcmd.to].state = "done"
    BY <2>1 DEF Taken, UCInv, UCTypeOK, CalStates
  <2>3. craft' \in [Crafts -> [state : CalStates, runs : Nat]]
    BY <2>1, <2>2 DEF UCInv, UCTypeOK
  <2>4. \A c \in Crafts : craft'[c].state = "done" => craft[c].state = "done"
    BY <2>1, <2>2 DEF UCInv, UCTypeOK
  <2>5. vcmd'.arg # "none" => vcmd'.to \in Crafts
    BY <2>1 DEF UCInv, UCTypeOK
  <2>6. UCTypeOK' BY <2>1, <2>3, <2>5 DEF UCInv, UCTypeOK
  <2>7. RunOwed' BY <2>1, <2>4 DEF UCInv, RunOwed, SeqActive
  <2> QED BY <2>1, <2>6, <2>7 DEF UCInv, CalibrationSettled, UplinkHandedBack, SequenceEarned
<1>11. CASE CommandEnds
  <2>1. UCTypeOK' BY <1>11 DEF CommandEnds, NoCommand, UCInv, UCTypeOK
  <2> QED BY <1>11, <2>1 DEF CommandEnds, RunOwed, SeqActive, UCInv, CalibrationSettled,
            UplinkHandedBack, SequenceEarned
<1>12. CASE WordHeard
  <2>1. sel.craft \in Crafts /\ word' = craft[sel.craft].state
        /\ UNCHANGED <<ucal, seq, power, sel, vcmd, craft, owed>>
    BY <1>12 DEF WordHeard, UCInv, UCTypeOK, SomeCraft
  <2>2. UCTypeOK' BY <2>1 DEF UCInv, UCTypeOK
  <2>3. RunOwed' BY <2>1 DEF UCInv, RunOwed, SeqActive
  <2> QED BY <2>1, <2>2, <2>3 DEF UCInv, CalibrationSettled, UplinkHandedBack, SequenceEarned
<1>13. ASSUME NEW c \in Crafts, CraftReboots(c) PROVE UCInv'
  <2>1. UCTypeOK' BY <1>13 DEF CraftReboots, UCInv, UCTypeOK, CalStates
  <2>2. RunOwed' BY <1>13 DEF CraftReboots, RunOwed, SeqActive, UCInv, UCTypeOK
  <2> QED BY <1>13, <2>1, <2>2 DEF CraftReboots, UCInv, CalibrationSettled, UplinkHandedBack,
            SequenceEarned
<1>14. ASSUME NEW c \in Crafts, NEW r \in {"done", "failed"}, CraftEnds(c, r) PROVE UCInv'
  <2>1. UCTypeOK' BY <1>14 DEF CraftEnds, UCInv, UCTypeOK, CalStates
  <2>2. /\ craft' = [craft EXCEPT ![c].state = r] /\ UNCHANGED <<seq, sel, word>>
        /\ owed' => owed /\ ~(r = "done" /\ SeqActive /\ sel.craft = c)
    BY <1>14 DEF CraftEnds
  <2>3. ASSUME owed', SeqActive' PROVE craft'[sel.craft].state = "done" => craft[sel.craft].state = "done"
    <3>1. owed /\ SeqActive /\ ~(r = "done" /\ sel.craft = c) /\ sel.craft \in Crafts
      BY <2>2, <2>3 DEF SeqActive, RunOwed, UCInv
    <3> QED BY <2>2, <3>1 DEF UCInv, UCTypeOK
  <2>4. RunOwed' BY <2>2, <2>3 DEF RunOwed, SeqActive, UCInv
  <2> QED BY <1>14, <2>1, <2>4 DEF CraftEnds, UCInv, CalibrationSettled, UplinkHandedBack,
            SequenceEarned
<1>15. CASE UNCHANGED ucVars
  BY <1>15 DEF ucVars, UCInv, UCTypeOK, RunOwed, SeqActive, CalibrationSettled,
        UplinkHandedBack, SequenceEarned
<1> QED
  BY <1>1, <1>2, <1>3, <1>4, <1>5, <1>6, <1>7, <1>8, <1>9, <1>10, <1>11, <1>12, <1>13, <1>14,
     <1>15 DEF UCNext

\* However the operator, the scout, a claim, a reboot and the air interleave, a
\* calibration that is over has handed the power back, and a claimed craft's sequence
\* says done only of a run that craft completed (rx_node.cpp uplink_restore_actuators,
\* CalibSequencer::tick): for any number of crafts, runs and moves.
THEOREM CalibrationAlwaysSettled == UCSpec => []CalibrationSettled
<1>1. UCInit => UCInv
  <2> SUFFICES ASSUME UCInit PROVE UCInv OBVIOUS
  <2>1. UCTypeOK BY DEF UCInit, UCTypeOK, NoArtifact, NoCommand, CalStates, SomeCraft
  <2>2. RunOwed /\ CalibrationSettled
    BY DEF UCInit, RunOwed, SeqActive, CalibrationSettled, UplinkHandedBack, SequenceEarned
  <2> QED BY <2>1, <2>2 DEF UCInv
<1>2. UCInv => CalibrationSettled BY DEF UCInv
<1> QED BY <1>1, <1>2, UCInvStep, PTL DEF UCSpec

-----------------------------------------------------------------------------
(* The encoder actuator *)

Targets == Vals \cup {Nothing}
Txns == [on : BOOLEAN, sent : BOOLEAN, of : Knobs \cup {Idr}, val : Targets,
         persist : BOOLEAN, latch : BOOLEAN]
Actuators ==
    [want : [Knobs -> Targets], last : [Knobs -> Targets], idr : BOOLEAN, gate : BOOLEAN,
     txn : Txns, fallback : BOOLEAN, reprobe : BOOLEAN, hold : BOOLEAN]
Requests == [of : Knobs \cup {Idr}, val : Targets, persist : BOOLEAN, open : BOOLEAN]
Pipes == Seq(Requests)

VETypeOK ==
    /\ act \in Actuators
    /\ enc \in [val : [Knobs -> Targets], live : BOOLEAN]
    /\ pipe \in Pipes
    /\ resp \in {Nothing, 200, 404, 500}
    /\ lied \in BOOLEAN /\ said404 \in BOOLEAN /\ unsure \subseteq Knobs

\* The request of an open connection is the newest one and the transaction's own; one
\* whose connection was given up is of a knob nobody is sure of.
RequestOwned(i) ==
    IF pipe[i].open
    THEN /\ i = Len(pipe) /\ act.txn.on /\ act.txn.sent
         /\ pipe[i].of = act.txn.of /\ pipe[i].val = act.txn.val
    ELSE pipe[i].of # Idr => pipe[i].of \in unsure

\* A status on the connection is the last word of an empty pipe, and a 200 means the
\* encoder holds the value.
StatusTrue ==
    resp # Nothing =>
        /\ pipe = << >> /\ act.txn.on /\ act.txn.sent
        /\ resp = 200 /\ act.txn.of # Idr => enc.val[act.txn.of] = act.txn.val

\* The cache is wrong of a sure knob only while the acknowledgement waits to be read.
CacheExact ==
    ~lied => \A k \in Knobs \ unsure :
        act.last[k] # Nothing =>
            enc.val[k] = act.last[k] \/ (resp = 200 /\ act.txn.of = k)

\* Everything that makes a transaction persist goes back to a refusal.
FlashTraced ==
    /\ act.fallback \/ act.txn.persist \/ act.txn.latch => said404
    /\ ~act.txn.on => act.txn = NoTxn

VEInv ==
    /\ VETypeOK /\ StatusTrue /\ CacheExact /\ FlashTraced
    /\ \A i \in 1..Len(pipe) : RequestOwned(i)

\* A set of naturals that is not empty has a least element.
LEMMA LeastNat ==
  ASSUME NEW S \in SUBSET Nat, S # {}
  PROVE  \E x \in S : \A y \in S : x <= y
<1>1. PICK x \in S : \A y \in S : ~(<<y, x>> \in OpToRel(<, Nat))
  BY NatLessThanWellFounded, WFMin
<1>2. \A y \in S : ~(y < x) BY <1>1 DEF OpToRel
<1> QED BY <1>2

\* The lowest pending knob is a knob.
LEMMA LowestIsKnob ==
  ASSUME NEW S \in SUBSET Knobs, S # {}
  PROVE  Lowest(S) \in S
<1>1. S \in SUBSET Nat BY VencAssumption
<1>2. \E x \in S : \A y \in S : x <= y BY <1>1, LeastNat
<1> QED BY <1>2 DEF Lowest

\* What an update of one of the actuator's fields leaves alone.
LEMMA TxnUpdate ==
  ASSUME NEW a \in Actuators, NEW x \in Txns
  PROVE  /\ [a EXCEPT !.txn = x] \in Actuators
         /\ [a EXCEPT !.txn = x].txn = x /\ [a EXCEPT !.txn = x].last = a.last
         /\ [a EXCEPT !.txn = x].fallback = a.fallback
BY DEF Actuators

\* A closed transaction is still of its knob and its value.
LEMMA TxnClosed ==
  ASSUME NEW x \in Txns
  PROVE  /\ [x EXCEPT !.on = FALSE] \in Txns /\ [x EXCEPT !.on = FALSE].of = x.of
         /\ [x EXCEPT !.on = FALSE].val = x.val
BY DEF Txns

\* The same for the acknowledged values.
LEMMA LastUpdate ==
  ASSUME NEW a \in Actuators, NEW m \in [Knobs -> Targets]
  PROVE  /\ [a EXCEPT !.last = m] \in Actuators
         /\ [a EXCEPT !.last = m].txn = a.txn /\ [a EXCEPT !.last = m].last = m
         /\ [a EXCEPT !.last = m].fallback = a.fallback
BY DEF Actuators

\* The same for the retry hold-off.
LEMMA HoldUpdate ==
  ASSUME NEW a \in Actuators, NEW f \in BOOLEAN
  PROVE  /\ [a EXCEPT !.hold = f] \in Actuators
         /\ [a EXCEPT !.hold = f].txn = a.txn /\ [a EXCEPT !.hold = f].last = a.last
         /\ [a EXCEPT !.hold = f].fallback = a.fallback
BY DEF Actuators

Latched(a, f, g) == [a EXCEPT !.fallback = f, !.reprobe = g]

\* The same for the latch of the persisting path.
LEMMA FallbackUpdate ==
  ASSUME NEW a \in Actuators, NEW f \in BOOLEAN, NEW g \in BOOLEAN
  PROVE  /\ Latched(a, f, g) \in Actuators
         /\ Latched(a, f, g).txn = a.txn /\ Latched(a, f, g).last = a.last
         /\ Latched(a, f, g).fallback = f
BY DEF Actuators, Latched

\* A started transaction is not sent yet; it leaves what was acknowledged alone, and
\* persists only because of the fallback or the refusal it chains on.
LEMMA StartTxnFacts ==
  ASSUME NEW a \in Actuators, NEW chain \in BOOLEAN,
         chain => a.txn.of # Idr, ~chain => a.txn = NoTxn
  PROVE  /\ StartTxn(a, chain) \in Actuators
         /\ StartTxn(a, chain).last = a.last
         /\ StartTxn(a, chain).fallback = a.fallback
         /\ ~StartTxn(a, chain).txn.sent
         /\ StartTxn(a, chain).txn.persist \/ StartTxn(a, chain).txn.latch =>
                chain \/ a.fallback
         /\ ~StartTxn(a, chain).txn.on => StartTxn(a, chain).txn = NoTxn
<1> USE VencAssumption
<1> DEFINE probe == ~a.fallback \/ a.reprobe
           k == Lowest(PendingOf(a))
           push == [on |-> TRUE, sent |-> FALSE, of |-> k, val |-> a.want[k],
                    persist |-> ~probe, latch |-> FALSE]
<1>1. CASE chain
  <2> DEFINE txn == [a.txn EXCEPT !.on = TRUE, !.sent = FALSE, !.persist = TRUE, !.latch = TRUE]
  <2>1. StartTxn(a, chain) = [a EXCEPT !.txn = txn] BY <1>1 DEF StartTxn
  <2>2. txn \in Txns /\ txn.on = TRUE /\ txn.sent = FALSE BY DEF Txns, Actuators
  <2> HIDE DEF txn
  <2>3. /\ StartTxn(a, chain) \in Actuators /\ StartTxn(a, chain).last = a.last
        /\ StartTxn(a, chain).fallback = a.fallback /\ StartTxn(a, chain).txn = txn
    BY <2>1, <2>2 DEF Actuators
  <2> QED BY <1>1, <2>2, <2>3, Zenon
<1>2. CASE ~chain /\ ~a.hold /\ PendingOf(a) # {}
  <2>1. k \in Knobs
    <3>1. PendingOf(a) \in SUBSET Knobs BY DEF PendingOf
    <3> QED BY <1>2, <3>1, LowestIsKnob
  <2>2. StartTxn(a, chain) = [a EXCEPT !.txn = push] BY <1>2 DEF StartTxn
  <2> HIDE DEF k
  <2>3. push \in Txns BY <2>1 DEF Txns, Actuators
  <2>4. /\ push.on = TRUE /\ push.sent = FALSE /\ push.latch = FALSE
        /\ push.persist => a.fallback
    BY Zenon
  <2> HIDE DEF push
  <2>5. /\ StartTxn(a, chain) \in Actuators /\ StartTxn(a, chain).last = a.last
        /\ StartTxn(a, chain).fallback = a.fallback /\ StartTxn(a, chain).txn = push
    BY <2>2, <2>3 DEF Actuators
  <2> QED BY <2>4, <2>5, Zenon
<1>3. CASE ~chain /\ (a.hold \/ PendingOf(a) = {})
  <2> DEFINE txn == [NoTxn EXCEPT !.on = TRUE]
  <2>1. /\ NoTxn \in Txns /\ txn \in Txns /\ txn.on = TRUE
        /\ NoTxn.sent = FALSE /\ NoTxn.persist = FALSE /\ NoTxn.latch = FALSE
        /\ txn.sent = FALSE /\ txn.persist = FALSE /\ txn.latch = FALSE
    BY DEF NoTxn, Txns, Targets, Idr, Nothing
  <2>2. \/ StartTxn(a, chain) = a
        \/ StartTxn(a, chain) = [a EXCEPT !.idr = FALSE, !.gate = TRUE, !.txn = txn]
    BY <1>3 DEF StartTxn
  <2> HIDE DEF txn
  <2>3. CASE StartTxn(a, chain) = a BY <1>3, <2>1, <2>3, Zenon
  <2>4. CASE StartTxn(a, chain) = [a EXCEPT !.idr = FALSE, !.gate = TRUE, !.txn = txn]
    <3>1. /\ StartTxn(a, chain) \in Actuators /\ StartTxn(a, chain).last = a.last
          /\ StartTxn(a, chain).fallback = a.fallback /\ StartTxn(a, chain).txn = txn
      BY <2>1, <2>4 DEF Actuators
    <3> QED BY <2>1, <3>1, Zenon
  <2> QED BY <2>2, <2>3, <2>4
<1> QED BY <1>1, <1>2, <1>3

\* The end of a transaction: only a 200 moves what was acknowledged, the next one is not
\* sent yet, and it persists only after a refusal.
LEMMA FinishTxnFacts ==
  ASSUME VEInv, act.txn.on, NEW status \in {0, 200, 404, 500}
  PROVE  /\ FinishTxn(status) \in Actuators
         /\ FinishTxn(status).last =
              IF status = 200 /\ act.txn.of # Idr
              THEN [act.last EXCEPT ![act.txn.of] = act.txn.val] ELSE act.last
         /\ ~FinishTxn(status).txn.sent
         /\ \/ FinishTxn(status).fallback \/ FinishTxn(status).txn.persist
            \/ FinishTxn(status).txn.latch
            => said404 \/ (status = 404 /\ ~act.txn.persist)
         /\ ~FinishTxn(status).txn.on => FinishTxn(status).txn = NoTxn
<1> USE VencAssumption
<1> DEFINE t == act.txn
           ok == status = 200
           closed == [act EXCEPT !.txn = [t EXCEPT !.on = FALSE]]
           base == IF t.of = Idr THEN closed ELSE Commit(closed, ok)
           done == [base EXCEPT !.txn = NoTxn]
           next == [done EXCEPT !.fallback = IF t.of = Idr THEN @
                                             ELSE IF ~t.persist THEN FALSE ELSE @ \/ t.latch,
                                !.reprobe = IF t.latch THEN FALSE ELSE @]
           last == IF ok /\ t.of # Idr THEN [act.last EXCEPT ![t.of] = t.val] ELSE act.last
<1>0. act.fallback \/ t.persist \/ t.latch => said404
  BY Zenon DEF VEInv, FlashTraced
<1>1. /\ act \in Actuators /\ t \in Txns /\ act.last \in [Knobs -> Targets]
      /\ act.fallback \in BOOLEAN
      /\ t.of \in Knobs \cup {Idr} /\ t.val \in Targets /\ t.latch \in BOOLEAN
  BY DEF VEInv, VETypeOK, Actuators, Txns
<1>2. NoTxn \in Txns BY DEF NoTxn, Txns, Targets, Idr, Nothing
<1>3. closed \in Actuators /\ closed.last = act.last /\ closed.txn.of = t.of
      /\ closed.txn.val = t.val /\ closed.fallback = act.fallback
  <2>1. /\ [t EXCEPT !.on = FALSE] \in Txns /\ [t EXCEPT !.on = FALSE].of = t.of
        /\ [t EXCEPT !.on = FALSE].val = t.val
    BY <1>1, TxnClosed
  <2> DEFINE x == [t EXCEPT !.on = FALSE]
  <2> HIDE DEF x
  <2>2. closed = [act EXCEPT !.txn = x] /\ x \in Txns /\ x.of = t.of /\ x.val = t.val
    BY <2>1 DEF x
  <2>3. /\ [act EXCEPT !.txn = x] \in Actuators
        /\ [act EXCEPT !.txn = x].txn = x /\ [act EXCEPT !.txn = x].last = act.last
        /\ [act EXCEPT !.txn = x].fallback = act.fallback
    BY <2>2, <1>1, TxnUpdate
  <2> HIDE DEF closed, base, done, next, last
  <2> QED BY <2>2, <2>3
<1> HIDE DEF closed
<1>4. last \in [Knobs -> Targets] BY <1>1
<1>5. base \in Actuators /\ base.last = last /\ base.fallback = act.fallback
  <2>1. CASE ok /\ t.of # Idr
    <3>1. base = [closed EXCEPT !.last = last]
      <4>1. base = [closed EXCEPT !.last[closed.txn.of] = closed.txn.val]
        BY <2>1 DEF Commit
      <4>2. base = [closed EXCEPT !.last = [closed.last EXCEPT ![closed.txn.of] = closed.txn.val]]
        BY <4>1
      <4> QED BY <4>2, <2>1, <1>3
    <3> HIDE DEF last, base
    <3> QED BY <3>1, <1>3, <1>4, LastUpdate
  <2>2. CASE ~(ok /\ t.of # Idr)
    <3>1. base = closed BY <2>2 DEF Commit
    <3>2. last = act.last BY <2>2
    <3> HIDE DEF last, base
    <3> QED BY <3>1, <3>2, <1>3
  <2> QED BY <2>1, <2>2
<1> HIDE DEF base, last
<1>6. /\ done \in Actuators /\ done.last = last /\ done.fallback = act.fallback
      /\ done.txn = NoTxn
  BY <1>5, <1>2, TxnUpdate
<1> HIDE DEF done
<1>7. /\ next \in Actuators /\ next.last = last /\ next.txn = NoTxn
      /\ next.fallback => act.fallback \/ t.latch
  <2> DEFINE fb == IF t.of = Idr THEN done.fallback
                   ELSE IF ~t.persist THEN FALSE ELSE done.fallback \/ t.latch
             rp == IF t.latch THEN FALSE ELSE done.reprobe
  <2>1. done.reprobe \in BOOLEAN BY <1>6 DEF Actuators
  <2>2. fb \in BOOLEAN BY <1>6, <1>1
  <2>3. rp \in BOOLEAN BY <2>1
  <2>4. fb => act.fallback \/ t.latch BY <1>6, Zenon
  <2>5. next = Latched(done, fb, rp) BY Zenon DEF Latched
  <2> HIDE DEF fb, rp, next
  <2>6. next \in Actuators /\ next.last = last /\ next.txn = NoTxn /\ next.fallback = fb
    BY <2>2, <2>3, <2>5, <1>6, FallbackUpdate
  <2> QED BY <2>4, <2>6, Zenon
<1>8. NoTxn.sent = FALSE /\ NoTxn.persist = FALSE /\ NoTxn.latch = FALSE BY DEF NoTxn
<1>9. CASE t.of # Idr /\ ~t.persist /\ status = 404
  <2>1. FinishTxn(status) = StartTxn(closed, TRUE) BY <1>9 DEF FinishTxn, closed
  <2>2. act.last = IF status = 200 /\ act.txn.of # Idr
                   THEN [act.last EXCEPT ![act.txn.of] = act.txn.val] ELSE act.last
    BY <1>9
  <2>3. /\ StartTxn(closed, TRUE) \in Actuators
        /\ StartTxn(closed, TRUE).last = act.last
        /\ ~StartTxn(closed, TRUE).txn.sent
        /\ ~StartTxn(closed, TRUE).txn.on => StartTxn(closed, TRUE).txn = NoTxn
    <3>1. closed.txn.of # Idr BY <1>9, <1>3
    <3> QED BY <3>1, <1>3, StartTxnFacts
  <2>4. said404 \/ (status = 404 /\ ~act.txn.persist) BY <1>9
  <2> DEFINE f == StartTxn(closed, TRUE)
  <2> HIDE DEF f
  <2>5. FinishTxn(status) = f /\ f \in Actuators /\ f.last = act.last /\ ~f.txn.sent
        /\ (~f.txn.on => f.txn = NoTxn)
    BY <2>1, <2>3, Zenon DEF f
  <2> QED BY <2>2, <2>4, <2>5, Zenon
<1>10. CASE ~(t.of # Idr /\ ~t.persist /\ status = 404) /\ ~ok
  <2>1. FinishTxn(status) = [done EXCEPT !.hold = TRUE]
    BY <1>10 DEF FinishTxn, done, base, closed
  <2>2. last = act.last BY <1>10 DEF last
  <2>3. /\ FinishTxn(status) \in Actuators /\ FinishTxn(status).last = act.last
        /\ FinishTxn(status).fallback = act.fallback /\ FinishTxn(status).txn = NoTxn
    <3>1. TRUE \in BOOLEAN OBVIOUS
    <3>2. /\ [done EXCEPT !.hold = TRUE] \in Actuators
          /\ [done EXCEPT !.hold = TRUE].txn = done.txn
          /\ [done EXCEPT !.hold = TRUE].last = done.last
          /\ [done EXCEPT !.hold = TRUE].fallback = done.fallback
      BY <3>1, <1>6, HoldUpdate, Zenon
    <3> DEFINE h == [done EXCEPT !.hold = TRUE]
    <3> HIDE DEF h
    <3>3. /\ FinishTxn(status) = h /\ h \in Actuators /\ h.last = act.last
          /\ h.fallback = act.fallback /\ h.txn = NoTxn
      BY <2>1, <2>2, <3>2, <1>6 DEF h
    <3> QED BY <3>3, Zenon
  <2>4. ~ok BY <1>10
  <2> QED BY <2>4, <2>3, <1>0, <1>8, Zenon
<1>11. CASE ok
  <2>1. FinishTxn(status) = StartTxn(next, FALSE)
    BY <1>11 DEF FinishTxn, done, base, closed
  <2> HIDE DEF next
  <2>2. /\ StartTxn(next, FALSE) \in Actuators
        /\ StartTxn(next, FALSE).last = last
        /\ StartTxn(next, FALSE).fallback = next.fallback
        /\ ~StartTxn(next, FALSE).txn.sent
        /\ StartTxn(next, FALSE).txn.persist \/ StartTxn(next, FALSE).txn.latch
              => next.fallback
        /\ ~StartTxn(next, FALSE).txn.on => StartTxn(next, FALSE).txn = NoTxn
    <3>1. next \in Actuators /\ next.txn = NoTxn /\ next.last = last BY <1>7, Zenon
    <3>2. /\ StartTxn(next, FALSE) \in Actuators
          /\ StartTxn(next, FALSE).last = next.last
          /\ StartTxn(next, FALSE).fallback = next.fallback
          /\ ~StartTxn(next, FALSE).txn.sent
          /\ StartTxn(next, FALSE).txn.persist \/ StartTxn(next, FALSE).txn.latch
                => FALSE \/ next.fallback
          /\ ~StartTxn(next, FALSE).txn.on => StartTxn(next, FALSE).txn = NoTxn
      BY <3>1, StartTxnFacts
    <3> QED BY <3>1, <3>2, Zenon
  <2>3. last = IF status = 200 /\ act.txn.of # Idr
               THEN [act.last EXCEPT ![act.txn.of] = act.txn.val] ELSE act.last
    BY Zenon DEF last
  <2> DEFINE f == StartTxn(next, FALSE)
  <2> HIDE DEF ok, f
  <2>4. /\ FinishTxn(status) = f /\ f \in Actuators /\ ~f.txn.sent
        /\ f.last = IF status = 200 /\ act.txn.of # Idr
                    THEN [act.last EXCEPT ![act.txn.of] = act.txn.val] ELSE act.last
        /\ (~f.txn.on => f.txn = NoTxn)
    BY <2>1, <2>2, <2>3, Zenon DEF f
  <2>5. f.fallback \/ f.txn.persist \/ f.txn.latch => said404
    BY <2>2, <1>0, <1>7, Zenon DEF f
  <2> QED BY <2>4, <2>5, Zenon
<1> QED BY <1>9, <1>10, <1>11

\* Giving up a connection: the requests stay in the pipe, and their knobs are unsure.
LEMMA GivenUp ==
  ASSUME VEInv, pipe' = Closed, unsure' = unsure \cup (Abandoned \ {Idr})
  PROVE  /\ pipe' \in Pipes /\ unsure' \subseteq Knobs /\ unsure \subseteq unsure'
         /\ \A i \in 1..Len(pipe') :
                /\ ~pipe'[i].open
                /\ pipe'[i].of # Idr => pipe'[i].of \in unsure'
         /\ resp # Nothing /\ act.txn.of # Idr => act.txn.of \in unsure'
<1> USE VencAssumption
<1>1. /\ pipe \in Seq(Requests) /\ Len(pipe) \in Nat /\ DOMAIN pipe = 1..Len(pipe)
      /\ \A i \in 1..Len(pipe) : pipe[i] \in Requests
      /\ unsure \subseteq Knobs /\ act.txn.of \in Knobs \cup {Idr}
  BY LenProperties, ElementOfSeq DEF VEInv, VETypeOK, Pipes, Actuators, Txns
<1>2. \A i \in 1..Len(pipe) : [pipe[i] EXCEPT !.open = FALSE] \in Requests
  BY <1>1 DEF Requests
<1>3. pipe' = [i \in 1..Len(pipe) |-> [pipe[i] EXCEPT !.open = FALSE]]
  BY <1>1 DEF Closed
<1>4. pipe' \in Seq(Requests) /\ Len(pipe') = Len(pipe)
  BY <1>1, <1>2, <1>3, SeqDef, LenProperties
<1>5. \A i \in 1..Len(pipe) : pipe'[i].of = pipe[i].of /\ pipe'[i].open = FALSE
  BY <1>1, <1>3 DEF Requests
<1>6. Abandoned \subseteq Knobs \cup {Idr}
  BY <1>1 DEF Abandoned, Requests
<1>7. ASSUME NEW i \in 1..Len(pipe'), pipe'[i].of # Idr PROVE pipe'[i].of \in unsure'
  <2>1. i \in 1..Len(pipe) /\ pipe'[i].of = pipe[i].of BY <1>4, <1>5
  <2>2. CASE pipe[i].open BY <1>1, <1>7, <2>1, <2>2 DEF Abandoned
  <2>3. CASE ~pipe[i].open BY <1>7, <2>1, <2>3 DEF VEInv, RequestOwned
  <2> QED BY <2>2, <2>3
<1>8. resp # Nothing => act.txn.of \in Abandoned BY Zenon DEF Abandoned
<1> QED BY <1>1, <1>4, <1>5, <1>6, <1>7, <1>8 DEF Pipes

\* A step that gives the connection up keeps the invariant: the transaction is off the
\* wire, the values acknowledged are kept or forgotten.
LEMMA GiveUpKeeps ==
  ASSUME VEInv, pipe' = Closed, resp' = Nothing, unsure' = unsure \cup (Abandoned \ {Idr}),
         act' \in Actuators, FlashTraced', lied' \in BOOLEAN, said404' \in BOOLEAN, enc' = enc,
         \A k \in Knobs : act'.last[k] # Nothing => act'.last[k] = act.last[k] /\ (lied => lied')
  PROVE  VEInv'
<1>1. VETypeOK' BY GivenUp DEF VEInv, VETypeOK
<1>2. StatusTrue' BY DEF StatusTrue
<1>3. \A i \in 1..Len(pipe') : RequestOwned(i)' BY GivenUp DEF RequestOwned
<1>4. CacheExact'
  <2> SUFFICES ASSUME ~lied', NEW k \in Knobs \ unsure', act'.last[k] # Nothing
               PROVE  enc'.val[k] = act'.last[k]
    BY Zenon DEF CacheExact
  <2>1. k \in Knobs \ unsure /\ act'.last[k] = act.last[k] /\ ~lied BY GivenUp
  <2>2. enc.val[k] = act.last[k] \/ (resp = 200 /\ act.txn.of = k)
    BY <2>1 DEF VEInv, CacheExact
  <2>3. ~(resp = 200 /\ act.txn.of = k)
    BY GivenUp, VencAssumption DEF Nothing, Idr
  <2> QED BY <2>1, <2>2, <2>3
<1> QED BY <1>1, <1>2, <1>3, <1>4 DEF VEInv

\* A step of the actuator that moves no transaction, pipe or acknowledged value.
LEMMA QuietKeeps ==
  ASSUME VEInv, act' \in Actuators, act'.txn = act.txn, act'.last = act.last,
         act'.fallback = act.fallback, UNCHANGED <<enc, pipe, resp, lied, unsure, said404>>
  PROVE  VEInv'
<1>1. VETypeOK' BY DEF VEInv, VETypeOK
<1>2. StatusTrue' BY DEF VEInv, StatusTrue
<1>3. CacheExact' BY DEF VEInv, CacheExact
<1>4. FlashTraced' BY Zenon DEF VEInv, FlashTraced
<1>5. \A i \in 1..Len(pipe') : RequestOwned(i)' BY Zenon DEF VEInv, RequestOwned
<1> QED BY <1>1, <1>2, <1>3, <1>4, <1>5 DEF VEInv

\* A transaction that is started from rest keeps the invariant: nothing of it is on the
\* wire yet.
LEMMA PollStartsKeeps == VEInv /\ PollStarts => VEInv'
<1> SUFFICES ASSUME VEInv, PollStarts PROVE VEInv' OBVIOUS
<1>1. /\ act \in Actuators /\ ~act.txn.on /\ act.txn = NoTxn
      /\ act' = StartTxn(act, FALSE) /\ UNCHANGED <<enc, pipe, resp, lied, unsure, said404>>
  BY Zenon DEF VEInv, VETypeOK, FlashTraced, PollStarts
<1>2. /\ act' \in Actuators /\ act'.last = act.last /\ act'.fallback = act.fallback
      /\ ~act'.txn.sent /\ (act'.txn.persist \/ act'.txn.latch => FALSE \/ act.fallback)
      /\ (~act'.txn.on => act'.txn = NoTxn)
  <2>1. act \in Actuators /\ act.txn = NoTxn BY <1>1, Zenon
  <2>2. /\ StartTxn(act, FALSE) \in Actuators
        /\ StartTxn(act, FALSE).last = act.last
        /\ StartTxn(act, FALSE).fallback = act.fallback
        /\ ~StartTxn(act, FALSE).txn.sent
        /\ StartTxn(act, FALSE).txn.persist \/ StartTxn(act, FALSE).txn.latch =>
              FALSE \/ act.fallback
        /\ ~StartTxn(act, FALSE).txn.on => StartTxn(act, FALSE).txn = NoTxn
    BY <2>1, StartTxnFacts
  <2> QED BY <2>2, <1>1, Zenon
<1>3. VETypeOK' BY <1>1, <1>2 DEF VEInv, VETypeOK
<1>4. resp = Nothing BY <1>1, Zenon DEF VEInv, StatusTrue
<1>5. StatusTrue' BY <1>1, <1>4 DEF StatusTrue
<1>6. CacheExact'
  <2>1. ~(resp = 200) BY <1>4 DEF Nothing
  <2> QED BY <1>1, <1>2, <2>1 DEF VEInv, CacheExact
<1>7. FlashTraced' BY <1>1, <1>2, Zenon DEF VEInv, FlashTraced
<1>8. \A i \in 1..Len(pipe) : ~pipe[i].open BY <1>1, Zenon DEF VEInv, RequestOwned
<1>9. \A i \in 1..Len(pipe') : RequestOwned(i)'
  BY <1>1, <1>8, Zenon DEF VEInv, RequestOwned
<1> QED BY <1>3, <1>5, <1>6, <1>7, <1>9 DEF VEInv

\* A request that goes on the wire is the newest one, and the transaction's.
LEMMA PollSendsKeeps == VEInv /\ PollSends => VEInv'
<1> SUFFICES ASSUME VEInv, PollSends PROVE VEInv' OBVIOUS
<1> DEFINE q == [of |-> act.txn.of, val |-> act.txn.val, persist |-> act.txn.persist,
                 open |-> TRUE]
<1>1. /\ act \in Actuators /\ act.txn \in Txns /\ pipe \in Seq(Requests) /\ Len(pipe) \in Nat
      /\ act' = [act EXCEPT !.txn.sent = TRUE]
      /\ pipe' = Append(pipe, q) /\ UNCHANGED <<enc, resp, lied, unsure, said404>>
  BY LenProperties DEF VEInv, VETypeOK, Actuators, Pipes, PollSends
<1>2. act.txn.on /\ ~act.txn.sent BY DEF PollSends
<1>3. q \in Requests BY <1>1 DEF Requests, Txns
<1>4. /\ act'.txn.sent = TRUE /\ act'.txn.on = act.txn.on /\ act'.txn.of = act.txn.of
      /\ act'.txn.val = act.txn.val /\ act'.txn.persist = act.txn.persist
      /\ act'.txn.latch = act.txn.latch /\ act'.txn \in Txns
      /\ act'.last = act.last /\ act'.fallback = act.fallback /\ act' \in Actuators
  BY <1>1 DEF Actuators, Txns
<1>5. q.of = act.txn.of /\ q.val = act.txn.val /\ q.open = TRUE OBVIOUS
<1> HIDE DEF q
<1>6. /\ pipe' \in Seq(Requests) /\ Len(pipe') = Len(pipe) + 1
      /\ \A i \in 1..Len(pipe) : pipe'[i] = pipe[i]
      /\ pipe'[Len(pipe) + 1] = q
  BY <1>1, <1>3, AppendProperties
<1>7. VETypeOK' BY <1>1, <1>4, <1>6 DEF VEInv, VETypeOK, Pipes
<1>8. resp = Nothing BY <1>2, Zenon DEF VEInv, StatusTrue
<1>9. StatusTrue' BY <1>1, <1>8 DEF StatusTrue
<1>10. CacheExact'
  <2>1. ~(resp = 200) BY <1>8 DEF Nothing
  <2> QED BY <1>1, <1>4, <2>1 DEF VEInv, CacheExact
<1>11. FlashTraced' BY <1>1, <1>2, <1>4, Zenon DEF VEInv, FlashTraced
<1>12. ASSUME NEW i \in 1..Len(pipe') PROVE RequestOwned(i)'
  <2>1. CASE i \in 1..Len(pipe)
    <3>1. ~pipe[i].open BY <1>2, <2>1, Zenon DEF VEInv, RequestOwned
    <3>2. pipe[i].of # Idr => pipe[i].of \in unsure BY <2>1, <3>1, Zenon DEF VEInv, RequestOwned
    <3>3. pipe'[i] = pipe[i] BY <1>6, <2>1
    <3> QED BY <3>1, <3>2, <3>3, <1>1, Zenon DEF RequestOwned
  <2>2. CASE i \notin 1..Len(pipe)
    <3>1. i = Len(pipe) + 1 BY <1>1, <1>6, <2>2
    <3>2. i = Len(pipe') /\ pipe'[i] = q BY <3>1, <1>6
    <3> QED BY <3>2, <1>2, <1>4, <1>5, Zenon DEF RequestOwned
  <2> QED BY <2>1, <2>2
<1> QED BY <1>7, <1>9, <1>10, <1>11, <1>12 DEF VEInv

\* A status that is read: a 200 makes the cache exact of its knob again.
LEMMA PollReadsKeeps == VEInv /\ PollReads => VEInv'
<1> SUFFICES ASSUME VEInv, PollReads PROVE VEInv' OBVIOUS
<1> USE VencAssumption
<1>1. /\ act.txn.on /\ resp \in {0, 200, 404, 500} /\ resp # Nothing
      /\ act' = FinishTxn(resp) /\ resp' = Nothing
      /\ UNCHANGED <<enc, pipe, lied>>
  BY Zenon DEF VEInv, VETypeOK, PollReads, Nothing
<1>2. /\ unsure' = IF resp = 200 THEN unsure \ {act.txn.of} ELSE unsure
      /\ said404' = (said404 \/ (resp = 404 /\ ~act.txn.persist))
  BY DEF PollReads
<1>3. /\ act' \in Actuators
      /\ act'.last = IF resp = 200 /\ act.txn.of # Idr
                     THEN [act.last EXCEPT ![act.txn.of] = act.txn.val] ELSE act.last
      /\ (act'.fallback \/ act'.txn.persist \/ act'.txn.latch
            => said404 \/ (resp = 404 /\ ~act.txn.persist))
      /\ (~act'.txn.on => act'.txn = NoTxn)
  <2>1. /\ FinishTxn(resp) \in Actuators
        /\ FinishTxn(resp).last =
             IF resp = 200 /\ act.txn.of # Idr
             THEN [act.last EXCEPT ![act.txn.of] = act.txn.val] ELSE act.last
        /\ \/ FinishTxn(resp).fallback \/ FinishTxn(resp).txn.persist
           \/ FinishTxn(resp).txn.latch
           => said404 \/ (resp = 404 /\ ~act.txn.persist)
        /\ ~FinishTxn(resp).txn.on => FinishTxn(resp).txn = NoTxn
    BY <1>1, FinishTxnFacts
  <2> QED BY <1>1, <2>1, Zenon
<1>4. VETypeOK'
  <2>1. said404' \in BOOLEAN BY <1>2
  <2> QED BY <1>1, <1>2, <1>3, <2>1 DEF VEInv, VETypeOK
<1>5. StatusTrue' BY <1>1 DEF StatusTrue
<1>6. FlashTraced' BY <1>2, <1>3, Zenon DEF FlashTraced
<1>7. pipe' = << >> BY <1>1, Zenon DEF VEInv, StatusTrue
<1>8. \A i \in 1..Len(pipe') : RequestOwned(i)'
  <2>1. Len(pipe') = 0 BY <1>7
  <2> QED BY <2>1
<1>9. CacheExact'
  <2> SUFFICES ASSUME ~lied', NEW k \in Knobs \ unsure', act'.last[k] # Nothing
               PROVE  enc'.val[k] = act'.last[k]
    BY Zenon DEF CacheExact
  <2>1. act.last \in [Knobs -> Targets] BY DEF VEInv, VETypeOK, Actuators
  <2>2. CASE resp = 200 /\ act.txn.of = k
    <3>1. k # Idr BY DEF Idr
    <3>2. enc.val[k] = act.txn.val BY <2>2, <3>1, <1>1, Zenon DEF VEInv, StatusTrue
    <3>3. act'.last[k] = act.txn.val BY <1>3, <2>1, <2>2, <3>1
    <3> QED BY <3>2, <3>3, <1>1
  <2>3. CASE ~(resp = 200 /\ act.txn.of = k)
    <3>1. k \in Knobs \ unsure BY <1>2, <2>3
    <3>2. act'.last[k] = act.last[k] BY <1>3, <2>1, <2>3
    <3>3. ~lied BY <1>1
    <3> QED BY <3>1, <3>2, <3>3, <2>3, <1>1, Zenon DEF VEInv, CacheExact
  <2> QED BY <2>2, <2>3
<1> QED BY <1>4, <1>5, <1>6, <1>8, <1>9 DEF VEInv

\* A transaction that fails, or is dropped by invalidate(), leaves no claim it cannot back.
LEMMA PollFailsKeeps == VEInv /\ (PollFails \/ Invalidate) => VEInv'
<1> SUFFICES ASSUME VEInv, PollFails \/ Invalidate PROVE VEInv' OBVIOUS
<1>0. lied \in BOOLEAN /\ said404 \in BOOLEAN BY DEF VEInv, VETypeOK
<1>1. CASE PollFails
  <2>1. /\ act.txn.on /\ act' = FinishTxn(0) /\ pipe' = Closed /\ resp' = Nothing
        /\ unsure' = unsure \cup (Abandoned \ {Idr}) /\ UNCHANGED <<enc, lied, said404>>
    BY <1>1 DEF PollFails
  <2>2. /\ FinishTxn(0) \in Actuators
        /\ FinishTxn(0).last = IF 0 = 200 /\ act.txn.of # Idr
                               THEN [act.last EXCEPT ![act.txn.of] = act.txn.val] ELSE act.last
        /\ FinishTxn(0).fallback \/ FinishTxn(0).txn.persist \/ FinishTxn(0).txn.latch
             => said404 \/ (0 = 404 /\ ~act.txn.persist)
        /\ ~FinishTxn(0).txn.on => FinishTxn(0).txn = NoTxn
    BY <2>1, FinishTxnFacts
  <2>3. ~(0 = 404) /\ ~(0 = 200) OBVIOUS
  <2>4. act' \in Actuators /\ act'.last = act.last BY <2>1, <2>2, <2>3
  <2>5. FlashTraced' BY <2>1, <2>2, <2>3, Zenon DEF FlashTraced
  <2>6. lied' \in BOOLEAN /\ said404' \in BOOLEAN /\ lied' = lied /\ enc' = enc
    BY <1>0, <2>1
  <2>7. \A k \in Knobs : act'.last[k] # Nothing => act'.last[k] = act.last[k] /\ (lied => lied')
    BY <2>4, <2>6
  <2> QED BY <2>1, <2>4, <2>5, <2>6, <2>7, GiveUpKeeps
<1>2. CASE Invalidate
  <2> DEFINE none == [k \in Knobs |-> Nothing]
  <2>1. /\ act' = [act EXCEPT !.last = none, !.txn = NoTxn, !.fallback = FALSE,
                              !.reprobe = FALSE, !.hold = FALSE]
        /\ pipe' = Closed /\ resp' = Nothing
        /\ unsure' = unsure \cup (Abandoned \ {Idr}) /\ said404' = FALSE /\ lied' = FALSE
        /\ enc' = enc
    BY <1>2 DEF Invalidate, FallbackCleared
  <2>2. /\ NoTxn \in Txns /\ NoTxn.persist = FALSE /\ NoTxn.latch = FALSE
        /\ none \in [Knobs -> Targets]
    BY DEF NoTxn, Txns, Targets, Idr, Nothing
  <2>3. act \in Actuators BY DEF VEInv, VETypeOK
  <2>4. \A k \in Knobs : none[k] = Nothing OBVIOUS
  <2> HIDE DEF none
  <2>5. act' \in Actuators /\ act'.last = none /\ act'.txn = NoTxn /\ act'.fallback = FALSE
    BY <2>1, <2>2, <2>3 DEF Actuators
  <2>6. FlashTraced' BY <2>2, <2>5, Zenon DEF FlashTraced
  <2>7. lied' \in BOOLEAN /\ said404' \in BOOLEAN BY <2>1
  <2>8. \A k \in Knobs : act'.last[k] # Nothing => act'.last[k] = act.last[k] /\ (lied => lied')
    BY <2>4, <2>5, Zenon
  <2> QED BY <2>1, <2>5, <2>6, <2>7, <2>8, GiveUpKeeps
<1> QED BY <1>1, <1>2

\* The encoder serves a request: of a knob that is unsure, or the transaction's own, whose
\* status then waits on the connection.
LEMMA ServeKeeps ==
  ASSUME VEInv, NEW fails \in BOOLEAN, Serve(fails)
  PROVE  VEInv'
<1> USE VencAssumption
<1> DEFINE q == Head(pipe)
           status == IF fails THEN 500
                     ELSE IF q.of = Idr \/ q.persist \/ enc.live THEN 200 ELSE 404
<1>1. /\ pipe # << >> /\ pipe' = Tail(pipe)
      /\ enc' = IF q.of # Idr /\ status = 200 THEN [enc EXCEPT !.val[q.of] = q.val] ELSE enc
      /\ resp' = IF q.open THEN status ELSE resp
      /\ UNCHANGED <<act, lied, unsure, said404>>
  BY DEF Serve
<1>2. status \in {200, 404, 500} OBVIOUS
<1> HIDE DEF status
<1>3. /\ pipe \in Seq(Requests) /\ Len(pipe) \in Nat /\ act \in Actuators
      /\ enc \in [val : [Knobs -> Targets], live : BOOLEAN]
  BY LenProperties DEF VEInv, VETypeOK, Pipes
<1>4. /\ pipe' \in Seq(Requests) /\ Len(pipe') = Len(pipe) - 1 /\ Len(pipe) > 0
      /\ \A i \in 1..Len(pipe') : pipe'[i] = pipe[i + 1]
      /\ q = pipe[1] /\ 1 \in 1..Len(pipe) /\ q \in Requests
  BY <1>1, <1>3, HeadTailProperties, EmptySeq, ElementOfSeq
<1> HIDE DEF q
<1>5. q.of \in Knobs \cup {Idr} /\ q.val \in Targets BY <1>4 DEF Requests
<1>6. resp = Nothing BY <1>1, Zenon DEF VEInv, StatusTrue
<1>7. q.open => /\ Len(pipe) = 1 /\ act.txn.on /\ act.txn.sent
                /\ q.of = act.txn.of /\ q.val = act.txn.val
  BY <1>4, Zenon DEF VEInv, RequestOwned
<1>8. ~q.open /\ q.of # Idr => q.of \in unsure
  BY <1>4, Zenon DEF VEInv, RequestOwned
<1>9. /\ enc' \in [val : [Knobs -> Targets], live : BOOLEAN]
      /\ \A k \in Knobs : enc'.val[k] = IF q.of = k /\ status = 200 THEN q.val ELSE enc.val[k]
  <2>1. CASE q.of # Idr /\ status = 200
    <3>1. enc' = [enc EXCEPT !.val = [enc.val EXCEPT ![q.of] = q.val]] BY <1>1, <2>1
    <3>2. q.of \in Knobs /\ enc.val \in [Knobs -> Targets] BY <1>3, <1>5, <2>1
    <3>3. [enc.val EXCEPT ![q.of] = q.val] \in [Knobs -> Targets] BY <1>5, <3>2
    <3> QED BY <3>1, <3>2, <3>3, <1>3, <2>1
  <2>2. CASE ~(q.of # Idr /\ status = 200)
    <3>1. enc' = enc BY <1>1, <2>2
    <3>2. \A k \in Knobs : ~(q.of = k /\ status = 200) BY <2>2 DEF Idr
    <3> QED BY <3>1, <3>2, <1>3
  <2> QED BY <2>1, <2>2
<1>10. VETypeOK'
  <2>1. resp' \in {Nothing, 200, 404, 500} BY <1>1, <1>2, <1>6
  <2> QED BY <1>1, <1>4, <1>9, <2>1 DEF VEInv, VETypeOK, Pipes
<1>11. StatusTrue'
  <2> SUFFICES ASSUME resp' # Nothing
               PROVE  /\ pipe' = << >> /\ act.txn.on /\ act.txn.sent
                      /\ resp' = 200 /\ act.txn.of # Idr =>
                            enc'.val[act.txn.of] = act.txn.val
    BY <1>1 DEF StatusTrue
  <2>1. q.open /\ resp' = status BY <1>1, <1>6, Zenon
  <2>2. pipe' = << >>
    <3>1. Len(pipe) = 1 BY <1>7, <2>1, Zenon
    <3>2. Len(pipe') = 0 BY <1>4, <3>1
    <3> QED BY <1>4, <3>2, EmptySeq
  <2>3. resp' = 200 /\ act.txn.of # Idr => enc'.val[act.txn.of] = act.txn.val
    <3>1. act.txn.of = q.of /\ act.txn.val = q.val BY <1>7, <2>1, Zenon
    <3> QED BY <3>1, <1>5, <1>9, <2>1
  <2> QED BY <1>7, <2>1, <2>2, <2>3, Zenon
<1>12. CacheExact'
  <2> SUFFICES ASSUME ~lied', NEW k \in Knobs \ unsure', act'.last[k] # Nothing
               PROVE  enc'.val[k] = act'.last[k] \/ (resp' = 200 /\ act'.txn.of = k)
    BY Zenon DEF CacheExact
  <2>1. ~lied /\ k \in Knobs \ unsure /\ act.last[k] # Nothing /\ act' = act BY <1>1
  <2>2. enc.val[k] = act.last[k]
    <3>1. ~(resp = 200) BY <1>6 DEF Nothing
    <3> QED BY <2>1, <3>1 DEF VEInv, CacheExact
  <2>3. CASE q.of = k /\ status = 200
    <3>1. q.open BY <1>8, <2>1, <2>3 DEF Idr
    <3> QED BY <1>1, <1>7, <2>1, <2>3, <3>1, Zenon
  <2>4. CASE ~(q.of = k /\ status = 200) BY <1>9, <2>1, <2>2, <2>4
  <2> QED BY <2>3, <2>4
<1>13. FlashTraced' BY <1>1, Zenon DEF VEInv, FlashTraced
<1>14. ASSUME NEW i \in 1..Len(pipe') PROVE RequestOwned(i)'
  <2>1. i + 1 \in 1..Len(pipe) /\ pipe'[i] = pipe[i + 1] BY <1>3, <1>4
  <2>2. RequestOwned(i + 1) BY <2>1 DEF VEInv
  <2>3. i + 1 = Len(pipe) => i = Len(pipe') BY <1>3, <1>4
  <2> QED BY <1>1, <2>1, <2>2, <2>3, Zenon DEF RequestOwned
<1> QED BY <1>10, <1>11, <1>12, <1>13, <1>14 DEF VEInv

\* A restart of the encoder empties the pipe and is not yet known.
LEMMA RestartKeeps ==
  ASSUME VEInv, NEW live \in BOOLEAN, EncoderRestarts(live)
  PROVE  VEInv'
<1>1. /\ enc' = [val |-> [k \in Knobs |-> 0], live |-> live] /\ pipe' = << >>
      /\ resp' = Nothing /\ lied' = TRUE /\ UNCHANGED <<act, unsure, said404>>
  BY DEF EncoderRestarts
<1>2. pipe' \in Seq(Requests) /\ Len(pipe') = 0 BY <1>1
<1>3. enc' \in [val : [Knobs -> Targets], live : BOOLEAN] BY <1>1 DEF Targets, Nothing
<1>4. VETypeOK' BY <1>1, <1>2, <1>3 DEF VEInv, VETypeOK, Pipes
<1>5. StatusTrue' BY <1>1 DEF StatusTrue
<1>6. CacheExact' BY <1>1, Zenon DEF CacheExact
<1>7. FlashTraced' BY <1>1, Zenon DEF VEInv, FlashTraced
<1>8. \A i \in 1..Len(pipe') : RequestOwned(i)' BY <1>2
<1> QED BY <1>4, <1>5, <1>6, <1>7, <1>8 DEF VEInv

\* Every step of the actuator and the encoder keeps the invariant.
LEMMA VEInvStep == VEInv /\ [VENext]_veVars => VEInv'
<1> SUFFICES ASSUME VEInv, [VENext]_veVars PROVE VEInv' OBVIOUS
<1>0. act \in Actuators BY DEF VEInv, VETypeOK
<1>1. ASSUME NEW k \in Knobs, NEW v \in Vals, Want(k, v) PROVE VEInv'
  <2>1. /\ act' = [act EXCEPT !.want = [act.want EXCEPT ![k] = v]]
        /\ UNCHANGED <<enc, pipe, resp, lied, unsure, said404>>
    BY <1>1 DEF Want
  <2>2. [act.want EXCEPT ![k] = v] \in [Knobs -> Targets] BY <1>0 DEF Actuators, Targets
  <2>3. act' \in Actuators /\ act'.txn = act.txn /\ act'.last = act.last
        /\ act'.fallback = act.fallback
    BY <1>0, <2>1, <2>2 DEF Actuators
  <2> QED BY <2>1, <2>3, QuietKeeps
<1>2. CASE RequestIdr \/ HoldEnds \/ GateEnds \/ ReprobeOpens
  <2>1. /\ \/ act' = [act EXCEPT !.idr = TRUE]
           \/ act' = [act EXCEPT !.hold = FALSE]
           \/ act' = [act EXCEPT !.gate = FALSE]
           \/ act' = [act EXCEPT !.reprobe = TRUE]
        /\ UNCHANGED <<enc, pipe, resp, lied, unsure, said404>>
    BY <1>2 DEF RequestIdr, HoldEnds, GateEnds, ReprobeOpens
  <2>2. act' \in Actuators /\ act'.txn = act.txn /\ act'.last = act.last
        /\ act'.fallback = act.fallback
    BY <1>0, <2>1 DEF Actuators
  <2> QED BY <2>1, <2>2, QuietKeeps
<1>3. CASE PollStarts BY <1>3, PollStartsKeeps
<1>4. CASE PollSends BY <1>4, PollSendsKeeps
<1>5. CASE PollReads BY <1>5, PollReadsKeeps
<1>6. CASE PollFails \/ Invalidate BY <1>6, PollFailsKeeps
<1>7. ASSUME NEW fails \in BOOLEAN, Serve(fails) PROVE VEInv' BY <1>7, ServeKeeps
<1>8. ASSUME NEW live \in BOOLEAN, EncoderRestarts(live) PROVE VEInv' BY <1>8, RestartKeeps
<1>9. CASE UNCHANGED veVars
  <2>1. act' = act /\ UNCHANGED <<enc, pipe, resp, lied, unsure, said404>>
    BY <1>9 DEF veVars
  <2> QED BY <1>0, <2>1, QuietKeeps
<1> QED BY <1>1, <1>2, <1>3, <1>4, <1>5, <1>6, <1>7, <1>8, <1>9 DEF VENext

\* The encoder holds what the actuator believes it holds, and its flash is written only
\* after a refusal of the volatile path (VencActuator::finish_txn, invalidate()): for
\* any knobs and values, any number of faults, restarts and late answers.
THEOREM ActuatorAlwaysSound == VESpec => []ActuatorSound
<1>1. VEInit => VEInv
  <2> SUFFICES ASSUME VEInit PROVE VEInv OBVIOUS
  <2>1. NoTxn \in Txns BY DEF NoTxn, Txns, Targets, Idr, Nothing
  <2>2. /\ act \in Actuators /\ act.txn = NoTxn /\ act.fallback = FALSE
        /\ \A k \in Knobs : act.last[k] = Nothing
    BY <2>1 DEF VEInit, Actuators, Targets
  <2>3. pipe \in Seq(Requests) /\ Len(pipe) = 0 BY DEF VEInit
  <2>4. VETypeOK BY <2>2, <2>3 DEF VEInit, VETypeOK, Pipes, Targets, Nothing
  <2>5. StatusTrue BY DEF VEInit, StatusTrue
  <2>6. CacheExact BY <2>2, Zenon DEF CacheExact
  <2>7. FlashTraced
    <3>1. NoTxn.persist = FALSE /\ NoTxn.latch = FALSE BY DEF NoTxn
    <3> QED BY <2>2, <3>1, Zenon DEF FlashTraced
  <2> QED BY <2>3, <2>4, <2>5, <2>6, <2>7 DEF VEInv
<1>2. VEInv => ActuatorSound
  <2> SUFFICES ASSUME VEInv PROVE ActuatorSound OBVIOUS
  <2>1. resp = 200 => act.txn.on
    <3>1. resp = 200 => resp # Nothing BY DEF Nothing
    <3> QED BY <3>1, Zenon DEF VEInv, StatusTrue
  <2>2. CacheHonest BY <2>1, Zenon DEF VEInv, CacheExact, CacheHonest
  <2>3. FlashEarned BY Zenon DEF VEInv, FlashTraced, FlashEarned
  <2> QED BY <2>2, <2>3 DEF ActuatorSound
<1> QED BY <1>1, <1>2, VEInvStep, PTL DEF VESpec

-----------------------------------------------------------------------------
(* The frame-rate ladder *)

Ladders == [started : BOOLEAN, current : Nat, size : Nat, sampleAge : Nat, changeAge : Nat,
            settle : Nat, reduce : Nat, restore : Nat]

\* Time since the last change covers a settle time in progress and, with it, an evidence
\* clock that has reached n; a clock at its cap covers everything.
Covers(n) == calm >= AgeCap \/ calm + 1 >= FpsSettle + n

EvidenceCovered ==
    /\ calm >= AgeCap \/ ladder.settle + calm >= FpsSettle
    /\ ladder.reduce # Never => Covers(ladder.reduce)
    /\ ladder.restore # Never => Covers(ladder.restore)

\* The evidence of a loop that is switched on is covered; one never started has none.
FLInv ==
    /\ ladder \in Ladders /\ calm \in Nat /\ cmd \in [enabled : BOOLEAN, select : Nat]
    /\ cmd.enabled /\ ladder.started => EvidenceCovered
    /\ ~ladder.started => ladder.reduce = Never /\ ladder.restore = Never

\* The cap of the ages is at least every period that is compared with one.
LEMMA AgeCapBounds ==
  AgeCap \in Nat /\ AgeCap >= FpsSettle + ReduceAfter /\ AgeCap >= FpsSettle + RestoreAfter
<1>1. Limits \subseteq Nat BY FrameRateAssumption DEF Limits
<1>2. \E n \in Limits : \A m \in Limits : m <= n
  BY FrameRateAssumption DEF Limits
<1>3. AgeCap \in Limits /\ \A m \in Limits : m <= AgeCap BY <1>2 DEF AgeCap
<1>4. FpsSettle + ReduceAfter \in Limits /\ FpsSettle + RestoreAfter \in Limits BY DEF Limits
<1> QED BY <1>1, <1>3, <1>4

\* What one tick of the clocks does.
LEMMA AgedFacts ==
  ASSUME NEW l \in Ladders
  PROVE  /\ Aged(l) \in Ladders /\ Aged(l).current = l.current /\ Aged(l).started = l.started
         /\ Aged(l).settle = IF l.settle > 0 THEN l.settle - 1 ELSE 0
         /\ Aged(l).reduce = (IF l.reduce = Never THEN Never ELSE Older(l.reduce))
         /\ Aged(l).restore = (IF l.restore = Never THEN Never ELSE Older(l.restore))
<1>1. \A n \in Nat : Older(n) \in Nat BY AgeCapBounds DEF Older
<1> DEFINE s == IF l.settle > 0 THEN l.settle - 1 ELSE 0
           d == IF l.reduce = Never THEN Never ELSE Older(l.reduce)
           u == IF l.restore = Never THEN Never ELSE Older(l.restore)
<1>2. s \in Nat /\ d \in Nat /\ u \in Nat /\ Older(l.sampleAge) \in Nat
      /\ Older(l.changeAge) \in Nat
  BY <1>1 DEF Ladders, Never
<1>3. Aged(l) = [l EXCEPT !.sampleAge = Older(l.sampleAge), !.changeAge = Older(l.changeAge),
                          !.settle = s, !.reduce = d, !.restore = u]
  BY DEF Aged, Ladders
<1> HIDE DEF s, d, u
<1>4. /\ Aged(l) \in Ladders /\ Aged(l).current = l.current /\ Aged(l).started = l.started
      /\ Aged(l).settle = s /\ Aged(l).reduce = d /\ Aged(l).restore = u
  BY <1>2, <1>3 DEF Ladders
<1> QED BY <1>4 DEF s, d, u

\* A started ladder's tick over aged clocks keeps the rate, or moves it one step when the
\* evidence clock, settled, has passed its period.
LEMMA TickedFacts ==
  ASSUME NEW l \in Ladders, l.started, NEW settling \in BOOLEAN
  PROVE  LET t == Ticked(l, settling)
         IN /\ t \in Ladders /\ t.started = l.started
            /\ \/ /\ t.current = l.current /\ t.settle = l.settle
                  /\ t.reduce # Never => t.reduce = l.reduce \/ (t.reduce = 1 /\ l.settle = 0)
                  /\ t.restore # Never => t.restore = l.restore \/ (t.restore = 1 /\ l.settle = 0)
               \/ /\ t.current # l.current /\ t.settle = FpsSettle
                  /\ t.reduce = Never /\ t.restore = Never /\ l.settle = 0
                  /\ \/ t.current < l.current /\ ClockOn(l.reduce) > ReduceAfter
                     \/ t.current > l.current /\ ClockOn(l.restore) > RestoreAfter
<1> DEFINE t == Ticked(l, settling)
<1> USE FrameRateAssumption DEF Never
<1>1. CASE t = l \/ t = NoEvidence(l)
  <2>1. /\ NoEvidence(l) \in Ladders /\ NoEvidence(l).current = l.current
        /\ NoEvidence(l).settle = l.settle /\ NoEvidence(l).started = l.started
        /\ NoEvidence(l).reduce = Never /\ NoEvidence(l).restore = Never
    BY DEF NoEvidence, Ladders
  <2> HIDE DEF t
  <2> QED BY <1>1, <2>1, Zenon DEF t
<1>2. CASE t = Reduces(l) /\ l.settle = 0
  <2> DEFINE d == [l EXCEPT !.restore = Never, !.reduce = ClockOn(l.reduce)]
             r == Down(l.current)
  <2>1. /\ d \in Ladders /\ d.current = l.current /\ d.settle = l.settle
        /\ d.started = l.started /\ d.restore = Never /\ d.reduce = ClockOn(l.reduce)
        /\ ClockOn(l.reduce) = l.reduce \/ ClockOn(l.reduce) = 1
    BY DEF ClockOn, Ladders
  <2>2. r # l.current => r \in Nat /\ r < l.current
    BY DEF Down, Ladders
  <2>3. r \in Nat => /\ Committed(l, r) \in Ladders /\ Committed(l, r).current = r
                     /\ Committed(l, r).settle = FpsSettle /\ Committed(l, r).started = l.started
                     /\ Committed(l, r).reduce = Never /\ Committed(l, r).restore = Never
    BY DEF Committed, Forgotten, NoEvidence, Ladders, NoHz
  <2> HIDE DEF d, r
  <2>4. \/ t = NoEvidence(l)
        \/ r # l.current /\ d.reduce > ReduceAfter /\ t = Committed(l, r)
        \/ t = d
    BY <1>2, <2>1, Zenon DEF Reduces, d, r
  <2> HIDE DEF t
  <2>5. CASE t = d BY <1>2, <2>1, <2>5 DEF t
  <2>6. CASE r # l.current /\ d.reduce > ReduceAfter /\ t = Committed(l, r)
    <3>1. /\ t \in Ladders /\ t.current = r /\ t.settle = FpsSettle /\ t.started = l.started
          /\ t.reduce = Never /\ t.restore = Never
      BY <2>2, <2>3, <2>6
    <3>2. t.current # l.current /\ t.current < l.current /\ ClockOn(l.reduce) > ReduceAfter
      BY <3>1, <2>1, <2>2, <2>6
    <3> QED BY <3>1, <3>2, <1>2 DEF t
  <2> QED BY <1>1, <2>4, <2>5, <2>6 DEF t
<1>3. CASE t = Restores(l) /\ l.settle = 0
  <2> DEFINE u == [l EXCEPT !.reduce = Never, !.restore = ClockOn(l.restore)]
             r == Up(l.current)
  <2>1. /\ u \in Ladders /\ u.current = l.current /\ u.settle = l.settle
        /\ u.started = l.started /\ u.reduce = Never /\ u.restore = ClockOn(l.restore)
        /\ ClockOn(l.restore) = l.restore \/ ClockOn(l.restore) = 1
    BY DEF ClockOn, Ladders
  <2>2. r # l.current => r \in Nat /\ r > l.current
    BY DEF Up, Ladders
  <2>3. r \in Nat => /\ Committed(l, r) \in Ladders /\ Committed(l, r).current = r
                     /\ Committed(l, r).settle = FpsSettle /\ Committed(l, r).started = l.started
                     /\ Committed(l, r).reduce = Never /\ Committed(l, r).restore = Never
    BY DEF Committed, Forgotten, NoEvidence, Ladders, NoHz
  <2> HIDE DEF u, r
  <2>4. \/ t = NoEvidence(l)
        \/ r # l.current /\ u.restore > RestoreAfter /\ t = Committed(l, r)
        \/ t = u
    BY <1>3, <2>1, Zenon DEF Restores, u, r
  <2> HIDE DEF t
  <2>5. CASE t = u BY <1>3, <2>1, <2>5 DEF t
  <2>6. CASE r # l.current /\ u.restore > RestoreAfter /\ t = Committed(l, r)
    <3>1. /\ t \in Ladders /\ t.current = r /\ t.settle = FpsSettle /\ t.started = l.started
          /\ t.reduce = Never /\ t.restore = Never
      BY <2>2, <2>3, <2>6
    <3>2. t.current # l.current /\ t.current > l.current /\ ClockOn(l.restore) > RestoreAfter
      BY <3>1, <2>1, <2>2, <2>6
    <3> QED BY <3>1, <3>2, <1>3 DEF t
  <2> QED BY <1>1, <2>4, <2>5, <2>6 DEF t
<1>4. \/ t = l \/ t = NoEvidence(l)
      \/ (t = Reduces(l) /\ l.settle = 0) \/ (t = Restores(l) /\ l.settle = 0)
  <2>1. l.settle \in Nat BY DEF Ladders
  <2> QED BY <2>1 DEF Ticked
<1> QED BY <1>1, <1>2, <1>3, <1>4

\* The clocks of a switched-on ladder stay covered through a tick, and a move is made
\* only when they are.
LEMMA TickCovered ==
  ASSUME FLInv, NEW settling \in BOOLEAN, TickRate(settling)
  PROVE  FLInv' /\ (Moves => calm + 1 >= FpsSettle + (IF ladder'.current < ladder.current
                                                  THEN ReduceAfter ELSE RestoreAfter))
<1> USE FrameRateAssumption, AgeCapBounds DEF Never
<1> DEFINE a == Aged(ladder)
           l == IF cmd.enabled THEN Ticked(a, settling) ELSE a
<1>1. ladder \in Ladders /\ calm \in Nat BY DEF FLInv
<1>2. /\ ladder' = l /\ cmd' = cmd
      /\ calm' = IF l.current # ladder.current THEN 0 ELSE Older(calm)
  BY DEF TickRate
<1>3. /\ a \in Ladders /\ a.current = ladder.current /\ a.started = ladder.started
      /\ a.settle = IF ladder.settle > 0 THEN ladder.settle - 1 ELSE 0
      /\ a.reduce = (IF ladder.reduce = Never THEN Never ELSE Older(ladder.reduce))
      /\ a.restore = (IF ladder.restore = Never THEN Never ELSE Older(ladder.restore))
  BY <1>1, AgedFacts
<1>4. /\ ladder.settle \in Nat /\ ladder.reduce \in Nat /\ ladder.restore \in Nat
      /\ a.settle \in Nat /\ a.reduce \in Nat /\ a.restore \in Nat
      /\ ladder.current \in Nat /\ ladder.started \in BOOLEAN
  BY <1>1, <1>3 DEF Ladders
<1>5. calm' \in Nat /\ (l.current = ladder.current => calm' = Older(calm))
      /\ (l.current # ladder.current => calm' = 0)
  BY <1>1, <1>2 DEF Older
<1> HIDE DEF a
<1>6. CASE ~cmd.enabled
  <2>1. l = a BY <1>6
  <2>2. ladder' \in Ladders BY <1>2, <1>3, <2>1
  <2>3. ~ladder'.started => ladder'.reduce = Never /\ ladder'.restore = Never
    <3>1. ladder'.started = ladder.started BY <1>2, <1>3, <2>1
    <3>2. ~ladder.started => ladder.reduce = Never /\ ladder.restore = Never BY DEF FLInv
    <3> QED BY <1>2, <1>3, <2>1, <3>1, <3>2
  <2>4. ~cmd'.enabled BY <1>2, <1>6
  <2> QED BY <1>2, <1>5, <1>6, <2>2, <2>3, <2>4, Zenon DEF FLInv, Moves
<1>7. CASE cmd.enabled /\ ~ladder.started
  <2>1. l = Started(a) BY <1>3, <1>7 DEF Ticked
  <2>2. /\ l \in Ladders /\ l.started = TRUE /\ l.settle = FpsSettle
        /\ l.reduce = a.reduce /\ l.restore = a.restore
    <3>1. Preferred \in Nat /\ TRUE \in BOOLEAN OBVIOUS
    <3>2. a \in Ladders BY <1>3
    <3> HIDE DEF l
    <3> QED BY <3>1, <3>2, <2>1 DEF Started, Ladders
  <2>3. ladder.reduce = Never /\ ladder.restore = Never BY <1>7 DEF FLInv
  <2>4. l.reduce = Never /\ l.restore = Never BY <1>3, <2>2, <2>3
  <2>5. l.settle + calm' >= FpsSettle BY <1>5, <2>2
  <2> HIDE DEF l
  <2>6. EvidenceCovered' BY <1>2, <2>4, <2>5 DEF EvidenceCovered
  <2> QED BY <1>2, <1>5, <1>7, <2>2, <2>6, Zenon DEF FLInv, Moves
<1>8. CASE cmd.enabled /\ ladder.started
  <2>1. l = Ticked(a, settling) /\ a.started BY <1>3, <1>8
  <2>2. /\ l \in Ladders /\ l.started = a.started
        /\ \/ /\ l.current = a.current /\ l.settle = a.settle
              /\ l.reduce # Never => l.reduce = a.reduce \/ (l.reduce = 1 /\ a.settle = 0)
              /\ l.restore # Never => l.restore = a.restore \/ (l.restore = 1 /\ a.settle = 0)
           \/ /\ l.current # a.current /\ l.settle = FpsSettle
              /\ l.reduce = Never /\ l.restore = Never /\ a.settle = 0
              /\ \/ l.current < a.current /\ ClockOn(a.reduce) > ReduceAfter
                 \/ l.current > a.current /\ ClockOn(a.restore) > RestoreAfter
    <3>1. a \in Ladders /\ a.started BY <1>3, <2>1, Zenon
    <3> DEFINE t == Ticked(a, settling)
    <3>2. /\ t \in Ladders /\ t.started = a.started
          /\ \/ /\ t.current = a.current /\ t.settle = a.settle
                /\ t.reduce # Never => t.reduce = a.reduce \/ (t.reduce = 1 /\ a.settle = 0)
                /\ t.restore # Never => t.restore = a.restore \/ (t.restore = 1 /\ a.settle = 0)
             \/ /\ t.current # a.current /\ t.settle = FpsSettle
                /\ t.reduce = Never /\ t.restore = Never /\ a.settle = 0
                /\ \/ t.current < a.current /\ ClockOn(a.reduce) > ReduceAfter
                   \/ t.current > a.current /\ ClockOn(a.restore) > RestoreAfter
      BY <3>1, TickedFacts, Zenon
    <3> HIDE DEF t, l
    <3>3. l = t BY <2>1, Zenon DEF t
    <3> QED BY <3>2, <3>3, Zenon
  <2>3. EvidenceCovered BY <1>8 DEF FLInv
  <2>4. l.settle \in Nat /\ l.reduce \in Nat /\ l.restore \in Nat /\ l.current \in Nat
    BY <2>2 DEF Ladders
  <2>5. l.started BY <1>8, <1>3, <2>2
  <2> HIDE DEF l
  <2>6. CASE l.current = a.current
    <3>1. calm' = Older(calm) BY <1>3, <1>5, <2>6
    <3>2. calm' >= AgeCap \/ calm' = calm + 1 BY <1>1, <3>1 DEF Older
    <3>3. calm' >= calm BY <1>1, <3>1 DEF Older
    <3>4. l.settle = a.settle /\ (calm >= AgeCap \/ ladder.settle + calm >= FpsSettle)
      BY <2>2, <2>3, <2>6 DEF EvidenceCovered
    <3>5. calm' >= AgeCap \/ l.settle + calm' >= FpsSettle
      BY <1>1, <1>3, <1>4, <1>5, <3>2, <3>3, <3>4
    <3>6. a.settle = 0 => calm' >= AgeCap \/ calm' >= FpsSettle
      BY <1>4, <1>5, <2>4, <3>4, <3>5
    <3>7. ASSUME l.reduce # Never PROVE calm' >= AgeCap \/ calm' + 1 >= FpsSettle + l.reduce
      <4>1. CASE l.reduce = 1 /\ a.settle = 0 BY <1>5, <3>6, <4>1
      <4>2. CASE l.reduce = a.reduce
        <5>1. ladder.reduce # Never /\ l.reduce <= ladder.reduce + 1
          BY <1>3, <1>4, <3>7, <4>2 DEF Older
        <5>2. calm >= AgeCap \/ calm + 1 >= FpsSettle + ladder.reduce
          BY <2>3, <5>1 DEF EvidenceCovered, Covers
        <5> QED BY <1>1, <1>4, <1>5, <2>4, <3>2, <3>3, <5>1, <5>2
      <4> QED BY <2>2, <2>6, <3>7, <4>1, <4>2
    <3>8. ASSUME l.restore # Never PROVE calm' >= AgeCap \/ calm' + 1 >= FpsSettle + l.restore
      <4>1. CASE l.restore = 1 /\ a.settle = 0 BY <1>5, <3>6, <4>1
      <4>2. CASE l.restore = a.restore
        <5>1. ladder.restore # Never /\ l.restore <= ladder.restore + 1
          BY <1>3, <1>4, <3>8, <4>2 DEF Older
        <5>2. calm >= AgeCap \/ calm + 1 >= FpsSettle + ladder.restore
          BY <2>3, <5>1 DEF EvidenceCovered, Covers
        <5> QED BY <1>1, <1>4, <1>5, <2>4, <3>2, <3>3, <5>1, <5>2
      <4> QED BY <2>2, <2>6, <3>8, <4>1, <4>2
    <3>9. EvidenceCovered'
      BY <1>2, <3>5, <3>7, <3>8 DEF EvidenceCovered, Covers, AgeCap, Limits
    <3>10. ~Moves BY <1>2, <1>3, <2>6 DEF Moves
    <3> QED BY <1>2, <1>5, <2>2, <2>5, <3>9, <3>10, Zenon DEF FLInv
  <2>7. CASE l.current # a.current
    <3>1. calm' = 0 BY <1>3, <1>5, <2>7
    <3>2. l.settle = FpsSettle /\ l.reduce = Never /\ l.restore = Never /\ a.settle = 0
      BY <2>2, <2>7
    <3>3. EvidenceCovered'
      <4>1. l.settle + calm' >= FpsSettle BY <3>1, <3>2
      <4> QED BY <1>2, <3>2, <4>1 DEF EvidenceCovered
    <3>4. calm >= AgeCap \/ calm + 1 >= FpsSettle
      BY <1>1, <1>3, <1>4, <2>3, <3>2 DEF EvidenceCovered
    <3>5. CASE l.current < a.current
      <4>1. ClockOn(a.reduce) > ReduceAfter BY <1>3, <1>4, <2>2, <2>4, <2>7, <3>5
      <4>2. CASE ladder.reduce = Never
        <5>1. ReduceAfter = 0 BY <1>3, <4>1, <4>2 DEF ClockOn
        <5> QED BY <1>1, <1>2, <1>3, <1>5, <2>2, <2>5, <3>3, <3>4, <3>5, <5>1 DEF FLInv
      <4>3. CASE ladder.reduce # Never
        <5>1. ladder.reduce >= ReduceAfter BY <1>3, <1>4, <4>1, <4>3 DEF ClockOn, Older
        <5>2. calm >= AgeCap \/ calm + 1 >= FpsSettle + ladder.reduce
          BY <2>3, <4>3 DEF EvidenceCovered, Covers
        <5>3. calm + 1 >= FpsSettle + ReduceAfter BY <1>1, <1>4, <5>1, <5>2
        <5> QED BY <1>2, <1>3, <1>5, <2>2, <2>5, <3>3, <3>5, <5>3 DEF FLInv
      <4> QED BY <4>2, <4>3
    <3>6. CASE l.current > a.current
      <4>1. ClockOn(a.restore) > RestoreAfter BY <1>3, <1>4, <2>2, <2>4, <2>7, <3>6
      <4>0. ~(l.current < ladder.current) BY <1>3, <1>4, <2>4, <3>6
      <4>2. CASE ladder.restore = Never
        <5>1. RestoreAfter = 0 BY <1>3, <4>1, <4>2 DEF ClockOn
        <5> QED BY <1>1, <1>2, <1>3, <1>5, <2>2, <2>5, <3>3, <3>4, <4>0, <5>1 DEF FLInv
      <4>3. CASE ladder.restore # Never
        <5>1. ladder.restore >= RestoreAfter BY <1>3, <1>4, <4>1, <4>3 DEF ClockOn, Older
        <5>2. calm >= AgeCap \/ calm + 1 >= FpsSettle + ladder.restore
          BY <2>3, <4>3 DEF EvidenceCovered, Covers
        <5>3. calm + 1 >= FpsSettle + RestoreAfter BY <1>1, <1>4, <5>1, <5>2
        <5> QED BY <1>2, <1>3, <1>5, <2>2, <2>5, <3>3, <4>0, <5>3 DEF FLInv
      <4> QED BY <4>2, <4>3
    <3> QED BY <2>2, <2>7, <3>5, <3>6
  <2> QED BY <2>6, <2>7
<1> QED BY <1>4, <1>6, <1>7, <1>8

Spaced == Moves => calm + 1 >= FpsSettle + (IF ladder'.current < ladder.current THEN ReduceAfter
                                         ELSE RestoreAfter)

\* Every step of the ladder and its commands keeps the invariant and spaces its moves.
LEMMA FLInvStep == FLInv /\ [FLNext]_flVars => FLInv' /\ (Spaced \/ UNCHANGED flVars)
<1> SUFFICES ASSUME FLInv, [FLNext]_flVars PROVE FLInv' /\ (Spaced \/ UNCHANGED flVars)
  OBVIOUS
<1> USE FrameRateAssumption, AgeCapBounds DEF Never
<1>0. ladder \in Ladders /\ calm \in Nat /\ cmd \in [enabled : BOOLEAN, select : Nat]
  BY DEF FLInv
<1>1. ASSUME NEW size \in Sizes, NEW new \in Sizes, Frame(size, new) PROVE FLInv' /\ Spaced
  <2>1. /\ ladder' = [ladder EXCEPT !.size = new, !.sampleAge = 0] /\ calm' = calm
        /\ cmd' = cmd
    BY <1>1 DEF Frame
  <2>2. new \in Nat BY DEF Sizes, Small, Fits, Roomy
  <2>3. /\ ladder' \in Ladders /\ ladder'.current = ladder.current
        /\ ladder'.settle = ladder.settle /\ ladder'.reduce = ladder.reduce
        /\ ladder'.restore = ladder.restore /\ ladder'.started = ladder.started
    BY <1>0, <2>1, <2>2 DEF Ladders
  <2>4. EvidenceCovered => EvidenceCovered'
    BY <2>1, <2>3, Zenon DEF EvidenceCovered, Covers, AgeCap, Limits
  <2> QED BY <1>0, <2>1, <2>3, <2>4, Zenon DEF FLInv, Spaced, Moves
<1>2. CASE LadderOn
  <2>1. /\ ladder' = Forgotten(ladder) /\ calm' = 0 /\ ~cmd.enabled
        /\ cmd' = [enabled |-> TRUE, select |-> NoHz]
    BY <1>2 DEF LadderOn, Resumed
  <2>0. cmd' \in [enabled : BOOLEAN, select : Nat] BY <2>1 DEF NoHz
  <2>2. /\ ladder' \in Ladders /\ ladder'.settle = FpsSettle /\ ladder'.reduce = Never
        /\ ladder'.restore = Never
    <3>1. NoHz \in Nat BY DEF NoHz
    <3>2. ladder' = Forgotten(ladder) BY <2>1
    <3> QED BY <1>0, <3>1, <3>2 DEF Forgotten, NoEvidence, Ladders
  <2>3. EvidenceCovered'
    <3>1. ladder'.settle + calm' >= FpsSettle BY <2>1, <2>2
    <3> QED BY <2>2, <3>1 DEF EvidenceCovered
  <2>4. calm' \in Nat BY <2>1
  <2> QED BY <2>0, <2>1, <2>2, <2>3, <2>4, Zenon DEF FLInv, Spaced, Moves
<1>3. CASE LadderOff
  <2>1. UNCHANGED <<ladder, calm>> /\ cmd' = [cmd EXCEPT !.enabled = FALSE]
    BY <1>3 DEF LadderOff
  <2>2. EvidenceCovered => EvidenceCovered'
    BY <2>1, Zenon DEF EvidenceCovered, Covers, AgeCap, Limits
  <2>3. cmd.enabled BY <1>3 DEF LadderOff
  <2>4. cmd' \in [enabled : BOOLEAN, select : Nat] BY <1>0, <2>1
  <2> QED BY <2>4, <2>1, <2>2, <2>3, Zenon DEF FLInv, Spaced, Moves
<1>4. ASSUME NEW settling \in BOOLEAN, TickRate(settling) PROVE FLInv' /\ Spaced
  BY <1>4, TickCovered DEF Spaced
<1>5. ASSUME NEW r \in Presets, FpsSelect(r) PROVE FLInv' /\ Spaced
  <2>1. /\ ladder' = [ladder EXCEPT !.current = r] /\ calm' = 0
        /\ cmd' = [cmd EXCEPT !.select = r]
    BY <1>5 DEF FpsSelect
  <2>2. /\ ladder' \in Ladders /\ ladder'.reduce = ladder.reduce
        /\ ladder'.restore = ladder.restore /\ ladder'.started = ladder.started
    <3>1. r \in Nat OBVIOUS
    <3> QED BY <1>0, <2>1, <3>1 DEF Ladders
  <2>3. ~cmd.enabled BY <1>5 DEF FpsSelect
  <2>4. ~cmd'.enabled BY <1>0, <2>1, <2>3
  <2>6. cmd' \in [enabled : BOOLEAN, select : Nat]
    <3>1. r \in Nat OBVIOUS
    <3> QED BY <1>0, <2>1, <3>1
  <2>5. calm' \in Nat BY <2>1
  <2> QED BY <2>2, <2>3, <2>4, <2>5, <2>6, Zenon DEF FLInv, Spaced, Moves
<1>6. CASE UNCHANGED flVars
  <2>1. ladder' = ladder /\ calm' = calm /\ cmd' = cmd BY <1>6 DEF flVars
  <2>2. EvidenceCovered => EvidenceCovered'
    BY <2>1, Zenon DEF EvidenceCovered, Covers, AgeCap, Limits
  <2> QED BY <1>6, <2>1, <2>2, Zenon DEF FLInv
<1> QED BY <1>1, <1>2, <1>3, <1>4, <1>5, <1>6 DEF FLNext

\* However the loop is switched off, left alone and switched on again, and whatever sizes
\* and bitrate changes it sees, a move of the frame rate is preceded by the settle time and
\* a whole evidence period (FpsLadder::tick, resume()): for every ladder and every period.
THEOREM MovesAlwaysEarned == FLSpec => MovesEarned
<1>1. FLInit => FLInv
  <2> SUFFICES ASSUME FLInit PROVE FLInv OBVIOUS
  <2>1. ladder \in Ladders /\ calm \in Nat /\ cmd \in [enabled : BOOLEAN, select : Nat]
    BY DEF FLInit, Ladders, NoHz, Never
  <2>2. ladder.started = FALSE /\ ladder.reduce = Never /\ ladder.restore = Never
    BY DEF FLInit
  <2> QED BY <2>1, <2>2, Zenon DEF FLInv
<1>2. FLInv /\ [FLNext]_flVars => FLInv' BY FLInvStep
<1>3. FLInv /\ [FLNext]_flVars => [Spaced]_flVars BY FLInvStep
<1>4. FLSpec => [][Spaced]_flVars BY <1>1, <1>2, <1>3, PTL DEF FLSpec
<1> QED BY <1>4 DEF MovesEarned, Spaced

-----------------------------------------------------------------------------
(* The craft's power calibration *)

Readable == Nat \cup {Unset}
Seeks == [phase : {"sweep", "verify"}, qdb : Nat, clean : Readable, bad : Readable,
          best : Readable, loss : Int, descents : Nat]
Placements == [Rungs -> [qdb : Int, loss : Int]]
Calibrators ==
    [state : {"idle", "running", "done", "failed"}, rung : Rungs, enter : BOOLEAN,
     seek : Seeks, dwell : Nat, restore : BOOLEAN, ready : BOOLEAN, art : Placements]
Senders == [st : {"idle", "emitting", "await", "noevidence", "done"}, run : Nat, dwell : Nat,
            seq : 0..Count, retries : Nat, got : Nat]
Receivers == [run : Nat, open : Nat, seen : SUBSET (1..Count), closed : Nat, count : Nat]
Frames == [kind : {"probe"}, run : Nat \ {0}, dwell : Nat \ {0}, seq : 1..Count]
          \cup [kind : {"tally"}, run : Nat \ {0}, dwell : Nat, received : Nat]

Settings == [by : {"probe", "latch", "curve", "safe"}, qdb : Int]
Strays == {"refused", "moved", "repinned", "dropped"}

CCTypeOK ==
    /\ cal \in Calibrators /\ snd \in Senders /\ rcv \in Receivers
    /\ air \subseteq Frames /\ heard \subseteq 1..Count /\ runs \in Nat
    /\ hw \in Settings /\ pinned \in Int /\ stray \subseteq Strays

\* A sender at work is of this run and this dwell; nothing of a later one exists, and an
\* idle one means that no dwell is open.
DwellCurrent ==
    /\ ~Calibrating \/ cal.enter => snd.st = "idle"
    /\ Calibrating => runs > 0
    /\ snd.st # "idle" => snd.run = runs /\ snd.dwell = cal.dwell /\ snd.dwell > 0
    /\ snd.st \in {"emitting"} => snd.seq \in 1..Count
    /\ rcv.run <= runs /\ (rcv.open = 0 => rcv.seen = {})
    /\ \A m \in air : m.run <= runs
    /\ Calibrating =>
        /\ rcv.run = runs => rcv.open <= cal.dwell /\ rcv.closed <= cal.dwell
        /\ \A m \in air : m.run = runs => m.dwell <= cal.dwell

\* Every account of the dwell in progress, at the ground or on its way back, is of probes
\* the ground heard.
HeardBound ==
    snd.st # "idle" =>
        /\ rcv.run = runs /\ rcv.open = snd.dwell => rcv.seen \subseteq heard
        /\ rcv.run = runs /\ rcv.closed = snd.dwell => rcv.count <= Cardinality(heard)
        /\ \A m \in air : m.kind = "tally" /\ m.run = runs /\ m.dwell = snd.dwell =>
                m.received <= Cardinality(heard)

\* Of the readings R, l at power q is the least of rung r, and was measured unless it
\* stands for a dwell that was lost whole.
BestOf(R, r, q, l) ==
    /\ \A d \in R : d.rung = r => l <= d.loss
    /\ l < LossMax => \E d \in R : d.rung = r /\ d.qdb = q /\ d.loss = l

\* A run has placed the rungs below the present one, reads at most that one, and its
\* search holds the best of what it read there.
PlacedIn(c, R) ==
    c.state = "running" =>
        /\ \A r \in Rungs : r >= c.rung => c.art[r].qdb = Unset
        /\ \A d \in R : d.rung <= c.rung
        /\ IF c.seek.best = Unset THEN \A d \in R : d.rung # c.rung
           ELSE BestOf(R, c.rung, c.seek.best, c.seek.loss)
        /\ c.seek.phase = "sweep" => c.seek.best = Unset

MeasuredIn(c, R) ==
    \A r \in Rungs : c.art[r].qdb # Unset => BestOf(R, r, c.art[r].qdb, c.art[r].loss)

Readings == [rung : Rungs, qdb : Nat, loss : Int, at : Settings, on : Int,
             stray : SUBSET Strays]
ReadsTyped == reads \subseteq Readings

\* A reading was taken at the power and the rate it is booked for, but for what strayed.
There(d) ==
    /\ d.stray \cap {"refused", "moved"} = {} => d.at = ByProbe(d.qdb)
    /\ "repinned" \notin d.stray => d.on = d.rung

\* What a run owns: nothing is handed back while it is on, its first dwell is at the floor,
\* power and rate are its search's, and its readings were taken there.
Owned ==
    /\ Calibrating => ~cal.restore /\ (cal.enter => cal.seek.qdb = 0)
    /\ PowerOwned
    /\ \A d \in reads : There(d)

CCInv ==
    /\ CCTypeOK /\ DwellCurrent /\ HeardBound /\ ReadsTyped
    /\ PlacedIn(cal, reads) /\ MeasuredIn(cal, reads)
    /\ Owned

\* The search after a dwell is a search; it holds the better of what it held and, once it
\* verifies, of the dwell; and it is done at its best.
LEMMA SeekFacts ==
  ASSUME NEW s \in Seeks, NEW loss \in Int, NEW hot \in BOOLEAN,
         s.phase = "sweep" => s.best = Unset
  PROVE  LET t == OnDwell(s, loss, hot)
             better == s.best = Unset \/ loss < s.loss
         IN /\ t.seek \in Seeks /\ t.kind \in {"probe", "verify", "failed", "done"}
            /\ s.phase = "sweep" => t.seek.best = Unset /\ t.kind # "done"
            /\ s.phase = "verify" =>
                 /\ t.seek.phase = "verify"
                 /\ t.seek.best = IF better THEN s.qdb ELSE s.best
                 /\ t.seek.loss = IF better THEN loss ELSE s.loss
            /\ t.kind = "done" => t.seek.qdb = t.seek.best
<1> USE SeekAssumption
<1> DEFINE t == OnDwell(s, loss, hot)
<1>1. \A a, b \in Nat : Min({a, b}) \in Nat
  <2> SUFFICES ASSUME NEW a \in Nat, NEW b \in Nat PROVE Min({a, b}) \in Nat OBVIOUS
  <2>1. \E x \in {a, b} : \A y \in {a, b} : x <= y OBVIOUS
  <2>2. Min({a, b}) \in {a, b} BY <2>1 DEF Min
  <2> QED BY <2>2
<1>2. ASSUME NEW u \in Seeks
      PROVE  NoteBad(u) \in Seeks /\ NoteBad(u).best = u.best /\ NoteBad(u).loss = u.loss
             /\ NoteBad(u).phase = u.phase /\ NoteBad(u).qdb = u.qdb
             /\ NoteBad(u).descents = u.descents /\ NoteBad(u).clean = u.clean
  BY <1>2 DEF NoteBad, Seeks, Readable
<1>3. ASSUME NEW u \in Seeks, u.clean # Unset
      PROVE  Place(u).seek \in Seeks /\ Place(u).kind = "verify" /\ Place(u).seek.best = u.best
  <2> DEFINE q == IF u.bad > u.clean THEN u.clean ELSE Min({u.clean, BracketCap})
  <2>1. u.clean \in Nat BY <1>3 DEF Seeks, Readable
  <2>2. q \in Nat BY <1>1, <2>1
  <2>3. Place(u) = [kind |-> "verify", seek |-> [u EXCEPT !.phase = "verify", !.qdb = q]]
    BY DEF Place, SeekStep
  <2> HIDE DEF q
  <2> DEFINE v == [u EXCEPT !.phase = "verify", !.qdb = q]
  <2>4. v \in Seeks /\ v.best = u.best BY <2>2, <1>3 DEF Seeks
  <2>5. Place(u).seek = v /\ Place(u).kind = "verify" BY <2>3
  <2> HIDE DEF v
  <2> QED BY <2>4, <2>5
<1>4. CASE s.phase = "sweep"
  <2> DEFINE clean == loss <= LossBad
             read == IF clean THEN [s EXCEPT !.clean = s.qdb]
                     ELSE IF s.clean # Unset THEN NoteBad(s) ELSE s
  <2>1. read \in Seeks /\ read.best = Unset /\ read.phase = "sweep" /\ read.qdb = s.qdb
        /\ (clean => read.clean # Unset)
    <3>1. CASE clean BY <1>4, <3>1 DEF Seeks, Readable, Unset
    <3>2. CASE ~clean /\ s.clean # Unset BY <1>2, <1>4, <3>2
    <3>3. CASE ~clean /\ s.clean = Unset BY <1>4, <3>3
    <3> QED BY <3>1, <3>2, <3>3
  <2>2. \/ t = Place(read) /\ read.clean # Unset
        \/ t = SeekStep("probe", [read EXCEPT !.qdb = read.qdb + 1])
        \/ t = SeekStep("failed", read)
    <3>1. t = IF clean /\ hot THEN Place(read)
              ELSE IF s.qdb < MaxQdb THEN SeekStep("probe", [read EXCEPT !.qdb = @ + 1])
              ELSE IF read.clean # Unset THEN Place(read)
              ELSE SeekStep("failed", read)
      BY <1>4, Zenon DEF OnDwell
    <3> HIDE DEF t, read
    <3> QED BY <2>1, <3>1
  <2> HIDE DEF read
  <2>3. read.qdb + 1 \in Nat BY <2>1 DEF Seeks
  <2>4. /\ [read EXCEPT !.qdb = read.qdb + 1] \in Seeks
        /\ [read EXCEPT !.qdb = read.qdb + 1].best = read.best
    BY <2>1, <2>3 DEF Seeks
  <2>5. t.seek \in Seeks /\ t.kind \in {"probe", "verify", "failed"} /\ t.seek.best = Unset
    <3> DEFINE up == [read EXCEPT !.qdb = read.qdb + 1]
    <3> HIDE DEF t, up
    <3>1. up \in Seeks /\ up.best = Unset BY <2>1, <2>4 DEF up
    <3>2. CASE t = Place(read) /\ read.clean # Unset BY <1>3, <2>1, <3>2
    <3>3. CASE t = SeekStep("probe", up) BY <3>1, <3>3 DEF SeekStep
    <3>4. CASE t = SeekStep("failed", read) BY <2>1, <3>4 DEF SeekStep
    <3> QED BY <2>2, <3>2, <3>3, <3>4 DEF up, t
  <2> HIDE DEF t
  <2> QED BY <1>4, <2>5 DEF t
<1>5. CASE s.phase = "verify"
  <2> DEFINE better == s.best = Unset \/ loss < s.loss
             kept == IF better THEN [s EXCEPT !.best = s.qdb, !.loss = loss] ELSE s
             down == (loss > LossOk \/ better) /\ s.descents < DescentBudget /\ s.qdb > 0
             noted == IF loss > LossBad THEN NoteBad(kept) ELSE kept
  <2>1. t = IF down THEN SeekStep("verify", [noted EXCEPT !.descents = @ + 1, !.qdb = @ - 1])
            ELSE SeekStep("done", Settled(kept))
    BY <1>5, Zenon DEF OnDwell, Verify
  <2>2. /\ kept \in Seeks /\ kept.phase = "verify" /\ kept.qdb = s.qdb
        /\ kept.best = IF better THEN s.qdb ELSE s.best
        /\ kept.loss = IF better THEN loss ELSE s.loss
        /\ kept.best # Unset
    <3>1. s.qdb \in Nat /\ s.best \in Readable /\ s.qdb \in Readable /\ s.qdb # Unset
      BY DEF Seeks, Readable, Unset
    <3>2. CASE better
      <4> DEFINE k == [s EXCEPT !.best = s.qdb, !.loss = loss]
      <4>1. /\ k \in Seeks /\ k.phase = s.phase /\ k.qdb = s.qdb /\ k.best = s.qdb
            /\ k.loss = loss
        BY <3>1 DEF Seeks
      <4>2. kept = k BY <3>2
      <4> HIDE DEF k, kept
      <4> QED BY <1>5, <3>1, <3>2, <4>1, <4>2
    <3>3. CASE ~better BY <1>5, <3>3
    <3> QED BY <3>2, <3>3
  <2> HIDE DEF kept
  <2>3. /\ noted \in Seeks /\ noted.phase = "verify" /\ noted.best = kept.best
        /\ noted.loss = kept.loss /\ noted.qdb = s.qdb
    BY <1>2, <2>2
  <2> HIDE DEF noted
  <2>4. CASE down
    <3>1. noted.descents + 1 \in Nat /\ noted.qdb - 1 \in Nat
      BY <2>3, <2>4 DEF Seeks
    <3> DEFINE n == [noted EXCEPT !.descents = noted.descents + 1, !.qdb = noted.qdb - 1]
    <3>2. n \in Seeks /\ n.phase = "verify" /\ n.best = kept.best /\ n.loss = kept.loss
      BY <2>3, <3>1 DEF Seeks
    <3>3. t = SeekStep("verify", n) BY <2>1, <2>4
    <3> HIDE DEF n, t
    <3>4. t.kind = "verify" /\ t.seek = n BY <3>3 DEF SeekStep
    <3> QED BY <1>5, <2>2, <3>2, <3>4 DEF t
  <2>5. CASE ~down
    <3> DEFINE n == [kept EXCEPT !.qdb = kept.best]
    <3>1. kept.best \in Nat BY <2>2 DEF Seeks, Readable
    <3>2. /\ n \in Seeks /\ n.phase = "verify" /\ n.best = kept.best /\ n.loss = kept.loss
          /\ n.qdb = kept.best
      BY <2>2, <3>1 DEF Seeks
    <3>3. t = SeekStep("done", n) BY <2>1, <2>5 DEF Settled
    <3> HIDE DEF n, t
    <3>4. t.kind = "done" /\ t.seek = n BY <3>3 DEF SeekStep
    <3> QED BY <1>5, <2>2, <3>2, <3>4 DEF t
  <2> QED BY <2>4, <2>5
<1> QED BY <1>4, <1>5 DEF Seeks

\* The better of the best so far and a dwell is the best of the readings with it, or
\* without it when the dwell was lost whole.
LEMMA BetterIsBest ==
  ASSUME NEW R \in SUBSET Readings, NEW r \in Rungs, NEW s \in Seeks, NEW loss \in Int,
         IF s.best = Unset THEN \A d \in R : d.rung # r ELSE BestOf(R, r, s.best, s.loss),
         NEW e \in Readings, e.rung = r, e.qdb = s.qdb, e.loss = loss,
         NEW W, (W = R /\ loss = LossMax) \/ W = R \cup {e}
  PROVE  LET better == s.best = Unset \/ loss < s.loss
         IN BestOf(W, r, IF better THEN s.qdb ELSE s.best, IF better THEN loss ELSE s.loss)
<1> USE SeekAssumption, CalibAssumption, DwellAssumption
<1> DEFINE better == s.best = Unset \/ loss < s.loss
<1>1. s.loss \in Int /\ LossMax \in Int /\ \A d \in R : d.loss \in Int
  BY DEF Seeks, Readings
<1>2. CASE better
  <2>1. \A d \in R : d.rung = r => loss <= d.loss
    BY <1>1, <1>2 DEF BestOf
  <2>2. loss < LossMax => e \in W BY <1>1
  <2>3. \A d \in W : d.rung = r => loss <= d.loss BY <2>1
  <2> QED BY <1>2, <2>2, <2>3 DEF BestOf
<1>3. CASE ~better
  <2>1. BestOf(R, r, s.best, s.loss) BY <1>3
  <2>2. \A d \in W : d.rung = r => s.loss <= d.loss
    <3>1. s.loss <= loss BY <1>1, <1>3
    <3>2. \A d \in R : d.rung = r => s.loss <= d.loss BY <2>1 DEF BestOf
    <3> QED BY <3>1, <3>2
  <2>3. R \subseteq W OBVIOUS
  <2>4. s.loss < LossMax => \E d \in W : d.rung = r /\ d.qdb = s.best /\ d.loss = s.loss
    BY <2>1, <2>3 DEF BestOf
  <2> QED BY <1>3, <2>2, <2>4 DEF BestOf
<1> QED BY <1>2, <1>3

\* The step t of the search after a dwell of the running rung, over the readings W with
\* that dwell and R without it.
Stepped(c, R, W, t) ==
    /\ t.seek \in Seeks /\ t.kind \in {"probe", "verify", "failed", "done"}
    /\ t.kind = "done" => t.seek.qdb = t.seek.best
    /\ t.seek.phase = "sweep" => t.seek.best = Unset
    /\ IF t.seek.best = Unset THEN \A d \in W : d.rung # c.rung
       ELSE BestOf(W, c.rung, t.seek.best, t.seek.loss)
    /\ t.kind = "done" => c.seek.phase = "verify"
    /\ W \in SUBSET Readings /\ R \subseteq W
    /\ \A d \in W : d.rung <= c.rung
    /\ \A d \in W \ R : d.rung = c.rung

\* What a dwell that lost loss adds to the readings: itself once the search verifies, and
\* nothing when it was lost whole and no tally came.
Added(c, R, W, loss) ==
    \/ W = R /\ loss = LossMax
    \/ /\ c.seek.phase = "verify"
       /\ \E e \in Readings : /\ W = R \cup {e}
                              /\ e.rung = c.rung /\ e.qdb = c.seek.qdb /\ e.loss = loss
    \/ c.seek.phase = "sweep" /\ W = R

\* A dwell of the running rung keeps the search at the best of the readings.
LEMMA DwellKept ==
  ASSUME NEW c \in Calibrators, c.state = "running", NEW R \in SUBSET Readings,
         PlacedIn(c, R), MeasuredIn(c, R), NEW loss \in Int, NEW hot \in BOOLEAN,
         NEW W, Added(c, R, W, loss)
  PROVE  Stepped(c, R, W, OnDwell(c.seek, loss, hot))
<1> DEFINE s == c.seek
           t == OnDwell(s, loss, hot)
           better == s.best = Unset \/ loss < s.loss
<1>1. /\ s \in Seeks /\ c.rung \in Rungs /\ s.qdb \in Nat BY DEF Calibrators, Seeks
<1>2. /\ \A d \in R : d.rung <= c.rung
      /\ IF s.best = Unset THEN \A d \in R : d.rung # c.rung
         ELSE BestOf(R, c.rung, s.best, s.loss)
      /\ s.phase = "sweep" => s.best = Unset
  BY DEF PlacedIn
<1>4. c.rung \in Int BY <1>1, CalibAssumption DEF Rungs
<1>5. W \in SUBSET Readings /\ R \subseteq W /\ (\A d \in W : d.rung <= c.rung)
      /\ \A d \in W \ R : d.rung = c.rung
  <2>1. W = R \/ \E e \in Readings : W = R \cup {e} /\ e.rung = c.rung BY DEF Added
  <2> QED BY <1>2, <1>4, <2>1
<1>6. /\ t.seek \in Seeks /\ t.kind \in {"probe", "verify", "failed", "done"}
      /\ s.phase = "sweep" => t.seek.best = Unset /\ t.kind # "done"
      /\ s.phase = "verify" =>
           /\ t.seek.phase = "verify"
           /\ t.seek.best = IF better THEN s.qdb ELSE s.best
           /\ t.seek.loss = IF better THEN loss ELSE s.loss
      /\ t.kind = "done" => t.seek.qdb = t.seek.best
  BY <1>1, <1>2, SeekFacts
<1> HIDE DEF t
<1>7. s.phase \in {"sweep", "verify"} /\ s.best \in Readable /\ s.qdb # Unset
  BY <1>1 DEF Seeks, Unset
<1>8. CASE s.phase = "sweep"
  <2>1. W = R BY <1>8 DEF Added
  <2>2. Stepped(c, R, W, t) BY <1>2, <1>5, <1>6, <1>8, <2>1 DEF Stepped
  <2> QED BY <2>2 DEF t
<1>9. CASE s.phase = "verify"
  <2>1. BestOf(W, c.rung, IF better THEN s.qdb ELSE s.best, IF better THEN loss ELSE s.loss)
    <3>1. \E e \in Readings : /\ e.rung = c.rung /\ e.qdb = s.qdb /\ e.loss = loss
                              /\ W = R \cup {e} \/ (W = R /\ loss = LossMax)
      <4>1. CASE W = R /\ loss = LossMax
        <5> DEFINE e == [rung |-> c.rung, qdb |-> s.qdb, loss |-> loss,
                         at |-> [by |-> "safe", qdb |-> 0], on |-> 0, stray |-> {}]
        <5>1. e \in Readings /\ e.rung = c.rung /\ e.qdb = s.qdb /\ e.loss = loss
          BY <1>1 DEF Readings, Settings
        <5> QED BY <4>1, <5>1
      <4>2. CASE ~(W = R /\ loss = LossMax) BY <1>9, <4>2 DEF Added
      <4> QED BY <4>1, <4>2
    <3>2. PICK e \in Readings : /\ e.rung = c.rung /\ e.qdb = s.qdb /\ e.loss = loss
                                /\ W = R \cup {e} \/ (W = R /\ loss = LossMax)
      BY <3>1
    <3>3. (W = R /\ loss = LossMax) \/ W = R \cup {e} BY <3>2
    <3>4. IF s.best = Unset THEN \A d \in R : d.rung # c.rung
          ELSE BestOf(R, c.rung, s.best, s.loss)
      BY <1>2
    <3> HIDE DEF s
    <3> QED BY <1>1, <3>2, <3>3, <3>4, BetterIsBest
  <2>2. t.seek.best # Unset BY <1>6, <1>7, <1>9
  <2>3. BestOf(W, c.rung, t.seek.best, t.seek.loss) BY <1>6, <1>9, <2>1
  <2>4. Stepped(c, R, W, t) BY <1>5, <1>6, <1>9, <2>2, <2>3 DEF Stepped
  <2> QED BY <2>4 DEF t
<1> QED BY <1>7, <1>8, <1>9

\* What a tick of the calibrator c may come to: nothing, the end of the run, which asks for
\* the restore, or a new dwell at its search's power, the rung set or still the same.
Stays(c, s, a) == a.cal = c /\ a.snd = s /\ a.qdb = Unset /\ a.rung = Unset
Ends(c, a) ==
    /\ a.cal.state # "running" /\ a.cal.dwell = c.dwell /\ a.cal.restore
    /\ a.snd = IdleSender /\ a.qdb = Unset
Begins(c, a) ==
    /\ c.state = "running" /\ a.cal.state = "running" /\ ~a.cal.enter
    /\ a.cal.dwell = c.dwell + 1 /\ a.snd = BeginDwell(runs, c.dwell + 1)
    /\ a.cal.restore = c.restore /\ a.qdb = a.cal.seek.qdb
    /\ a.rung = a.cal.rung \/ (a.rung = Unset /\ a.cal.rung = c.rung /\ ~c.enter)

\* A reading is booked for the search's step, with what the radio then did.
Booked(c, d) ==
    /\ c.state = "running" /\ ~c.enter /\ d.rung = c.rung /\ d.qdb = c.seek.qdb
    /\ d.at = hw /\ d.on = pinned /\ d.stray = stray

\* Over the readings R and the one the tick took, the placements stay measured.
Outcome(c, s, a, R) ==
    /\ a.cal \in Calibrators /\ a.snd \in Senders /\ R \cup a.read \subseteq Readings
    /\ Stays(c, s, a) \/ Ends(c, a) \/ Begins(c, a)
    /\ PlacedIn(a.cal, R \cup a.read) /\ MeasuredIn(a.cal, R \cup a.read)
    /\ \A d \in a.read : Booked(c, d)

\* An idle sender and one that begins a dwell are senders.
LEMMA SendersBegin ==
  /\ IdleSender \in Senders
  /\ \A r, d \in Nat : BeginDwell(r, d) \in Senders
BY DwellAssumption DEF IdleSender, BeginDwell, Senders

\* A new reading of the running rung disturbs no placement of another rung.
LEMMA MeasuredGrows ==
  ASSUME NEW c \in Calibrators, c.state = "running", NEW R \in SUBSET Readings,
         NEW W \in SUBSET Readings, PlacedIn(c, R), MeasuredIn(c, R), R \subseteq W,
         \A d \in W \ R : d.rung = c.rung
  PROVE  MeasuredIn(c, W)
<1> SUFFICES ASSUME NEW r \in Rungs, c.art[r].qdb # Unset
             PROVE  BestOf(W, r, c.art[r].qdb, c.art[r].loss)
  BY DEF MeasuredIn
<1>1. BestOf(R, r, c.art[r].qdb, c.art[r].loss) BY DEF MeasuredIn
<1>2. r # c.rung
  <2>1. r \in Int /\ c.rung = r => r >= c.rung BY CalibAssumption DEF Rungs
  <2>2. ~(r >= c.rung) BY DEF PlacedIn
  <2>3. r \in Int BY CalibAssumption DEF Rungs
  <2> QED BY <2>1, <2>2, <2>3
<1>3. \A d \in W : d.rung = r => d \in R BY <1>2
<1> QED BY <1>1, <1>3 DEF BestOf

\* The end of a run leaves everything but its verdict.
LEMMA FinishFacts ==
  ASSUME NEW c \in Calibrators, NEW p \in {"done", "failed"}
  PROVE  /\ Finish(c, p) \in Calibrators /\ Finish(c, p).state = p
         /\ Finish(c, p).dwell = c.dwell /\ Finish(c, p).art = c.art
         /\ Finish(c, p).restore
BY DEF Finish, Calibrators

\* An ended run: nothing is being placed, and what was measured stays so.
LEMMA EndFacts ==
  ASSUME NEW c \in Calibrators, NEW d \in Calibrators, d.dwell = c.dwell,
         NEW p \in {"done", "failed"}, NEW R, NEW W,
         R \cup W \subseteq Readings, MeasuredIn(d, R \cup W), NEW s,
         \A x \in W : Booked(c, x)
  PROVE  Outcome(c, s, Acts(Finish(d, p), IdleSender, Unset, Unset, W), R)
<1> DEFINE f == Finish(d, p)
           a == Acts(f, IdleSender, Unset, Unset, W)
<1>1. /\ f \in Calibrators /\ f.state = p /\ f.dwell = d.dwell /\ f.art = d.art
      /\ f.restore
  BY FinishFacts
<1> HIDE DEF f
<1>2. a.cal = f /\ a.snd = IdleSender /\ a.read = W /\ a.qdb = Unset BY DEF Acts
<1>3. MeasuredIn(f, R \cup W) BY <1>1 DEF MeasuredIn
<1>4. f.state # "running" BY <1>1
<1>5. PlacedIn(f, R \cup W) BY <1>4 DEF PlacedIn
<1> HIDE DEF a
<1>6. Ends(c, a) BY <1>1, <1>2, <1>4 DEF Ends
<1>7. Outcome(c, s, a, R)
  BY <1>1, <1>2, <1>3, <1>5, <1>6, SendersBegin DEF Outcome
<1> QED BY <1>7 DEF a, f

\* A new dwell of a run, at the same rung or the next.
LEMMA DwellBegins ==
  ASSUME NEW c \in Calibrators, c.state = "running", NEW d \in Calibrators,
         d.dwell = c.dwell, d.state = "running", d.enter = FALSE, runs \in Nat, NEW R, NEW W,
         R \cup W \subseteq Readings, PlacedIn(d, R \cup W), MeasuredIn(d, R \cup W),
         \A x \in W : Booked(c, x), d.restore = c.restore,
         NEW s, NEW q, q = d.seek.qdb,
         NEW r, r = d.rung \/ (r = Unset /\ d.rung = c.rung /\ c.enter = FALSE)
  PROVE  Outcome(c, s, Acts(NewDwell(d), BeginDwell(runs, c.dwell + 1), q, r, W), R)
<1> DEFINE n == NewDwell(d)
           b == BeginDwell(runs, c.dwell + 1)
           a == Acts(n, b, q, r, W)
<1>1. d.dwell \in Nat /\ d.dwell + 1 \in Nat BY DEF Calibrators
<1>2. /\ n \in Calibrators /\ n.state = d.state /\ n.dwell = d.dwell + 1 /\ n.art = d.art
      /\ n.rung = d.rung /\ n.seek = d.seek /\ n.enter = d.enter /\ n.restore = d.restore
  BY <1>1 DEF NewDwell, Calibrators
<1>3. b \in Senders BY <1>1, SendersBegin
<1> HIDE DEF n, b
<1>4. a.cal = n /\ a.snd = b /\ a.read = W /\ a.qdb = q /\ a.rung = r BY DEF Acts
<1>5. MeasuredIn(n, R \cup W) BY <1>2 DEF MeasuredIn
<1>6. PlacedIn(n, R \cup W) BY <1>2 DEF PlacedIn
<1> HIDE DEF a
<1>7. n.state = "running" /\ ~n.enter /\ n.dwell = c.dwell + 1 BY <1>2
<1>8. Begins(c, a) BY <1>2, <1>4, <1>7 DEF Begins, b
<1>9. Outcome(c, s, a, R) BY <1>2, <1>3, <1>4, <1>5, <1>6, <1>8 DEF Outcome
<1> QED BY <1>9 DEF a, n, b

\* apply_step() of a step that does not complete the rung.
LEMMA ApplyStepFacts ==
  ASSUME NEW c \in Calibrators, c.state = "running", c.enter = FALSE, runs \in Nat,
         NEW R \in SUBSET Readings, PlacedIn(c, R), MeasuredIn(c, R),
         NEW loss \in Int, NEW hot \in BOOLEAN,
         NEW V, Added(c, R, R \cup V, loss), NEW s, OnDwell(c.seek, loss, hot).kind # "done",
         \A x \in V : Booked(c, x)
  PROVE  Outcome(c, s, ApplyStep(c, OnDwell(c.seek, loss, hot), V), R)
<1> DEFINE t == OnDwell(c.seek, loss, hot)
           W == R \cup V
           k == [c EXCEPT !.seek = t.seek]
<1>1. /\ t.seek \in Seeks /\ t.kind \in {"probe", "verify", "failed", "done"}
      /\ t.seek.phase = "sweep" => t.seek.best = Unset
      /\ IF t.seek.best = Unset THEN \A d \in W : d.rung # c.rung
         ELSE BestOf(W, c.rung, t.seek.best, t.seek.loss)
      /\ W \in SUBSET Readings /\ R \subseteq W
      /\ \A d \in W : d.rung <= c.rung
      /\ \A d \in W \ R : d.rung = c.rung
  <2>1. Stepped(c, R, W, t) BY DwellKept, Zenon
  <2> QED BY <2>1 DEF Stepped
<1>2. t.kind # "done" OBVIOUS
<1> HIDE DEF t
<1>3. /\ k \in Calibrators /\ k.state = "running" /\ k.enter = FALSE /\ k.dwell = c.dwell
      /\ k.art = c.art /\ k.rung = c.rung /\ k.seek = t.seek /\ k.restore = c.restore
  BY <1>1 DEF Calibrators
<1>4. MeasuredIn(c, W)
  <2> HIDE DEF W
  <2> QED BY <1>1, MeasuredGrows
<1> HIDE DEF k
<1>5. MeasuredIn(k, W) BY <1>3, <1>4 DEF MeasuredIn
<1>6. PlacedIn(k, W)
  <2>1. \A r \in Rungs : r >= k.rung => k.art[r].qdb = Unset BY <1>3 DEF PlacedIn
  <2> HIDE DEF W
  <2> QED BY <1>1, <1>3, <2>1 DEF PlacedIn
<1>7. ApplyStep(c, t, V) = IF t.kind = "failed"
                           THEN Acts(Finish(k, "failed"), IdleSender, Unset, Unset, V)
                           ELSE Acts(NewDwell(k), BeginDwell(runs, k.dwell + 1),
                                     t.seek.qdb, Unset, V)
  BY Zenon DEF ApplyStep, k
<1>8. W \subseteq Readings BY <1>1
<1>9. CASE t.kind = "failed"
  <2>1. Outcome(c, s, Acts(Finish(k, "failed"), IdleSender, Unset, Unset, V), R)
    BY <1>3, <1>5, <1>8, EndFacts
  <2> QED BY <1>7, <1>9, <2>1 DEF t
<1>10. CASE t.kind # "failed"
  <2>1. Outcome(c, s, Acts(NewDwell(k), BeginDwell(runs, c.dwell + 1), t.seek.qdb, Unset, V), R)
    BY <1>3, <1>5, <1>6, <1>8, DwellBegins
  <2> QED BY <1>3, <1>7, <1>10, <2>1 DEF t
<1> QED BY <1>9, <1>10

\* A dwell without a tally.
LEMMA BlackoutFacts ==
  ASSUME NEW c \in Calibrators, c.state = "running", c.enter = FALSE, runs \in Nat,
         NEW R \in SUBSET Readings, PlacedIn(c, R), MeasuredIn(c, R), NEW s
  PROVE  Outcome(c, s, Blackout(c), R)
<1> DEFINE t == OnDwell(c.seek, LossMax, FALSE)
<1>1. LossMax \in Int BY CalibAssumption, DwellAssumption
<1>2. CASE t.kind \in {"probe", "verify"}
  <2>1. t.kind # "done" BY <1>2
  <2>2. R \cup {} = R OBVIOUS
  <2>3. Added(c, R, R \cup {}, LossMax) BY <2>2 DEF Added
  <2>4. Outcome(c, s, ApplyStep(c, t, {}), R) BY <1>1, <2>1, <2>3, ApplyStepFacts
  <2>5. Blackout(c) = ApplyStep(c, t, {}) BY <1>2, Zenon DEF Blackout
  <2> QED BY <2>4, <2>5
<1>3. CASE t.kind \notin {"probe", "verify"}
  <2>1. R \cup {} \subseteq Readings /\ MeasuredIn(c, R \cup {})
    <3>1. R \cup {} = R OBVIOUS
    <3> QED BY <3>1
  <2>2. Outcome(c, s, Acts(Finish(c, "failed"), IdleSender, Unset, Unset, {}), R)
    BY <2>1, EndFacts
  <2>3. Blackout(c) = Acts(Finish(c, "failed"), IdleSender, Unset, Unset, {})
    BY <1>3, Zenon DEF Blackout
  <2> QED BY <2>2, <2>3
<1> QED BY <1>2, <1>3

\* A rung completed: its placement is the best of what the walk read, and the run goes on
\* with the next rung or is done.
LEMMA RungFacts ==
  ASSUME NEW c \in Calibrators, c.state = "running", c.enter = FALSE, runs \in Nat,
         NEW R \in SUBSET Readings, PlacedIn(c, R), NEW V, R \cup V \subseteq Readings,
         MeasuredIn(c, R \cup V), NEW k \in Seeks, k.qdb = k.best, k.best # Unset,
         BestOf(R \cup V, c.rung, k.best, k.loss), \A d \in R \cup V : d.rung <= c.rung,
         NEW s, \A x \in V : Booked(c, x)
  PROVE  Outcome(c, s, NextRung([c EXCEPT !.seek = k,
                                          !.art[c.rung] = [qdb |-> k.qdb, loss |-> k.loss]], V), R)
<1> DEFINE p == [qdb |-> k.qdb, loss |-> k.loss]
           d == [c EXCEPT !.seek = k, !.art[c.rung] = p]
           W == R \cup V
<1>1. /\ c.rung \in Rungs /\ c.art \in Placements /\ p \in [qdb : Int, loss : Int]
      /\ p.qdb = k.best /\ p.loss = k.loss
  BY DEF Calibrators, Seeks
<1> HIDE DEF p
<1> DEFINE art == [c.art EXCEPT ![c.rung] = p]
<1>2. /\ art \in Placements /\ art[c.rung] = p
      /\ \A r \in Rungs : r # c.rung => art[r] = c.art[r]
  BY <1>1 DEF Placements
<1>3. d = [c EXCEPT !.seek = k, !.art = art] OBVIOUS
<1> HIDE DEF art, d
<1>4. /\ d \in Calibrators /\ d.state = "running" /\ d.enter = FALSE /\ d.dwell = c.dwell
      /\ d.rung = c.rung /\ d.art = art /\ d.restore = c.restore
  BY <1>2, <1>3 DEF Calibrators
<1>5. MeasuredIn(d, W)
  <2> SUFFICES ASSUME NEW r \in Rungs, art[r].qdb # Unset
               PROVE  BestOf(W, r, art[r].qdb, art[r].loss)
    BY <1>4 DEF MeasuredIn
  <2>1. CASE r = c.rung BY <1>1, <1>2, <2>1
  <2>2. CASE r # c.rung
    <3>1. art[r] = c.art[r] BY <1>2, <2>2
    <3> QED BY <3>1 DEF MeasuredIn
  <2> QED BY <2>1, <2>2
<1>6. CASE d.rung = TopRung
  <2>1. NextRung(d, V) = Acts(Finish(d, "done"), IdleSender, Unset, Unset, V)
    BY <1>6, Zenon DEF NextRung
  <2>2. Outcome(c, s, Acts(Finish(d, "done"), IdleSender, Unset, Unset, V), R)
    BY <1>4, <1>5, EndFacts
  <2> QED BY <2>1, <2>2 DEF d, p
<1>7. CASE d.rung # TopRung
  <2> DEFINE e == [d EXCEPT !.rung = d.rung + 1, !.seek = SeekBegin]
  <2>1. d.rung + 1 \in Rungs /\ SeekBegin \in Seeks /\ c.rung \in Int
    BY <1>1, <1>4, <1>7, CalibAssumption DEF Rungs, SeekBegin, Seeks, Readable
  <2>2. SeekBegin.best = Unset /\ SeekBegin.phase = "sweep" /\ SeekBegin.qdb = 0
    BY DEF SeekBegin
  <2>3. /\ e \in Calibrators /\ e.state = "running" /\ e.enter = FALSE /\ e.dwell = c.dwell
        /\ e.rung = c.rung + 1 /\ e.art = art /\ e.seek = SeekBegin
        /\ e.restore = c.restore
    BY <1>4, <2>1 DEF Calibrators
  <2> HIDE DEF e
  <2>4. MeasuredIn(e, W) BY <1>4, <1>5, <2>3 DEF MeasuredIn
  <2>5. PlacedIn(e, W)
    <3>1. ASSUME NEW r \in Rungs, r >= e.rung PROVE e.art[r].qdb = Unset
      <4>1. r \in Int BY CalibAssumption DEF Rungs
      <4>2. r # c.rung /\ r >= c.rung BY <2>1, <2>3, <3>1, <4>1
      <4>3. art[r] = c.art[r] BY <1>2, <4>2
      <4> QED BY <2>3, <4>2, <4>3 DEF PlacedIn
    <3>2. \A x \in W : x.rung \in Int /\ x.rung <= c.rung
      BY CalibAssumption DEF Readings, Rungs
    <3>3. \A x \in W : x.rung <= e.rung /\ x.rung # e.rung BY <2>1, <2>3, <3>2
    <3> HIDE DEF W
    <3> QED BY <2>2, <2>3, <3>1, <3>3 DEF PlacedIn
  <2>6. NextRung(d, V) = Acts(NewDwell(e), BeginDwell(runs, NewDwell(e).dwell), 0,
                              NewDwell(e).rung, V)
    BY <1>7, Zenon DEF NextRung, e
  <2>7. NewDwell(e).dwell = c.dwell + 1 /\ NewDwell(e).rung = e.rung
    BY <2>3 DEF NewDwell, Calibrators
  <2>8. Outcome(c, s, Acts(NewDwell(e), BeginDwell(runs, c.dwell + 1), 0,
                           NewDwell(e).rung, V), R)
    BY <2>2, <2>3, <2>4, <2>5, <2>7, DwellBegins
  <2> QED BY <2>6, <2>7, <2>8 DEF d, p
<1> QED BY <1>6, <1>7

\* A dwell with its tally.
LEMMA ReadingFacts ==
  ASSUME NEW c \in Calibrators, c.state = "running", c.enter = FALSE, runs \in Nat,
         snd \in Senders, hw \in Settings, pinned \in Int, stray \subseteq Strays,
         NEW R \in SUBSET Readings, PlacedIn(c, R), MeasuredIn(c, R),
         NEW hot \in BOOLEAN, NEW s
  PROVE  Outcome(c, s, Reading(c, hot), R)
<1> DEFINE loss == Count - snd.got
           t == OnDwell(c.seek, loss, hot)
           e == [rung |-> c.rung, qdb |-> c.seek.qdb, loss |-> loss,
                 at |-> hw, on |-> pinned, stray |-> stray]
           V == IF c.seek.phase = "verify" THEN {e} ELSE {}
           W == R \cup V
           d == [c EXCEPT !.seek = t.seek,
                          !.art[c.rung] = [qdb |-> t.seek.qdb, loss |-> t.seek.loss]]
<1>1. loss \in Int BY DwellAssumption DEF Senders
<1>2. c.seek.phase \in {"sweep", "verify"} BY DEF Calibrators, Seeks
<1>3. Reading(c, hot) = IF t.kind = "done" THEN NextRung(d, V) ELSE ApplyStep(c, t, V)
  BY Zenon DEF Reading
<1> HIDE DEF loss
<1>e. e \in Readings /\ e.rung = c.rung /\ e.qdb = c.seek.qdb /\ e.loss = loss
  BY <1>1 DEF Readings, Calibrators, Seeks
<1>b. Booked(c, e) BY DEF Booked
<1> HIDE DEF e
<1>4. Added(c, R, W, loss) BY <1>2, <1>e DEF Added
<1>v. \A x \in V : Booked(c, x) BY <1>b
<1> HIDE DEF V
<1>5. CASE t.kind # "done"
  <2>1. Outcome(c, s, ApplyStep(c, t, V), R) BY <1>1, <1>4, <1>5, <1>v, ApplyStepFacts
  <2> QED BY <1>3, <1>5, <2>1
<1>6. CASE t.kind = "done"
  <2>0. Stepped(c, R, W, t) BY <1>1, <1>4, DwellKept, Zenon
  <2> HIDE DEF t
  <2>1. /\ t.seek \in Seeks /\ t.seek.qdb = t.seek.best
        /\ IF t.seek.best = Unset THEN \A x \in W : x.rung # c.rung
           ELSE BestOf(W, c.rung, t.seek.best, t.seek.loss)
        /\ W \in SUBSET Readings /\ R \subseteq W
        /\ \A x \in W : x.rung <= c.rung
        /\ \A x \in W \ R : x.rung = c.rung
    BY <1>6, <2>0 DEF Stepped
  <2>2. t.seek.qdb # Unset BY <2>1 DEF Seeks, Unset
  <2>3. MeasuredIn(c, W)
    <3> HIDE DEF W
    <3> QED BY <2>1, MeasuredGrows
  <2>4. Outcome(c, s, NextRung(d, V), R) BY <1>v, <2>1, <2>2, <2>3, RungFacts
  <2> QED BY <1>3, <1>6, <2>4 DEF t
<1> QED BY <1>5, <1>6

\* Calibrator::tick().
LEMMA CalTickFacts ==
  ASSUME CCInv, NEW late \in BOOLEAN, NEW hot \in BOOLEAN
  PROVE  Outcome(cal, snd, CalTick(late, hot), reads)
<1>1. /\ cal \in Calibrators /\ snd \in Senders /\ runs \in Nat /\ reads \in SUBSET Readings
      /\ PlacedIn(cal, reads) /\ MeasuredIn(cal, reads)
      /\ hw \in Settings /\ pinned \in Int /\ stray \subseteq Strays
  BY DEF CCInv, CCTypeOK, ReadsTyped
<1>2. reads \cup {} = reads OBVIOUS
<1> DEFINE same == Acts(cal, snd, Unset, Unset, {})
<1>3. Outcome(cal, snd, same, reads)
  <2>1. /\ same.cal = cal /\ same.snd = snd /\ same.read = {}
        /\ same.qdb = Unset /\ same.rung = Unset
    BY DEF Acts
  <2> HIDE DEF same
  <2>2. reads \cup same.read = reads BY <2>1
  <2>3. reads \cup same.read \subseteq Readings BY <2>2, <1>1
  <2>4. PlacedIn(same.cal, reads \cup same.read) /\ MeasuredIn(same.cal, reads \cup same.read)
    BY <1>1, <2>1, <2>2
  <2>5. Stays(cal, snd, same) BY <2>1 DEF Stays
  <2> QED BY <1>1, <2>1, <2>3, <2>4, <2>5 DEF Outcome
<1>4. CASE ~Calibrating
  <2>1. CalTick(late, hot) = same BY <1>4, Zenon DEF CalTick
  <2> QED BY <1>3, <2>1
<1>5. CASE Calibrating /\ late
  <2>1. CalTick(late, hot) = Acts(Finish(cal, "failed"), IdleSender, Unset, Unset, {})
    BY <1>5, Zenon DEF CalTick
  <2>2. reads \cup {} \subseteq Readings /\ MeasuredIn(cal, reads \cup {}) BY <1>1, <1>2
  <2>3. Outcome(cal, snd, Acts(Finish(cal, "failed"), IdleSender, Unset, Unset, {}), reads)
    BY <1>1, <2>2, EndFacts
  <2> QED BY <2>1, <2>3
<1>6. CASE Calibrating /\ ~late /\ snd.st = "noevidence"
  <2>1. CalTick(late, hot) = Blackout(cal) BY <1>6, Zenon DEF CalTick
  <2>2. cal.state = "running" BY <1>6 DEF Calibrating
  <2>3. ~cal.enter BY <1>6 DEF CCInv, DwellCurrent
  <2>4. cal.enter = FALSE BY <1>1, <2>3 DEF Calibrators
  <2> QED BY <1>1, <2>1, <2>2, <2>4, BlackoutFacts
<1>7. CASE Calibrating /\ ~late /\ snd.st # "noevidence" /\ cal.enter
  <2> DEFINE d == [cal EXCEPT !.enter = FALSE]
  <2>1. CalTick(late, hot) = Acts(NewDwell(d), BeginDwell(runs, cal.dwell + 1), 0, cal.rung, {})
    BY <1>7, Zenon DEF CalTick
  <2>2. /\ d \in Calibrators /\ d.enter = FALSE /\ d.dwell = cal.dwell /\ d.state = cal.state
        /\ d.art = cal.art /\ d.seek = cal.seek /\ d.rung = cal.rung
        /\ d.restore = cal.restore
    BY <1>1 DEF Calibrators
  <2> HIDE DEF d
  <2>3. d.state = "running" BY <1>7, <2>2 DEF Calibrating
  <2>4. PlacedIn(d, reads) /\ MeasuredIn(d, reads) BY <1>1, <2>2, <2>3 DEF PlacedIn, MeasuredIn
  <2>5. reads \cup {} \subseteq Readings /\ PlacedIn(d, reads \cup {}) /\ MeasuredIn(d, reads \cup {})
    BY <1>1, <1>2, <2>4
  <2>6. Outcome(cal, snd, Acts(NewDwell(d), BeginDwell(runs, cal.dwell + 1), 0, cal.rung, {}), reads)
    <3>1. cal.seek.qdb = 0 BY <1>7 DEF CCInv, Owned
    <3> QED BY <1>1, <1>7, <2>2, <2>3, <2>5, <3>1, DwellBegins DEF Calibrating
  <2> QED BY <2>1, <2>6
<1>8. CASE Calibrating /\ ~late /\ snd.st # "noevidence" /\ ~cal.enter /\ snd.st = "done"
  <2>1. CalTick(late, hot) = Reading(cal, hot) BY <1>8, Zenon DEF CalTick
  <2>2. cal.state = "running" BY <1>8 DEF Calibrating
  <2>3. cal.enter = FALSE BY <1>1, <1>8 DEF Calibrators
  <2> QED BY <1>1, <2>1, <2>2, <2>3, ReadingFacts
<1>9. CASE Calibrating /\ ~late /\ snd.st # "noevidence" /\ ~cal.enter /\ snd.st # "done"
  <2>1. CalTick(late, hot) = same BY <1>9, Zenon DEF CalTick
  <2> QED BY <1>3, <2>1
<1> QED BY <1>4, <1>5, <1>6, <1>7, <1>8, <1>9

\* next_probe() goes on with the same dwell, and what it sends is a probe of it.
LEMMA NextProbeFacts ==
  ASSUME NEW s \in Senders, s.st = "emitting" => s.seq \in 1..Count
  PROVE  LET n == NextProbe(s)
         IN /\ n.snd \in Senders /\ n.snd.run = s.run /\ n.snd.dwell = s.dwell
            /\ n.snd.st = "idle" <=> s.st = "idle"
            /\ n.snd.st = "done" <=> s.st = "done"
            /\ n.snd.st = "emitting" => n.snd.seq \in 1..Count
            /\ s.st = "idle" => n.out = {}
            /\ \A m \in n.out : \E q \in 1..Count : m = Probe(s, q)
<1> USE DwellAssumption
<1> DEFINE n == NextProbe(s)
<1>1. s.st \in {"idle", "emitting", "await", "noevidence", "done"} /\ s.seq \in 0..Count
      /\ s.retries \in Nat
  BY DEF Senders
<1>2. CASE s.st = "emitting"
  <2> DEFINE w == [s EXCEPT !.st = "await"]
             u == [s EXCEPT !.seq = s.seq + 1]
  <2>1. n = [snd |-> IF s.seq = Count THEN w ELSE u, out |-> {Probe(s, s.seq)}]
    BY <1>2, Zenon DEF NextProbe
  <2>2. /\ w \in Senders /\ w.run = s.run /\ w.dwell = s.dwell /\ w.st = "await"
    BY <1>2 DEF Senders
  <2>3. s.seq # Count => s.seq + 1 \in 1..Count BY <1>1
  <2>4. s.seq # Count =>
          /\ u \in Senders /\ u.run = s.run /\ u.dwell = s.dwell /\ u.st = "emitting"
          /\ u.seq \in 1..Count
    BY <1>2, <2>3 DEF Senders
  <2> HIDE DEF w, u, n
  <2>5. n.snd = (IF s.seq = Count THEN w ELSE u) /\ n.out = {Probe(s, s.seq)} BY <2>1
  <2> QED BY <1>2, <2>2, <2>4, <2>5 DEF n
<1>3. CASE s.st = "await" /\ s.retries > 0
  <2> DEFINE u == [s EXCEPT !.retries = s.retries - 1]
  <2>0. s.retries # 0 BY <1>1, <1>3
  <2>1. n = [snd |-> u, out |-> {Probe(s, Count)}] BY <1>3, <2>0, Zenon DEF NextProbe
  <2>2. s.retries - 1 \in Nat BY <1>1, <1>3
  <2>3. u \in Senders /\ u.run = s.run /\ u.dwell = s.dwell /\ u.st = "await"
    BY <1>3, <2>2 DEF Senders
  <2> HIDE DEF u, n
  <2>4. n.snd = u /\ n.out = {Probe(s, Count)} BY <2>1
  <2> QED BY <1>3, <2>3, <2>4 DEF n
<1>4. CASE s.st = "await" /\ s.retries = 0
  <2> DEFINE u == [s EXCEPT !.st = "noevidence"]
  <2>0. ~(s.retries > 0) BY <1>4
  <2>1. n = [snd |-> u, out |-> {}] BY <1>4, <2>0, Zenon DEF NextProbe
  <2>3. u \in Senders /\ u.run = s.run /\ u.dwell = s.dwell /\ u.st = "noevidence"
    BY DEF Senders
  <2> HIDE DEF u, n
  <2>4. n.snd = u /\ n.out = {} BY <2>1
  <2> QED BY <1>4, <2>3, <2>4 DEF n
<1>5. CASE s.st \notin {"emitting", "await"}
  <2>1. n = [snd |-> s, out |-> {}] BY <1>5, Zenon DEF NextProbe
  <2> HIDE DEF n
  <2>2. n.snd = s /\ n.out = {} BY <2>1
  <2> QED BY <1>5, <2>2 DEF n
<1>6. s.retries = 0 \/ s.retries > 0 BY <1>1
<1> QED BY <1>2, <1>3, <1>4, <1>5, <1>6

\* What the receiver r holds of dwell d was heard: H.
Accounted(r, H, d) ==
    /\ r \in Receivers /\ (r.open = 0 => r.seen = {})
    /\ r.open = d => r.seen \subseteq H
    /\ r.closed = d => r.count <= Cardinality(H)

\* A set of probes heard is counted, and more probes count no less.
LEMMA CountGrows ==
  ASSUME NEW H \in SUBSET (1..Count), NEW G \in SUBSET H
  PROVE  Cardinality(G) \in Nat /\ Cardinality(H) \in Nat /\ Cardinality(G) <= Cardinality(H)
<1>1. IsFiniteSet(1..Count) BY DwellAssumption, FS_Interval
<1>2. IsFiniteSet(H) BY <1>1, FS_Subset
<1>3. IsFiniteSet(G) /\ Cardinality(G) <= Cardinality(H) BY <1>2, FS_Subset
<1> QED BY <1>2, <1>3, FS_CardinalityType

\* Closing a dwell counts what was heard of it.
LEMMA CloseKeeps ==
  ASSUME NEW H \in SUBSET (1..Count), NEW d \in Nat \ {0}, NEW r, Accounted(r, H, d)
  PROVE  /\ Accounted(Close(r), H, d) /\ Close(r).run = r.run /\ Close(r).open = 0
         /\ Close(r).closed = r.open
<1> DEFINE k == Close(r)
<1>1. r \in Receivers /\ r.seen \in SUBSET (1..Count) BY DEF Accounted, Receivers
<1>2. Cardinality(r.seen) \in Nat BY <1>1, CountGrows
<1>3. r.seen \subseteq H => Cardinality(r.seen) <= Cardinality(H) BY CountGrows
<1>4. /\ k \in Receivers /\ k.run = r.run /\ k.open = 0 /\ k.closed = r.open /\ k.seen = {}
      /\ k.count = Cardinality(r.seen)
  BY <1>1, <1>2 DEF Close, Receivers
<1> HIDE DEF k
<1>5. Accounted(k, H, d) BY <1>3, <1>4 DEF Accounted
<1> QED BY <1>4, <1>5 DEF k

\* The receiver r with probe q of dwell w heard, and H, what was heard of d, with it.
Hear(r, w, q) == [r EXCEPT !.open = w, !.seen = r.seen \cup {q}]
Widened(H, d, w, q) == IF w = d THEN H \cup {q} ELSE H

\* A probe of the open dwell, or of a new one, is heard.
LEMMA HearKeeps ==
  ASSUME NEW H \in SUBSET (1..Count), NEW d \in Nat \ {0}, NEW r, Accounted(r, H, d),
         NEW w \in Nat \ {0}, r.open \in {0, w}, NEW q \in 1..Count
  PROVE  /\ Accounted(Hear(r, w, q), Widened(H, d, w, q), d)
         /\ Hear(r, w, q).run = r.run /\ Hear(r, w, q).open = w
         /\ Hear(r, w, q).closed = r.closed /\ Hear(r, w, q).count = r.count
<1> DEFINE h == Hear(r, w, q)
           G == Widened(H, d, w, q)
<1>1. r \in Receivers /\ r.seen \cup {q} \in SUBSET (1..Count) BY DEF Accounted, Receivers
<1>2. /\ h \in Receivers /\ h.run = r.run /\ h.open = w /\ h.closed = r.closed
      /\ h.count = r.count /\ h.seen = r.seen \cup {q}
  BY <1>1 DEF Receivers, Hear
<1>3. G \in SUBSET (1..Count) /\ H \subseteq G BY DEF Widened
<1>4. Cardinality(H) \in Nat /\ Cardinality(G) \in Nat /\ Cardinality(H) <= Cardinality(G)
  BY <1>3, CountGrows
<1>5. w = d => h.seen \subseteq G BY <1>2 DEF Accounted, Widened
<1>6. h.closed = d => h.count <= Cardinality(G)
  <2>1. r.count \in Nat BY <1>1 DEF Receivers
  <2> QED BY <1>2, <1>4, <2>1 DEF Accounted
<1>7. Accounted(h, G, d) BY <1>2, <1>5, <1>6 DEF Accounted
<1> HIDE DEF h, G
<1> QED BY <1>2, <1>7 DEF h, G

\* on_probe(): the receiver is of the probe's run, holds dwells it held or the probe's, and
\* still accounts for what was heard; a tally it sends is what it holds of its closed dwell.
LEMMA OnProbeFacts ==
  ASSUME NEW H \in SUBSET (1..Count), NEW d \in Nat \ {0}, NEW r0 \in Receivers,
         r0.open = 0 => r0.seen = {},
         NEW p \in [kind : {"probe"}, run : Nat \ {0}, dwell : Nat \ {0}, seq : 1..Count],
         r0.run = p.run => Accounted(r0, H, d)
  PROVE  LET o == OnProbe(r0, p)
         IN /\ Accounted(o.rcv, Widened(H, d, p.dwell, p.seq), d)
            /\ o.rcv.run = p.run
            /\ o.rcv.open \in {0, p.dwell} \/ (r0.run = p.run /\ o.rcv.open = r0.open)
            /\ \/ o.rcv.closed \in {0, p.dwell}
               \/ r0.run = p.run /\ o.rcv.closed \in {r0.open, r0.closed}
            /\ o.out \subseteq Tally(o.rcv)
<1> DEFINE r == IF p.run = r0.run THEN r0 ELSE [IdleReceiver EXCEPT !.run = p.run]
           succeeds == r.open # 0 /\ p.dwell # r.open
           base == IF succeeds THEN Close(r) ELSE r
           heard0 == [base EXCEPT !.open = p.dwell, !.seen = @ \cup {p.seq}]
           G == Widened(H, d, p.dwell, p.seq)
           o == OnProbe(r0, p)
<1>1. p.run \in Nat /\ p.dwell \in Nat \ {0} /\ p.seq \in 1..Count OBVIOUS
<1>2. /\ Accounted(r, H, d) /\ r.run = p.run
      /\ r.open = 0 \/ (r0.run = p.run /\ r.open = r0.open)
      /\ r.closed = 0 \/ (r0.run = p.run /\ r.closed = r0.closed)
  <2>1. CASE p.run = r0.run BY <2>1
  <2>2. CASE p.run # r0.run
    <3> DEFINE i == [IdleReceiver EXCEPT !.run = p.run]
    <3>1. /\ i \in Receivers /\ i.run = p.run /\ i.open = 0 /\ i.closed = 0 /\ i.seen = {}
      BY <1>1 DEF IdleReceiver, Receivers
    <3> HIDE DEF i
    <3>2. Accounted(i, H, d) BY <3>1 DEF Accounted
    <3>3. r = i BY <2>2 DEF i
    <3> HIDE DEF r
    <3> QED BY <3>1, <3>2, <3>3
  <2> QED BY <2>1, <2>2
<1>3. r \in Receivers BY <1>2 DEF Accounted
<1>4. /\ Accounted(base, H, d) /\ base.run = p.run /\ base.open \in {0, p.dwell}
      /\ \/ base.closed = r.closed
         \/ base.closed = r.open
  <2> HIDE DEF r
  <2>1. /\ Accounted(Close(r), H, d) /\ Close(r).run = r.run /\ Close(r).open = 0
        /\ Close(r).closed = r.open
    BY <1>2, CloseKeeps
  <2>2. CASE succeeds BY <1>2, <2>1, <2>2
  <2>3. CASE ~succeeds BY <1>2, <2>3
  <2> QED BY <2>2, <2>3
<1>5. H \subseteq G /\ G \in SUBSET (1..Count) BY <1>1 DEF Widened
<1>6. Accounted(r, G, d)
  <2>1. Cardinality(H) \in Nat /\ Cardinality(G) \in Nat /\ Cardinality(H) <= Cardinality(G)
    BY <1>5, CountGrows
  <2>2. r.count \in Nat BY <1>3 DEF Receivers
  <2> HIDE DEF r, G
  <2>3. /\ r \in Receivers /\ (r.open = 0 => r.seen = {})
        /\ r.open = d => r.seen \subseteq H
        /\ r.closed = d => r.count <= Cardinality(H)
    BY <1>2 DEF Accounted
  <2>4. r.closed = d => r.count <= Cardinality(G) BY <2>1, <2>2, <2>3
  <2>5. r.open = d => r.seen \subseteq G BY <1>5, <2>3
  <2> QED BY <2>3, <2>4, <2>5 DEF Accounted
<1>7. o = IF p.dwell = r.closed THEN [rcv |-> r, out |-> Tally(r)]
          ELSE IF p.dwell < r.open \/ p.dwell < r.closed THEN [rcv |-> r, out |-> {}]
          ELSE IF p.seq = Count THEN [rcv |-> Close(heard0), out |-> Tally(Close(heard0))]
          ELSE [rcv |-> heard0, out |-> IF succeeds THEN Tally(base) ELSE {}]
  BY Zenon DEF OnProbe
<1> HIDE DEF base
<1>8. /\ Accounted(heard0, G, d) /\ heard0.run = base.run /\ heard0.open = p.dwell
      /\ heard0.closed = base.closed /\ heard0.count = base.count
  <2>1. heard0 = Hear(base, p.dwell, p.seq) BY DEF Hear
  <2> HIDE DEF r, heard0, G
  <2> DEFINE w == p.dwell
             q == p.seq
  <2>2. w \in Nat \ {0} /\ q \in 1..Count /\ base.open \in {0, w} BY <1>1, <1>4
  <2>3. Accounted(base, H, d) BY <1>4
  <2>4. heard0 = Hear(base, w, q) /\ G = Widened(H, d, w, q) BY <2>1 DEF G
  <2> HIDE DEF w, q
  <2> HIDE DEF succeeds, o
  <2>5. \A ww \in Nat \ {0}, qq \in 1..Count : base.open \in {0, ww} =>
          /\ Accounted(Hear(base, ww, qq), Widened(H, d, ww, qq), d)
          /\ Hear(base, ww, qq).run = base.run /\ Hear(base, ww, qq).open = ww
          /\ Hear(base, ww, qq).closed = base.closed /\ Hear(base, ww, qq).count = base.count
    BY <2>3, HearKeeps
  <2>6. /\ Accounted(Hear(base, w, q), Widened(H, d, w, q), d)
        /\ Hear(base, w, q).run = base.run /\ Hear(base, w, q).open = w
        /\ Hear(base, w, q).closed = base.closed /\ Hear(base, w, q).count = base.count
    BY <2>2, <2>5, Zenon
  <2>7. w = p.dwell BY DEF w
  <2> QED BY <2>4, <2>6, <2>7, Zenon
<1> HIDE DEF heard0
<1>9. /\ Accounted(Close(heard0), G, d) /\ Close(heard0).run = p.run
      /\ Close(heard0).open = 0 /\ Close(heard0).closed = p.dwell
  <2> HIDE DEF G
  <2> QED BY <1>4, <1>5, <1>8, CloseKeeps
<1>10. Tally(base) = Tally(heard0) BY <1>4, <1>8 DEF Tally
<1> HIDE DEF r, G, succeeds, o
<1>11. \/ o.rcv = r /\ o.out \subseteq Tally(r)
       \/ o.rcv = Close(heard0) /\ o.out \subseteq Tally(Close(heard0))
       \/ o.rcv = heard0 /\ o.out \subseteq Tally(heard0)
  BY <1>7, <1>10
<1> DEFINE Goal == /\ Accounted(o.rcv, G, d) /\ o.rcv.run = p.run
                   /\ o.rcv.open \in {0, p.dwell} \/ (r0.run = p.run /\ o.rcv.open = r0.open)
                   /\ \/ o.rcv.closed \in {0, p.dwell}
                      \/ r0.run = p.run /\ o.rcv.closed \in {r0.open, r0.closed}
                   /\ o.out \subseteq Tally(o.rcv)
<1>12. CASE o.rcv = r /\ o.out \subseteq Tally(r)
  <2>1. Goal BY <1>2, <1>6, <1>12
  <2> QED BY <2>1, Zenon DEF o, G
<1>13. CASE o.rcv = Close(heard0) /\ o.out \subseteq Tally(Close(heard0))
  <2>1. Goal BY <1>9, <1>13
  <2> QED BY <2>1, Zenon DEF o, G
<1>14. CASE o.rcv = heard0 /\ o.out \subseteq Tally(heard0)
  <2>1. Goal BY <1>2, <1>4, <1>8, <1>14
  <2> QED BY <2>1, Zenon DEF o, G
<1> QED BY <1>11, <1>12, <1>13, <1>14

\* A write of another authority is not a probe's.
LEMMA OtherWrites ==
  /\ \A l, k : Authority(l, k) \in Settings /\ Authority(l, k).by # "probe"
  /\ stray \subseteq Strays => \A ok : WrittenByOther(ok) \subseteq Strays
<1>1. \A l, k : Authority(l, k) \in Settings /\ Authority(l, k).by # "probe"
  BY DEF Authority, By, Settings, Unset
<1>2. stray \subseteq Strays => \A ok : WrittenByOther(ok) \subseteq Strays
  BY DEF WrittenByOther, Strays
<1> QED BY <1>1, <1>2

\* What a run owns, it owns while none of it is touched.
LEMMA OwnedStill == Owned /\ UNCHANGED <<cal, hw, pinned, reads, stray>> => Owned'
BY DEF Owned, PowerOwned, Calibrating

\* A pass hands over power and rate as the run needs them, or hands them back.
LEMMA CalibPassOwns ==
  ASSUME CCInv, NEW errs \in SUBSET Faults, NEW hot \in BOOLEAN, NEW saved \in BOOLEAN,
         NEW due \in BOOLEAN, NEW lost \in BOOLEAN, CalibPass(errs, hot, saved, due, lost)
  PROVE  /\ Owned' /\ hw' \in Settings /\ pinned' \in Int /\ stray' \subseteq Strays
<1> DEFINE a == CalTick("late" \in errs, hot)
           refused == "refused" \in errs
           ladderless == "ladderless" \in errs
<1>1. Outcome(cal, snd, a, reads)
  <2>1. ("late" \in errs) \in BOOLEAN OBVIOUS
  <2> QED BY <2>1, CalTickFacts
<1>2. /\ cal' = IF ladderless THEN Finish(a.cal, "failed")
              ELSE [a.cal EXCEPT !.restore = FALSE, !.ready = FALSE]
      /\ refused => a.cal.restore \/ a.qdb # Unset
      /\ ladderless => a.rung # Unset
      /\ hw' = IF refused THEN hw
               ELSE IF a.cal.restore THEN Authority(latch, curve')
               ELSE IF a.qdb # Unset THEN ByProbe(a.qdb) ELSE hw
      /\ pinned' = IF a.cal.restore THEN Unset
                   ELSE IF a.rung # Unset /\ ~ladderless THEN a.rung ELSE pinned
      /\ stray' = IF a.cal.restore THEN errs \cap {"refused"}
                  ELSE IF a.qdb = Unset THEN stray
                  ELSE WrittenByRun(~refused) \ (IF a.rung # Unset THEN {"repinned"} ELSE {})
      /\ reads' = reads \cup a.read
  BY DEF CalibPass, AfterWrites
<1> HIDE DEF a
<1>3. /\ a.cal \in Calibrators
      /\ Stays(cal, snd, a) \/ Ends(cal, a) \/ Begins(cal, a)
      /\ \A d \in a.read : Booked(cal, d)
  BY <1>1 DEF Outcome
<1>4. /\ cal \in Calibrators /\ hw \in Settings /\ pinned \in Int /\ stray \subseteq Strays
      /\ Owned
  BY DEF CCInv, CCTypeOK
<1>5. \A d \in reads' : There(d)
  <2> SUFFICES ASSUME NEW d \in reads' PROVE There(d) OBVIOUS
  <2>1. CASE d \in reads BY <1>4, <2>1 DEF Owned
  <2>2. CASE d \in a.read
    <3>1. Booked(cal, d) BY <1>3, <2>2
    <3> QED BY <1>4, <3>1 DEF Owned, PowerOwned, There, Booked, Calibrating
  <2> QED BY <1>2, <2>1, <2>2
<1>6. Unset \notin Rungs /\ Unset \in Int /\ a.cal.rung \in Rungs /\ a.cal.seek.qdb \in Nat
      /\ a.cal.seek.qdb # Unset /\ a.cal.rung \in Int
  BY <1>3, CalibAssumption DEF Calibrators, Seeks, Rungs, Unset
<1>7. hw' \in Settings /\ pinned' \in Int /\ stray' \subseteq Strays
  <2>1. a.qdb = Unset \/ a.qdb \in Nat BY <1>3, <1>6 DEF Stays, Ends, Begins
  <2>2. a.rung = Unset \/ a.rung = a.cal.rung \/ a.cal.restore
    BY <1>3 DEF Stays, Ends, Begins
  <2>3. a.qdb # Unset => ByProbe(a.qdb) \in Settings BY <2>1 DEF ByProbe, Settings
  <2>4. Authority(latch, curve') \in Settings BY OtherWrites
  <2>5. hw' \in Settings BY <1>2, <1>4, <2>3, <2>4
  <2>6. pinned' \in Int BY <1>2, <1>4, <1>6, <2>2
  <2>7. stray' \subseteq Strays BY <1>2, <1>4 DEF WrittenByRun, Strays
  <2> QED BY <2>5, <2>6, <2>7
<1>8. CASE ladderless
  <2>1. Finish(a.cal, "failed").state = "failed" /\ Finish(a.cal, "failed").restore
    BY <1>3, FinishFacts
  <2>2. ~Calibrating' /\ cal'.restore BY <1>2, <1>8, <2>1 DEF Calibrating
  <2>3. PowerOwned' BY <2>2 DEF PowerOwned
  <2> QED BY <1>5, <1>7, <2>2, <2>3 DEF Owned
<1>9. CASE ~ladderless
  <2>1. /\ cal'.state = a.cal.state /\ cal'.enter = a.cal.enter /\ cal'.restore = FALSE
        /\ cal'.seek = a.cal.seek /\ cal'.rung = a.cal.rung
    BY <1>2, <1>3, <1>9 DEF Calibrators
  <2>2. CASE Stays(cal, snd, a) /\ ~cal.restore
    <3>1. a.cal = cal /\ a.qdb = Unset /\ a.rung = Unset BY <2>2 DEF Stays
    <3>2. hw' = hw /\ pinned' = pinned /\ stray' = stray BY <1>2, <2>2, <3>1
    <3>3. PowerOwned' BY <1>4, <2>1, <2>2, <3>1, <3>2 DEF Owned, PowerOwned, Calibrating
    <3> QED BY <1>4, <1>5, <1>7, <2>1, <3>1, <3>3 DEF Owned, Calibrating
  <2>3. CASE (Stays(cal, snd, a) /\ cal.restore) \/ Ends(cal, a)
    <3>1. a.cal.restore /\ a.cal.state # "running"
      BY <1>4, <2>3 DEF Stays, Ends, Owned, Calibrating
    <3>2. /\ pinned' = Unset /\ stray' = errs \cap {"refused"}
          /\ hw' = IF refused THEN hw ELSE Authority(latch, curve')
      BY <1>2, <3>1
    <3>3. "refused" \notin stray' => hw'.by # "probe" BY <3>2, OtherWrites
    <3>4. ~Calibrating' BY <2>1, <3>1 DEF Calibrating
    <3>5. PowerOwned' BY <3>2, <3>3, <3>4 DEF PowerOwned
    <3> QED BY <1>5, <1>7, <3>4, <3>5 DEF Owned
  <2>4. CASE Begins(cal, a)
    <3>1. /\ cal.state = "running" /\ a.cal.state = "running" /\ ~a.cal.enter
          /\ a.cal.restore = cal.restore /\ a.qdb = a.cal.seek.qdb
          /\ a.rung = a.cal.rung \/ (a.rung = Unset /\ a.cal.rung = cal.rung /\ ~cal.enter)
      BY <2>4 DEF Begins
    <3>2. ~a.cal.restore BY <1>4, <3>1 DEF Owned, Calibrating
    <3>3. /\ hw' = IF refused THEN hw ELSE ByProbe(a.cal.seek.qdb)
          /\ pinned' = IF a.rung # Unset THEN a.rung ELSE pinned
          /\ stray' = WrittenByRun(~refused) \ (IF a.rung # Unset THEN {"repinned"} ELSE {})
      BY <1>2, <1>6, <1>9, <3>1, <3>2
    <3>4. stray' \cap {"refused", "moved"} = {} => ~refused
      BY <3>3 DEF WrittenByRun
    <3>5. "repinned" \notin stray' => pinned' = a.cal.rung
      <4>1. CASE a.rung # Unset BY <3>1, <3>3, <4>1
      <4>2. CASE a.rung = Unset
        <5>1. "repinned" \in stray => "repinned" \in stray' BY <3>3, <4>2 DEF WrittenByRun
        <5>2. a.cal.rung = cal.rung /\ ~cal.enter BY <1>6, <3>1, <4>2
        <5>3. "repinned" \notin stray => pinned = cal.rung
          BY <1>4, <3>1, <5>2 DEF Owned, PowerOwned, Calibrating
        <5> QED BY <3>3, <4>2, <5>1, <5>2, <5>3
      <4> QED BY <4>1, <4>2
    <3>6. Calibrating' /\ ~cal'.enter BY <2>1, <3>1 DEF Calibrating
    <3>7. PowerOwned' BY <2>1, <3>3, <3>4, <3>5, <3>6 DEF PowerOwned
    <3> QED BY <1>5, <1>7, <2>1, <3>6, <3>7 DEF Owned
  <2> QED BY <1>3, <2>2, <2>3, <2>4
<1> QED BY <1>8, <1>9

\* A pass of the loop.
LEMMA CalibPassKeeps ==
  ASSUME CCInv, NEW errs \in SUBSET Faults, NEW hot \in BOOLEAN, NEW saved \in BOOLEAN,
         NEW due \in BOOLEAN, NEW lost \in BOOLEAN, CalibPass(errs, hot, saved, due, lost)
  PROVE  CCInv' /\ (snd'.st = "done" => snd.st = "done")
<1> DEFINE a == CalTick("late" \in errs, hot)
           ladderless == "ladderless" \in errs
           p == AfterWrites(a, ladderless)
           c == p.cal
           s == p.snd
           n == ProbeService(p, due)
<1>1. Outcome(cal, snd, a, reads)
  <2>1. ("late" \in errs) \in BOOLEAN OBVIOUS
  <2> QED BY <2>1, CalTickFacts
<1>2. /\ cal' = c
      /\ snd' = n.snd
      /\ air' = IF lost \/ Cardinality(air) >= AirCap THEN air ELSE air \cup n.out
      /\ heard' = IF a.cal.dwell # cal.dwell THEN {} ELSE heard
      /\ reads' = reads \cup a.read
      /\ UNCHANGED <<rcv, runs>>
      /\ ladderless => a.rung # Unset
  BY DEF CalibPass
<1>3. air' \subseteq air \cup n.out
  <2> HIDE DEF n
  <2> QED BY <1>2
<1>4. /\ cal \in Calibrators /\ snd \in Senders /\ rcv \in Receivers
      /\ air \subseteq Frames /\ heard \subseteq 1..Count /\ runs \in Nat
  BY DEF CCInv, CCTypeOK
<1>5. /\ cal.state # "running" \/ cal.enter => snd.st = "idle"
      /\ cal.state = "running" => runs > 0
      /\ snd.st # "idle" => snd.run = runs /\ snd.dwell = cal.dwell /\ snd.dwell > 0
      /\ snd.st = "emitting" => snd.seq \in 1..Count
      /\ rcv.run <= runs /\ (rcv.open = 0 => rcv.seen = {})
      /\ \A m \in air : m.run <= runs
      /\ cal.state = "running" =>
          /\ rcv.run = runs => rcv.open <= cal.dwell /\ rcv.closed <= cal.dwell
          /\ \A m \in air : m.run = runs => m.dwell <= cal.dwell
  BY DEF CCInv, DwellCurrent, Calibrating
<1> HIDE DEF a
<1>6. /\ a.cal \in Calibrators /\ a.snd \in Senders
      /\ PlacedIn(a.cal, reads') /\ MeasuredIn(a.cal, reads') /\ reads' \subseteq Readings
  BY <1>1, <1>2 DEF Outcome
<1>7. /\ c \in Calibrators /\ c.dwell = a.cal.dwell /\ c.art = a.cal.art
      /\ ladderless => c.state = "failed"
      /\ ~ladderless => /\ c.state = a.cal.state /\ c.enter = a.cal.enter
                        /\ c.rung = a.cal.rung /\ c.seek = a.cal.seek
  <2>1. CASE ladderless
    <3>1. c = Finish(a.cal, "failed") BY <2>1 DEF AfterWrites
    <3> HIDE DEF c
    <3> QED BY <1>6, <2>1, <3>1, FinishFacts
  <2>2. CASE ~ladderless
    <3>1. c = [a.cal EXCEPT !.restore = FALSE, !.ready = FALSE] BY <2>2 DEF AfterWrites
    <3> HIDE DEF c
    <3> QED BY <1>6, <2>2, <3>1 DEF Calibrators
  <2> QED BY <2>1, <2>2
<1> HIDE DEF c
<1>8. PlacedIn(cal', reads') /\ MeasuredIn(cal', reads')
  <2>1. MeasuredIn(c, reads') BY <1>6, <1>7 DEF MeasuredIn
  <2>2. CASE ladderless
    <3>1. c.state # "running" BY <1>7, <2>2
    <3>2. PlacedIn(c, reads') BY <3>1 DEF PlacedIn
    <3> QED BY <1>2, <2>1, <3>2
  <2>3. CASE ~ladderless
    <3>1. PlacedIn(c, reads') BY <1>6, <1>7, <2>3 DEF PlacedIn
    <3> QED BY <1>2, <2>1, <3>1
  <2> QED BY <2>2, <2>3
<1>9. /\ s \in Senders
      /\ \/ /\ s = snd /\ c.dwell = cal.dwell /\ a.cal.dwell = cal.dwell
            /\ c.state = cal.state /\ c.enter = cal.enter
         \/ c.state # "running" /\ s = IdleSender
         \/ /\ cal.state = "running" /\ c.state = "running" /\ ~c.enter
            /\ a.cal.dwell = cal.dwell + 1 /\ c.dwell = cal.dwell + 1
            /\ s = BeginDwell(runs, cal.dwell + 1)
  <2>1. CASE ladderless
    <3>1. s = IdleSender BY <2>1 DEF AfterWrites
    <3> HIDE DEF s
    <3> QED BY <1>7, <2>1, <3>1, SendersBegin
  <2>2. CASE ~ladderless
    <3>1. s = a.snd BY <2>2 DEF AfterWrites
    <3> HIDE DEF s
    <3>2. Stays(cal, snd, a) \/ Ends(cal, a) \/ Begins(cal, a) BY <1>1 DEF Outcome
    <3> QED BY <1>6, <1>7, <2>2, <3>1, <3>2 DEF Stays, Ends, Begins
  <2> QED BY <2>1, <2>2
<1>o. Owned' /\ hw' \in Settings /\ pinned' \in Int /\ stray' \subseteq Strays
  BY CalibPassOwns
<1> HIDE DEF n, s
<1>10. ASSUME s.st = "emitting" => s.seq \in 1..Count
       PROVE  /\ n.snd \in Senders /\ n.snd.run = s.run /\ n.snd.dwell = s.dwell
              /\ n.snd.st = "idle" <=> s.st = "idle"
              /\ n.snd.st = "done" <=> s.st = "done"
              /\ n.snd.st = "emitting" => n.snd.seq \in 1..Count
              /\ s.st = "idle" => n.out = {}
              /\ c.state # "running" => n.out = {}
              /\ \A m \in n.out : \E q \in 1..Count : m = Probe(s, q)
  <2>1. CASE due /\ c.state = "running"
    <3>1. n = NextProbe(s) BY <2>1, Zenon DEF n, c, s, ProbeService
    <3> QED BY <1>9, <1>10, <2>1, <3>1, NextProbeFacts
  <2>2. CASE ~(due /\ c.state = "running")
    <3>1. n = [snd |-> s, out |-> {}] BY <2>2, Zenon DEF n, c, s, ProbeService
    <3>2. n.snd = s /\ n.out = {} BY <3>1
    <3> QED BY <1>9, <1>10, <3>2
  <2> QED BY <2>1, <2>2
<1>11. CASE /\ s = snd /\ c.dwell = cal.dwell /\ a.cal.dwell = cal.dwell
            /\ c.state = cal.state /\ c.enter = cal.enter
  <2>1. /\ snd' \in Senders /\ snd'.run = snd.run /\ snd'.dwell = snd.dwell
        /\ snd'.st = "idle" <=> snd.st = "idle"
        /\ snd'.st = "done" <=> snd.st = "done"
        /\ snd'.st = "emitting" => snd'.seq \in 1..Count
        /\ snd.st = "idle" => n.out = {}
        /\ \A m \in n.out : \E q \in 1..Count : m = Probe(snd, q)
    BY <1>2, <1>4, <1>5, <1>10, <1>11
  <2>2. cal'.state = cal.state /\ cal'.dwell = cal.dwell /\ cal'.enter = cal.enter
        /\ heard' = heard
    BY <1>2, <1>7, <1>11
  <2>3. \A m \in n.out : m \in Frames /\ m.kind = "probe" /\ m.run = runs /\ m.dwell = cal.dwell
    <3> SUFFICES ASSUME NEW m \in n.out
                 PROVE  m \in Frames /\ m.kind = "probe" /\ m.run = runs /\ m.dwell = cal.dwell
      OBVIOUS
    <3>1. PICK q \in 1..Count : m = Probe(snd, q) BY <2>1
    <3>2. snd.st # "idle" BY <2>1
    <3>3. snd.run = runs /\ snd.dwell = cal.dwell /\ snd.dwell > 0 BY <1>5, <3>2
    <3>4. runs \in Nat \ {0} /\ cal.dwell \in Nat \ {0}
      <4>1. cal.state = "running" BY <1>5, <3>2
      <4> QED BY <1>4, <1>5, <3>3, <4>1 DEF Calibrators
    <3>5. m = [kind |-> "probe", run |-> runs, dwell |-> cal.dwell, seq |-> q]
      BY <3>1, <3>3 DEF Probe
    <3> QED BY <3>4, <3>5 DEF Frames
  <2>4. CCTypeOK' BY <1>2, <1>3, <1>4, <1>7, <1>o, <2>1, <2>2, <2>3 DEF CCTypeOK
  <2>5. DwellCurrent'
    <3>1. \A m \in air' : m \in air \/ (m.run = runs /\ m.dwell = cal.dwell)
      BY <1>3, <2>3
    <3>2. \A m \in air' : m.run <= runs BY <1>4, <1>5, <3>1
    <3>3. cal.dwell \in Nat BY <1>4 DEF Calibrators
    <3>4. cal.state = "running" => \A m \in air' : m.run = runs => m.dwell <= cal.dwell
      BY <1>5, <3>1, <3>3
    <3>5. ~Calibrating' \/ cal'.enter => snd'.st = "idle"
      BY <1>5, <2>1, <2>2 DEF Calibrating
    <3>6. Calibrating' => cal.state = "running" BY <2>2 DEF Calibrating
    <3> QED BY <1>2, <1>5, <2>1, <2>2, <3>2, <3>4, <3>5, <3>6 DEF DwellCurrent
  <2>6. HeardBound'
    <3>1. HeardBound BY DEF CCInv
    <3>2. \A m \in air' : m.kind = "tally" => m \in air BY <1>3, <2>3
    <3> QED BY <1>2, <2>1, <2>2, <3>1, <3>2 DEF HeardBound
  <2> QED BY <1>6, <1>8, <1>o, <2>1, <2>4, <2>5, <2>6 DEF CCInv, ReadsTyped
<1>12. CASE c.state # "running" /\ s = IdleSender
  <2>1. IdleSender \in Senders /\ IdleSender.st = "idle"
    BY SendersBegin DEF IdleSender
  <2>2. snd' \in Senders /\ snd'.st = "idle" /\ n.out = {}
    BY <1>2, <1>10, <1>12, <2>1
  <2>3. cal'.state # "running" /\ heard' \subseteq 1..Count /\ air' \subseteq air
    BY <1>2, <1>3, <1>4, <1>12, <2>2
  <2>4. CCTypeOK' BY <1>2, <1>4, <1>7, <1>o, <2>2, <2>3 DEF CCTypeOK
  <2>5. DwellCurrent'
    <3>1. ~Calibrating' BY <2>3 DEF Calibrating
    <3> QED BY <1>2, <1>5, <2>2, <2>3, <3>1 DEF DwellCurrent
  <2>6. HeardBound' BY <2>2 DEF HeardBound
  <2> QED BY <1>6, <1>8, <1>o, <2>2, <2>4, <2>5, <2>6 DEF CCInv, ReadsTyped
<1>13. CASE /\ cal.state = "running" /\ c.state = "running" /\ ~c.enter
            /\ a.cal.dwell = cal.dwell + 1 /\ c.dwell = cal.dwell + 1
            /\ s = BeginDwell(runs, cal.dwell + 1)
  <2> DEFINE b == BeginDwell(runs, cal.dwell + 1)
  <2>1. cal.dwell \in Nat /\ runs \in Nat /\ runs > 0 BY <1>4, <1>5, <1>13 DEF Calibrators
  <2>2. /\ b \in Senders /\ b.st = "emitting" /\ b.seq \in 1..Count /\ b.run = runs
        /\ b.dwell = cal.dwell + 1
    <3>1. b \in Senders BY <2>1, SendersBegin
    <3> QED BY <3>1, DwellAssumption DEF BeginDwell
  <2> HIDE DEF b
  <2>3. b = s BY <1>13 DEF b
  <2>4. /\ snd' \in Senders /\ snd'.run = runs /\ snd'.dwell = cal.dwell + 1
        /\ snd'.st # "idle" /\ snd'.st # "done"
        /\ snd'.st = "emitting" => snd'.seq \in 1..Count
        /\ \A m \in n.out : \E q \in 1..Count : m = Probe(b, q)
    BY <1>2, <1>10, <2>2, <2>3
  <2>5. /\ cal'.state = "running" /\ cal'.dwell = cal.dwell + 1 /\ ~cal'.enter
        /\ heard' = {}
    <3>1. a.cal.dwell # cal.dwell BY <1>13, <2>1
    <3> QED BY <1>2, <1>7, <1>13, <3>1
  <2>6. \A m \in n.out : /\ m \in Frames /\ m.kind = "probe" /\ m.run = runs
                         /\ m.dwell = cal.dwell + 1
    <3> SUFFICES ASSUME NEW m \in n.out
                 PROVE  /\ m \in Frames /\ m.kind = "probe" /\ m.run = runs
                        /\ m.dwell = cal.dwell + 1
      OBVIOUS
    <3>1. PICK q \in 1..Count : m = Probe(b, q) BY <2>4
    <3>2. m = [kind |-> "probe", run |-> runs, dwell |-> cal.dwell + 1, seq |-> q]
      BY <2>2, <3>1 DEF Probe
    <3> QED BY <2>1, <3>2 DEF Frames
  <2>7. CCTypeOK'
    <3>1. air' \subseteq Frames BY <1>3, <1>4, <2>6
    <3> QED BY <1>2, <1>4, <1>7, <1>o, <2>4, <2>5, <3>1 DEF CCTypeOK
  <2>8. \A m \in air' : m \in air \/ (m.kind = "probe" /\ m.run = runs /\ m.dwell = cal.dwell + 1)
    BY <1>3, <2>6
  <2>9. rcv.open \in Nat /\ rcv.closed \in Nat /\ \A m \in air : m.dwell \in Nat
    BY <1>4 DEF Receivers, Frames
  <2>10. DwellCurrent'
    <3>1. \A m \in air' : m.run <= runs BY <1>5, <2>1, <2>8
    <3>2. \A m \in air' : m.run = runs => m.dwell <= cal.dwell + 1
      BY <1>5, <1>13, <2>1, <2>8, <2>9
    <3>3. rcv.run = runs => rcv.open <= cal.dwell + 1 /\ rcv.closed <= cal.dwell + 1
      BY <1>5, <1>13, <2>1, <2>9
    <3>4. Calibrating' /\ ~cal'.enter BY <2>5 DEF Calibrating
    <3>5. cal.dwell + 1 > 0 BY <2>1
    <3> QED BY <1>2, <1>5, <2>1, <2>4, <2>5, <3>1, <3>2, <3>3, <3>4, <3>5 DEF DwellCurrent
  <2>11. HeardBound'
    <3>1. rcv.run = runs => rcv.open # cal.dwell + 1 /\ rcv.closed # cal.dwell + 1
      BY <1>5, <1>13, <2>1, <2>9
    <3>2. \A m \in air' : ~(m.kind = "tally" /\ m.run = runs /\ m.dwell = cal.dwell + 1)
      BY <1>5, <1>13, <2>1, <2>8, <2>9
    <3> QED BY <1>2, <2>4, <3>1, <3>2 DEF HeardBound
  <2> QED BY <1>6, <1>8, <1>o, <2>4, <2>7, <2>10, <2>11 DEF CCInv, ReadsTyped
<1> QED BY <1>9, <1>11, <1>12, <1>13

\* A probe at the ground: what it adds to any account of the dwell in progress is heard.
LEMMA ProbeHeardKeeps ==
  ASSUME CCInv, NEW m \in air, NEW keep \in BOOLEAN, NEW lost \in BOOLEAN,
         ProbeHeard(m, keep, lost)
  PROVE  CCInv' /\ snd' = snd
<1> DEFINE o == OnProbe(rcv, m)
<1>1. /\ m.kind = "probe" /\ rcv' = o.rcv
      /\ air' = (IF keep THEN air ELSE air \ {m}) \cup (IF lost THEN {} ELSE o.out)
      /\ heard' = IF m.run = snd.run /\ m.dwell = snd.dwell THEN heard \cup {m.seq} ELSE heard
      /\ UNCHANGED <<cal, snd, reads, runs, hw, pinned, stray>>
  BY Zenon DEF ProbeHeard
<1>2. air' \subseteq air \cup o.out
  <2> HIDE DEF o
  <2> QED BY <1>1
<1>3. /\ cal \in Calibrators /\ snd \in Senders /\ rcv \in Receivers
      /\ air \subseteq Frames /\ heard \subseteq 1..Count /\ runs \in Nat
  BY DEF CCInv, CCTypeOK
<1>4. /\ ~Calibrating \/ cal.enter => snd.st = "idle"
      /\ Calibrating => runs > 0
      /\ snd.st # "idle" => snd.run = runs /\ snd.dwell = cal.dwell /\ snd.dwell > 0
      /\ snd.st \in {"emitting"} => snd.seq \in 1..Count
      /\ rcv.run <= runs /\ (rcv.open = 0 => rcv.seen = {})
      /\ \A x \in air : x.run <= runs
      /\ Calibrating =>
          /\ rcv.run = runs => rcv.open <= cal.dwell /\ rcv.closed <= cal.dwell
          /\ \A x \in air : x.run = runs => x.dwell <= cal.dwell
  BY DEF CCInv, DwellCurrent
<1>5. m \in [kind : {"probe"}, run : Nat \ {0}, dwell : Nat \ {0}, seq : 1..Count]
  BY <1>1, <1>3 DEF Frames
<1>6. m.run \in Nat \ {0} /\ m.dwell \in Nat \ {0} /\ m.seq \in 1..Count BY <1>5
<1>7. \A H \in SUBSET (1..Count), d \in Nat \ {0} :
         (rcv.run = m.run => Accounted(rcv, H, d)) =>
           /\ Accounted(o.rcv, Widened(H, d, m.dwell, m.seq), d)
           /\ o.rcv.run = m.run
           /\ o.rcv.open \in {0, m.dwell} \/ (rcv.run = m.run /\ o.rcv.open = rcv.open)
           /\ \/ o.rcv.closed \in {0, m.dwell}
              \/ rcv.run = m.run /\ o.rcv.closed \in {rcv.open, rcv.closed}
           /\ o.out \subseteq Tally(o.rcv)
  BY <1>3, <1>4, <1>5, OnProbeFacts
<1> HIDE DEF o
\* Any dwell no one holds will do for what does not depend on it.
<1>8. \E H \in SUBSET (1..Count), d \in Nat \ {0} : Accounted(rcv, H, d)
  <2> DEFINE d == rcv.open + rcv.closed + 1
  <2>1. rcv.open \in Nat /\ rcv.closed \in Nat BY <1>3 DEF Receivers
  <2>2. d \in Nat \ {0} /\ rcv.open # d /\ rcv.closed # d BY <2>1
  <2> HIDE DEF d
  <2>3. Accounted(rcv, {}, d) BY <1>3, <1>4, <2>2 DEF Accounted
  <2>4. {} \in SUBSET (1..Count) OBVIOUS
  <2> QED BY <2>2, <2>3, <2>4
<1>9. /\ o.rcv \in Receivers /\ o.rcv.run = m.run
      /\ o.rcv.open = 0 => o.rcv.seen = {}
      /\ o.rcv.open \in {0, m.dwell} \/ (rcv.run = m.run /\ o.rcv.open = rcv.open)
      /\ \/ o.rcv.closed \in {0, m.dwell}
         \/ rcv.run = m.run /\ o.rcv.closed \in {rcv.open, rcv.closed}
      /\ o.out \subseteq Tally(o.rcv)
  <2>1. PICK H \in SUBSET (1..Count), d \in Nat \ {0} : Accounted(rcv, H, d) BY <1>8
  <2> QED BY <1>7, <2>1 DEF Accounted
<1>10. \A x \in o.out : /\ x \in Frames /\ x.kind = "tally" /\ x.run = m.run
                        /\ x.dwell = o.rcv.closed /\ x.received = o.rcv.count
  <2>1. o.rcv.closed \in Nat /\ o.rcv.count \in Nat BY <1>9 DEF Receivers
  <2>2. \A x \in o.out : x = [kind |-> "tally", run |-> m.run, dwell |-> o.rcv.closed,
                               received |-> o.rcv.count]
    BY <1>9 DEF Tally
  <2> QED BY <1>6, <2>1, <2>2 DEF Frames
<1>11. heard' \subseteq 1..Count /\ heard \subseteq heard' BY <1>1, <1>3, <1>6
<1>o. Owned' BY <1>1, OwnedStill DEF CCInv
<1>12. CCTypeOK'
  <2>1. hw \in Settings /\ pinned \in Int /\ stray \subseteq Strays BY DEF CCInv, CCTypeOK
  <2> QED BY <1>1, <1>2, <1>3, <1>9, <1>10, <1>11, <2>1 DEF CCTypeOK
<1>13. DwellCurrent'
  <2>1. m.run <= runs BY <1>4
  <2>2. \A x \in air' : x.run <= runs BY <1>2, <1>4, <1>10, <2>1
  <2>3. ASSUME Calibrating, m.run = runs
        PROVE  o.rcv.open <= cal.dwell /\ o.rcv.closed <= cal.dwell
    <3>1. cal.dwell \in Nat /\ rcv.open \in Nat /\ rcv.closed \in Nat
      BY <1>3 DEF Calibrators, Receivers
    <3>2. m.dwell <= cal.dwell BY <1>4, <2>3
    <3>3. rcv.run = m.run => rcv.open <= cal.dwell /\ rcv.closed <= cal.dwell
      BY <1>4, <2>3
    <3> QED BY <1>6, <1>9, <3>1, <3>2, <3>3
  <2>4. Calibrating => \A x \in air' : x.run = runs => x.dwell <= cal.dwell
    BY <1>2, <1>4, <1>10, <2>3
  <2>5. Calibrating' <=> Calibrating BY <1>1 DEF Calibrating
  <2> QED BY <1>1, <1>4, <1>9, <2>1, <2>2, <2>3, <2>4, <2>5 DEF DwellCurrent
<1>14. HeardBound'
  <2> SUFFICES ASSUME snd.st # "idle"
               PROVE  /\ o.rcv.run = runs /\ o.rcv.open = snd.dwell => o.rcv.seen \subseteq heard'
                      /\ o.rcv.run = runs /\ o.rcv.closed = snd.dwell =>
                            o.rcv.count <= Cardinality(heard')
                      /\ \A x \in air' : x.kind = "tally" /\ x.run = runs /\ x.dwell = snd.dwell =>
                            x.received <= Cardinality(heard')
    BY <1>1 DEF HeardBound
  <2>1. snd.run = runs /\ snd.dwell \in Nat \ {0} BY <1>3, <1>4 DEF Senders
  <2>2. /\ rcv.run = runs /\ rcv.open = snd.dwell => rcv.seen \subseteq heard
        /\ rcv.run = runs /\ rcv.closed = snd.dwell => rcv.count <= Cardinality(heard)
        /\ \A x \in air : x.kind = "tally" /\ x.run = runs /\ x.dwell = snd.dwell =>
              x.received <= Cardinality(heard)
    BY DEF CCInv, HeardBound
  <2>3. /\ Cardinality(heard) \in Nat /\ Cardinality(heard') \in Nat
        /\ Cardinality(heard) <= Cardinality(heard')
    BY <1>11, CountGrows
  <2>4. \A x \in air : x.kind = "tally" /\ x.run = runs /\ x.dwell = snd.dwell =>
           x.received <= Cardinality(heard')
    <3>1. \A x \in air : x.kind = "tally" => x.received \in Nat BY <1>3 DEF Frames
    <3> QED BY <2>2, <2>3, <3>1
  <2>5. CASE m.run # runs BY <1>2, <1>9, <1>10, <2>4, <2>5
  <2>6. CASE m.run = runs
    <3>1. rcv.run = m.run => Accounted(rcv, heard, snd.dwell)
      BY <1>3, <1>4, <2>2, <2>6 DEF Accounted
    <3>2. heard' = Widened(heard, snd.dwell, m.dwell, m.seq)
      BY <1>1, <2>1, <2>6 DEF Widened
    <3>3. Accounted(o.rcv, heard', snd.dwell)
      BY <1>3, <1>7, <2>1, <3>1, <3>2
    <3>4. /\ o.rcv.open = snd.dwell => o.rcv.seen \subseteq heard'
          /\ o.rcv.closed = snd.dwell => o.rcv.count <= Cardinality(heard')
      BY <3>3 DEF Accounted
    <3>5. \A x \in o.out : x.dwell = snd.dwell => x.received <= Cardinality(heard')
      BY <1>10, <3>4
    <3> QED BY <1>2, <2>4, <3>4, <3>5
  <2> QED BY <2>5, <2>6
<1> QED BY <1>1, <1>12, <1>13, <1>14, <1>o DEF CCInv, ReadsTyped

\* A tally at the craft: only one of the dwell in progress counts, and it says what was
\* heard.
LEMMA TallyHeardKeeps ==
  ASSUME CCInv, NEW m \in air, TallyHeard(m)
  PROVE  CCInv' /\ (snd.st # "done" /\ snd'.st = "done" => snd'.got <= Cardinality(heard))
<1>1. /\ m.kind = "tally" /\ air' = air \ {m}
      /\ snd' = IF Calibrating THEN OnTally(snd, m) ELSE snd
      /\ UNCHANGED <<cal, rcv, heard, reads, runs, hw, pinned, stray>>
  BY DEF TallyHeard
<1>2. /\ cal \in Calibrators /\ snd \in Senders /\ air \subseteq Frames
      /\ DwellCurrent /\ HeardBound /\ CCTypeOK
  BY DEF CCInv, CCTypeOK
<1>3. m.received \in Nat /\ m.run \in Nat BY <1>1, <1>2 DEF Frames
<1> DEFINE t == [snd EXCEPT !.st = "done", !.got = m.received]
<1>4. /\ t \in Senders /\ t.st = "done" /\ t.run = snd.run /\ t.dwell = snd.dwell
      /\ t.got = m.received
  BY <1>2, <1>3 DEF Senders
<1> HIDE DEF t
<1>5. \/ snd' = snd
      \/ /\ snd' = t /\ Calibrating /\ snd.st \in {"emitting", "await"}
         /\ m.run = snd.run /\ m.dwell = snd.dwell
  BY <1>1 DEF OnTally, t
<1>6. Calibrating' <=> Calibrating BY <1>1 DEF Calibrating
<1>o. Owned' BY <1>1, OwnedStill DEF CCInv
<1>7. CASE snd' = snd
  <2>1. CCTypeOK' BY <1>1, <1>2, <1>7 DEF CCTypeOK
  <2>2. DwellCurrent' BY <1>1, <1>2, <1>6, <1>7 DEF DwellCurrent
  <2>3. HeardBound' BY <1>1, <1>2, <1>7 DEF HeardBound
  <2> QED BY <1>1, <1>7, <1>o, <2>1, <2>2, <2>3 DEF CCInv, ReadsTyped
<1>8. CASE /\ snd' = t /\ Calibrating /\ snd.st \in {"emitting", "await"}
           /\ m.run = snd.run /\ m.dwell = snd.dwell
  <2>1. CCTypeOK' BY <1>1, <1>2, <1>4, <1>8 DEF CCTypeOK
  <2>2. ~cal.enter BY <1>2, <1>8 DEF DwellCurrent
  <2>3. DwellCurrent'
    <3>1. snd.run = runs /\ snd.dwell = cal.dwell /\ snd.dwell > 0
      BY <1>2, <1>8 DEF DwellCurrent
    <3> QED BY <1>1, <1>2, <1>4, <1>6, <1>8, <2>2, <3>1 DEF DwellCurrent
  <2>4. HeardBound' BY <1>1, <1>2, <1>4, <1>8 DEF HeardBound
  <2>5. t.got <= Cardinality(heard)
    <3>1. snd.run = runs /\ snd.st # "idle" BY <1>2, <1>8 DEF DwellCurrent
    <3> QED BY <1>1, <1>2, <1>4, <1>8, <3>1 DEF HeardBound
  <2> QED BY <1>1, <1>8, <1>o, <2>1, <2>3, <2>4, <2>5 DEF CCInv, ReadsTyped
<1> QED BY <1>5, <1>7, <1>8

\* A start is of a run no frame and no receiver knows, with nothing placed.
LEMMA StartKeeps == CCInv /\ Start => CCInv' /\ snd' = snd
<1> SUFFICES ASSUME CCInv, Start PROVE CCInv' /\ snd' = snd OBVIOUS
<1> DEFINE c == [IdleCalibrator EXCEPT !.state = "running", !.enter = TRUE]
<1>1. /\ ~Calibrating /\ runs' = runs + 1 /\ cal' = c /\ reads' = {}
      /\ stray' = {} /\ UNCHANGED <<snd, rcv, air, heard, hw, pinned>>
  BY DEF Start
<1>2. /\ snd \in Senders /\ rcv \in Receivers /\ air \subseteq Frames /\ runs \in Nat
      /\ heard \subseteq 1..Count /\ hw \in Settings /\ pinned \in Int
  BY DEF CCInv, CCTypeOK
<1>3. /\ snd.st = "idle" /\ rcv.run <= runs /\ (rcv.open = 0 => rcv.seen = {})
      /\ \A m \in air : m.run <= runs
  BY <1>1 DEF CCInv, DwellCurrent
<1>4. /\ c \in Calibrators /\ c.state = "running" /\ c.rung = 0 /\ c.dwell = 0
      /\ c.seek = SeekBegin /\ c.art = [r \in Rungs |-> NoPlacement]
      /\ c.enter = TRUE /\ c.restore = FALSE
  <2>1. SeekBegin \in Seeks BY DEF SeekBegin, Seeks, Readable
  <2>2. [r \in Rungs |-> NoPlacement] \in Placements BY DEF Placements, NoPlacement, Unset
  <2>3. 0 \in Rungs BY CalibAssumption DEF Rungs
  <2> QED BY <2>1, <2>2, <2>3 DEF IdleCalibrator, Calibrators
<1> HIDE DEF c
<1>5. \A r \in Rungs : c.art[r].qdb = Unset BY <1>4 DEF NoPlacement
<1>6. PlacedIn(c, {}) /\ MeasuredIn(c, {})
  <2>1. SeekBegin.best = Unset BY DEF SeekBegin
  <2> QED BY <1>4, <1>5, <2>1 DEF PlacedIn, MeasuredIn
<1>7. CCTypeOK' BY <1>1, <1>2, <1>4 DEF CCTypeOK
<1>8. DwellCurrent'
  <2>1. rcv.run <= runs + 1 /\ rcv.run # runs + 1 /\ runs + 1 > 0
    BY <1>2, <1>3 DEF Receivers
  <2>2. \A m \in air : m.run <= runs + 1 /\ m.run # runs + 1
    BY <1>2, <1>3 DEF Frames
  <2> QED BY <1>1, <1>3, <2>1, <2>2 DEF DwellCurrent
<1>9. HeardBound' BY <1>1, <1>3 DEF HeardBound
<1>10. Owned' BY <1>1, <1>4 DEF Owned, PowerOwned, Calibrating, SeekBegin
<1> QED BY <1>1, <1>6, <1>7, <1>8, <1>9, <1>10 DEF CCInv, ReadsTyped

\* Whatever ends a run or rebuilds the calibrator leaves an idle sender.
LEMMA StopKeeps ==
  ASSUME CCInv, NEW ok \in BOOLEAN, Abort \/ SetPowerTier(ok)
  PROVE  CCInv' /\ snd'.st = "idle"
<1>1. /\ cal \in Calibrators /\ DwellCurrent /\ CCTypeOK /\ MeasuredIn(cal, reads)
      /\ ReadsTyped
  BY DEF CCInv, CCTypeOK
<1>2. /\ cal' = Finish(cal, "failed") \/ cal' = IdleCalibrator
      /\ snd' = IdleSender /\ UNCHANGED <<rcv, air, heard, reads, runs>>
  BY DEF Abort, SetPowerTier
<1>3. /\ cal' \in Calibrators /\ cal'.state # "running" /\ MeasuredIn(cal', reads)
  <2>1. CASE cal' = Finish(cal, "failed")
    <3> DEFINE f == Finish(cal, "failed")
    <3>1. f \in Calibrators /\ f.state = "failed" /\ f.art = cal.art BY <1>1, FinishFacts
    <3> HIDE DEF f
    <3>2. MeasuredIn(f, reads) BY <1>1, <3>1 DEF MeasuredIn
    <3> QED BY <2>1, <3>1, <3>2 DEF f
  <2>2. CASE cal' = IdleCalibrator
    <3>1. SeekBegin \in Seeks BY DEF SeekBegin, Seeks, Readable
    <3>2. [r \in Rungs |-> NoPlacement] \in Placements BY DEF Placements, NoPlacement, Unset
    <3>3. 0 \in Rungs BY CalibAssumption DEF Rungs
    <3>4. /\ IdleCalibrator \in Calibrators /\ IdleCalibrator.state = "idle"
          /\ IdleCalibrator.art = [r \in Rungs |-> NoPlacement]
      BY <3>1, <3>2, <3>3 DEF IdleCalibrator, Calibrators
    <3>5. \A r \in Rungs : IdleCalibrator.art[r].qdb = Unset BY <3>4 DEF NoPlacement
    <3>6. MeasuredIn(IdleCalibrator, reads) BY <3>5 DEF MeasuredIn
    <3> QED BY <2>2, <3>4, <3>6
  <2> QED BY <1>2, <2>1, <2>2
<1>4. IdleSender \in Senders /\ IdleSender.st = "idle" BY SendersBegin DEF IdleSender
<1>5. ~Calibrating' BY <1>3 DEF Calibrating
<1>o. Owned' /\ hw' \in Settings /\ pinned' \in Int /\ stray' \subseteq Strays
  <2>1. /\ Owned /\ hw \in Settings /\ pinned \in Int /\ stray \subseteq Strays
    BY DEF CCInv, CCTypeOK
  <2>2. \A d \in reads' : There(d) BY <1>2, <2>1 DEF Owned
  <2>3. CASE Abort
    <3>1. cal'.restore BY <1>1, <2>3, FinishFacts DEF Abort
    <3> QED BY <1>5, <2>1, <2>2, <2>3, <3>1 DEF Owned, PowerOwned, Abort
  <2>4. CASE SetPowerTier(ok)
    <3>1. /\ ~Calibrating /\ pinned' = pinned
          /\ hw' = IF ok THEN Authority(latch, curve) ELSE hw
          /\ stray' = WrittenByOther(ok) \cup (IF cal.restore THEN {"dropped"} ELSE {})
      BY <2>4 DEF SetPowerTier
    <3>2. hw' \in Settings /\ stray' \subseteq Strays
      <4>1. WrittenByOther(ok) \subseteq Strays BY <2>1, OtherWrites
      <4>2. {"dropped"} \subseteq Strays BY DEF Strays
      <4>3. Authority(latch, curve) \in Settings BY OtherWrites
      <4> QED BY <2>1, <3>1, <4>1, <4>2, <4>3
    <3>3. ~cal.restore /\ "dropped" \notin stray =>
            ("refused" \notin stray => hw.by # "probe") /\ pinned = Unset
      BY <2>1, <3>1 DEF Owned, PowerOwned
    <3>4. Authority(latch, curve).by # "probe" BY OtherWrites
    <3>5. /\ "dropped" \in stray => "dropped" \in stray'
          /\ cal.restore => "dropped" \in stray'
          /\ ~ok => stray \subseteq stray'
      BY <3>1 DEF WrittenByOther
    <3>6. "dropped" \notin stray' =>
             /\ "refused" \notin stray' => hw'.by # "probe"
             /\ pinned' = Unset
      BY <3>1, <3>3, <3>4, <3>5
    <3>7. PowerOwned' BY <1>5, <3>6 DEF PowerOwned
    <3>8. Owned' BY <1>5, <2>2, <3>7 DEF Owned
    <3> QED BY <2>1, <3>1, <3>2, <3>8
  <2> QED BY <2>3, <2>4
<1>6. CCTypeOK' BY <1>1, <1>2, <1>3, <1>4, <1>o DEF CCTypeOK
<1>7. DwellCurrent' BY <1>1, <1>2, <1>4, <1>5 DEF DwellCurrent
<1>8. HeardBound' BY <1>2, <1>4 DEF HeardBound
<1>9. PlacedIn(cal', reads') BY <1>3 DEF PlacedIn
<1>10. ReadsTyped' /\ MeasuredIn(cal', reads') BY <1>1, <1>2, <1>3 DEF ReadsTyped
<1> QED BY <1>2, <1>4, <1>6, <1>7, <1>8, <1>9, <1>10, <1>o DEF CCInv

\* Another authority's write, or the operator's window, during a run or outside one.
LEMMA MeddleKeeps ==
  ASSUME CCInv, NEW on \in BOOLEAN, NEW ok \in BOOLEAN,
         SetOverride(on, ok) \/ ReassertPower \/ MovePin
  PROVE  CCInv' /\ snd' = snd
<1>1. UNCHANGED <<cal, snd, rcv, air, heard, reads, runs>>
  BY DEF SetOverride, ReassertPower, MovePin
<1>2. Calibrating' <=> Calibrating BY <1>1 DEF Calibrating
<1>3. /\ Owned /\ hw \in Settings /\ pinned \in Int /\ stray \subseteq Strays
  BY DEF CCInv, CCTypeOK
<1>4. ASSUME NEW w \in BOOLEAN, NEW l, NEW k, pinned' = pinned,
             hw' = IF w THEN Authority(l, k) ELSE hw, stray' = WrittenByOther(w)
      PROVE  Owned' /\ hw' \in Settings /\ pinned' \in Int /\ stray' \subseteq Strays
  <2>1. hw' \in Settings /\ stray' \subseteq Strays /\ Authority(l, k).by # "probe"
    BY <1>3, <1>4, OtherWrites
  <2>2. CASE Calibrating
    <3>1. w => "moved" \in stray' BY <1>4, <2>2 DEF WrittenByOther
    <3>2. ~w => stray' = stray /\ hw' = hw BY <1>4 DEF WrittenByOther
    <3>3. "repinned" \in stray => "repinned" \in stray' BY <1>4, <2>2 DEF WrittenByOther
    <3>4. PowerOwned'
      <4>1. stray' \cap {"refused", "moved"} = {} => ~w BY <3>1
      <4>2. PowerOwned BY <1>3 DEF Owned
      <4> QED BY <1>1, <1>2, <1>4, <2>2, <3>2, <3>3, <4>1, <4>2 DEF PowerOwned
    <3> QED BY <1>1, <1>2, <1>3, <1>4, <2>1, <3>4 DEF Owned
  <2>3. CASE ~Calibrating
    <3>1. "dropped" \in stray => "dropped" \in stray' BY <1>4, <2>3 DEF WrittenByOther
    <3>2. ~w => stray' = stray /\ hw' = hw BY <1>4 DEF WrittenByOther
    <3>3. PowerOwned'
      <4>1. PowerOwned BY <1>3 DEF Owned
      <4> QED BY <1>1, <1>2, <1>4, <2>1, <2>3, <3>1, <3>2, <4>1 DEF PowerOwned
    <3> QED BY <1>1, <1>2, <1>3, <1>4, <2>1, <2>3, <3>3 DEF Owned
  <2> QED BY <2>2, <2>3
<1>5. Owned' /\ hw' \in Settings /\ pinned' \in Int /\ stray' \subseteq Strays
  <2>1. CASE SetOverride(on, ok)
    <3>1. /\ pinned' = pinned /\ hw' = IF ok THEN Authority(on, curve) ELSE hw
          /\ stray' = WrittenByOther(ok)
      BY <2>1 DEF SetOverride
    <3> QED BY <1>4, <3>1
  <2>2. CASE ReassertPower
    <3>1. /\ pinned' = pinned /\ hw' = IF TRUE THEN Authority(latch, curve) ELSE hw
          /\ stray' = WrittenByOther(TRUE)
      BY <2>2 DEF ReassertPower
    <3> QED BY <1>4, <3>1
  <2>3. CASE MovePin
    <3>1. /\ pinned' = Unset /\ hw' = hw
          /\ stray' = IF Calibrating THEN stray \cup {"repinned"} ELSE stray
      BY <2>3 DEF MovePin
    <3>2. pinned' \in Int /\ stray' \subseteq Strays BY <1>3, <3>1 DEF Strays, Unset
    <3>3. PowerOwned'
      <4>1. PowerOwned BY <1>3 DEF Owned
      <4>2. CASE Calibrating BY <1>1, <1>2, <3>1, <4>1, <4>2 DEF PowerOwned
      <4>3. CASE ~Calibrating BY <1>1, <1>2, <3>1, <4>1, <4>3 DEF PowerOwned
      <4> QED BY <4>2, <4>3
    <3> QED BY <1>1, <1>2, <1>3, <3>1, <3>2, <3>3 DEF Owned
  <2> QED BY <2>1, <2>2, <2>3
<1>6. CCTypeOK' BY <1>1, <1>5 DEF CCInv, CCTypeOK
<1>7. DwellCurrent' /\ HeardBound' BY <1>1, <1>2 DEF CCInv, DwellCurrent, HeardBound
<1>8. PlacedIn(cal', reads') /\ MeasuredIn(cal', reads') /\ ReadsTyped'
  BY <1>1 DEF CCInv, ReadsTyped
<1> QED BY <1>1, <1>5, <1>6, <1>7, <1>8 DEF CCInv

\* The credit of a dwell, and the invariant of the calibration, step by step.
Credited == snd.st # "done" /\ snd'.st = "done" => snd'.got <= Cardinality(heard)

\* Every step keeps the invariant and credits a dwell only with what was heard.
LEMMA CCInvStep == CCInv /\ [CCNext]_ccVars => CCInv' /\ (Credited \/ UNCHANGED ccVars)
<1> SUFFICES ASSUME CCInv, [CCNext]_ccVars PROVE CCInv' /\ (Credited \/ UNCHANGED ccVars)
  OBVIOUS
<1>1. CASE Start BY <1>1, StartKeeps DEF Credited
<1>2. ASSUME NEW ok \in BOOLEAN, Abort \/ SetPowerTier(ok) PROVE CCInv' /\ Credited
  BY <1>2, StopKeeps DEF Credited
<1>3. ASSUME NEW errs \in SUBSET Faults, NEW hot \in BOOLEAN, NEW saved \in BOOLEAN,
             NEW due \in BOOLEAN, NEW lost \in BOOLEAN, CalibPass(errs, hot, saved, due, lost)
      PROVE  CCInv' /\ Credited
  BY <1>3, CalibPassKeeps, Zenon DEF Credited
<1>4. ASSUME NEW m \in air, NEW keep \in BOOLEAN, NEW lost \in BOOLEAN,
             ProbeHeard(m, keep, lost)
      PROVE  CCInv' /\ Credited
  BY <1>4, ProbeHeardKeeps, Zenon DEF Credited
<1>5. ASSUME NEW m \in air, TallyHeard(m) PROVE CCInv' /\ Credited
  BY <1>5, TallyHeardKeeps, Zenon DEF Credited
<1>6. ASSUME NEW on \in BOOLEAN, NEW ok \in BOOLEAN,
             SetOverride(on, ok) \/ ReassertPower \/ MovePin
      PROVE  CCInv' /\ Credited
  BY <1>6, MeddleKeeps DEF Credited
<1>7. CASE UNCHANGED ccVars
  <2>1. UNCHANGED <<cal, snd, rcv, air, heard, reads, runs, hw, pinned, stray>>
    BY <1>7 DEF ccVars
  <2>2. Owned' BY <2>1, OwnedStill DEF CCInv
  <2>3. CCInv'
    BY <2>1, <2>2 DEF CCInv, CCTypeOK, DwellCurrent, HeardBound, ReadsTyped, Calibrating
  <2> QED BY <1>7, <2>3
<1> QED BY <1>1, <1>2, <1>3, <1>4, <1>5, <1>6, <1>7, Zenon DEF CCNext

\* It holds before anything was started.
LEMMA CCInvInit == CCInit => CCInv
<1> SUFFICES ASSUME CCInit PROVE CCInv OBVIOUS
<1>1. /\ cal = IdleCalibrator /\ snd = IdleSender /\ rcv = IdleReceiver /\ air = {}
      /\ heard = {} /\ reads = {} /\ runs = 0
      /\ hw = By("safe") /\ pinned = Unset /\ stray = {}
  BY DEF CCInit
<1>2. SeekBegin \in Seeks BY DEF SeekBegin, Seeks, Readable
<1>3. [r \in Rungs |-> NoPlacement] \in Placements BY DEF Placements, NoPlacement, Unset
<1>4. 0 \in Rungs BY CalibAssumption DEF Rungs
<1>5. /\ cal \in Calibrators /\ cal.state = "idle" /\ cal.art = [r \in Rungs |-> NoPlacement]
  BY <1>1, <1>2, <1>3, <1>4 DEF IdleCalibrator, Calibrators
<1>6. \A r \in Rungs : cal.art[r].qdb = Unset BY <1>5 DEF NoPlacement
<1>7. MeasuredIn(cal, reads) /\ PlacedIn(cal, reads) BY <1>5, <1>6 DEF MeasuredIn, PlacedIn
<1>8. snd \in Senders /\ snd.st = "idle" BY <1>1, SendersBegin DEF IdleSender
<1>9. rcv \in Receivers /\ rcv.run = 0 /\ rcv.seen = {} BY <1>1 DEF IdleReceiver, Receivers
<1>10. ~Calibrating BY <1>5 DEF Calibrating
<1>11. CCTypeOK
  <2>1. hw \in Settings /\ pinned \in Int BY <1>1 DEF By, Settings, Unset
  <2> QED BY <1>1, <1>5, <1>8, <1>9, <2>1 DEF CCTypeOK
<1>12. DwellCurrent /\ HeardBound BY <1>1, <1>8, <1>9, <1>10 DEF DwellCurrent, HeardBound
<1>13. Owned BY <1>1, <1>10 DEF Owned, PowerOwned, By
<1> QED BY <1>1, <1>7, <1>11, <1>12, <1>13 DEF CCInv, ReadsTyped

\* Whatever the air loses, delays, reorders or duplicates and whenever runs are started,
\* stopped or time out: a rung's placement is the least loss its verify walk measured, a
\* reading was taken at the power and the rate it names unless something the code lets
\* through took the radio elsewhere, and a run that is over has handed both back.
THEOREM CraftCalibAlwaysSound == CCSpec => []CraftCalibSound
<1>1. CCInv => CraftCalibSound
  <2> SUFFICES ASSUME CCInv PROVE CraftCalibSound OBVIOUS
  <2>1. \A r \in Rungs : cal.art[r].qdb # Unset => BestOf(reads, r, cal.art[r].qdb, cal.art[r].loss)
    BY DEF CCInv, MeasuredIn
  <2>2. (\A d \in reads : There(d)) /\ PowerOwned BY DEF CCInv, Owned
  <2>3. PlacementMeasured BY <2>1, <2>2 DEF BestOf, There, PlacementMeasured
  <2> QED BY <2>2, <2>3 DEF CraftCalibSound
<1>2. CCInit => CCInv BY CCInvInit
<1>3. CCInv /\ [CCNext]_ccVars => CCInv' BY CCInvStep
<1> QED BY <1>1, <1>2, <1>3, PTL DEF CCSpec

\* And a dwell is never credited with more probes than the ground heard of it.
THEOREM EvidenceAlwaysHonest == CCSpec => EvidenceHonest
<1>1. CCInit => CCInv BY CCInvInit
<1>2. CCInv /\ [CCNext]_ccVars => CCInv' BY CCInvStep
<1>3. CCInv /\ [CCNext]_ccVars => [Credited]_ccVars BY CCInvStep
<1>4. CCSpec => [][Credited]_ccVars BY <1>1, <1>2, <1>3, PTL DEF CCSpec
<1> QED BY <1>4 DEF EvidenceHonest, Credited

-----------------------------------------------------------------------------
(* The transmit path: order *)

Packets ==
    [stream : {"control", "frames", "datagrams"}, video : BOOLEAN, seq : Nat, block : Nat,
     eob : BOOLEAN, repair : BOOLEAN, n : Nat]

Outs ==
    [now : Nat, stamp : Nat, held : Seq(Packets), staged : Seq(Packets), wire : Seq(Packets),
     n : Nat, dueAt : Nat, pausedAt : Nat, from : Nat, to : Nat, eobAt : Int, trod : BOOLEAN]

\* Packet q may follow packet p on the air.
Follows(p, q) ==
    p.stream = q.stream /\ p.stream # "control" =>
        /\ p.seq < q.seq
        /\ p.eob => p.block # q.block
        /\ p.stream = "frames" /\ p.block = q.block /\ q.repair => q.seq - p.seq < MaxSymbols

Chain(s) == \A i, j \in 1..Len(s) : i < j => Follows(s[i], s[j])
Ahead(s, t) == \A i \in 1..Len(s), j \in 1..Len(t) : Follows(s[i], t[j])
AllAhead(s, q) == \A i \in 1..Len(s) : Follows(s[i], q)
AllBehind(q, s) == \A i \in 1..Len(s) : Follows(q, s[i])
Rising(s) == \A i, j \in 1..Len(s) : i < j => s[i].n < s[j].n
Below(s, t) == \A i \in 1..Len(s), j \in 1..Len(t) : s[i].n < t[j].n
UpTo(s, n) == \A i \in 1..Len(s) : s[i].n <= n

\* Aired, staged and held packets are one queue in order, the hand-overs numbered.
Piped(o) ==
    /\ o \in Outs
    /\ Chain(o.wire) /\ Chain(o.staged) /\ Chain(o.held)
    /\ Ahead(o.wire, o.staged) /\ Ahead(o.wire, o.held) /\ Ahead(o.staged, o.held)
    /\ Rising(o.wire) /\ Rising(o.staged) /\ Below(o.wire, o.staged)
    /\ UpTo(o.wire, o.n) /\ UpTo(o.staged, o.n)

Aired(o, q) == AllAhead(o.wire, q) /\ AllAhead(o.staged, q)
Behind(o, q) == Aired(o, q) /\ AllAhead(o.held, q)

\* What is on the air stays there, and hand-overs only add up.
Extends(o, r) ==
    /\ Len(o.wire) <= Len(r.wire) /\ o.n <= r.n
    /\ \A i \in 1..Len(o.wire) : r.wire[i] = o.wire[i]

\* r is o after the back end was given the packets of F.
Given(o, r, F) ==
    /\ Piped(r) /\ Extends(o, r) /\ r.held = o.held /\ r.stamp = o.stamp
    /\ \A q \in Packets : Aired(o, q) /\ (\A p \in F : Follows(p, q)) => Aired(r, q)

\* r is o after the loop was given the packets of F.
Passed(o, r, F) ==
    /\ Piped(r) /\ Extends(o, r)
    /\ \A q \in Packets : Behind(o, q) /\ (\A p \in F : Follows(p, q)) => Behind(r, q)

\* An element of a concatenation is an element of one of its parts.
LEMMA ConcatParts ==
  ASSUME NEW s \in Seq(Packets), NEW t \in Seq(Packets)
  PROVE  /\ s \o t \in Seq(Packets)
         /\ Len(s \o t) = Len(s) + Len(t)
         /\ Len(s) \in Nat /\ Len(t) \in Nat
         /\ \A i \in 1..Len(s) : (s \o t)[i] = s[i]
         /\ \A i \in 1..Len(s \o t) :
              \/ i \in 1..Len(s) /\ (s \o t)[i] = s[i]
              \/ i > Len(s) /\ i - Len(s) \in 1..Len(t) /\ (s \o t)[i] = t[i - Len(s)]
<1>1. /\ s \o t \in Seq(Packets)
      /\ Len(s \o t) = Len(s) + Len(t)
      /\ \A i \in 1..(Len(s) + Len(t)) :
            (s \o t)[i] = IF i <= Len(s) THEN s[i] ELSE t[i - Len(s)]
  BY ConcatProperties, Zenon
<1>2. Len(s) \in Nat /\ Len(t) \in Nat BY LenProperties
<1> DEFINE u == s \o t
<1>3. u \in Seq(Packets) /\ Len(u) = Len(s) + Len(t)
      /\ \A i \in 1..(Len(s) + Len(t)) : u[i] = IF i <= Len(s) THEN s[i] ELSE t[i - Len(s)]
  BY <1>1
<1> HIDE DEF u
<1>4. /\ u \in Seq(Packets)
      /\ Len(u) = Len(s) + Len(t)
      /\ \A i \in 1..Len(s) : u[i] = s[i]
      /\ \A i \in 1..Len(u) :
              \/ i \in 1..Len(s) /\ u[i] = s[i]
              \/ i > Len(s) /\ i - Len(s) \in 1..Len(t) /\ u[i] = t[i - Len(s)]
  BY <1>2, <1>3
<1> QED BY <1>2, <1>4 DEF u

\* Two queues in order, the first ahead of the second, make one.
LEMMA ConcatOrder ==
  ASSUME NEW s \in Seq(Packets), NEW t \in Seq(Packets)
  PROVE  /\ Chain(s) /\ Chain(t) /\ Ahead(s, t) => Chain(s \o t)
         /\ Rising(s) /\ Rising(t) /\ Below(s, t) => Rising(s \o t)
         /\ \A n : UpTo(s, n) /\ UpTo(t, n) => UpTo(s \o t, n)
         /\ \A q : AllAhead(s, q) /\ AllAhead(t, q) => AllAhead(s \o t, q)
         /\ \A w : Ahead(s, w) /\ Ahead(t, w) => Ahead(s \o t, w)
         /\ \A w : Ahead(w, s) /\ Ahead(w, t) => Ahead(w, s \o t)
         /\ \A w : Below(w, s) /\ Below(w, t) => Below(w, s \o t)
<1> DEFINE u == s \o t
<1>1. /\ u \in Seq(Packets)
      /\ Len(u) = Len(s) + Len(t) /\ Len(s) \in Nat /\ Len(t) \in Nat
      /\ \A i \in 1..Len(u) :
              \/ i \in 1..Len(s) /\ u[i] = s[i]
              \/ i > Len(s) /\ i - Len(s) \in 1..Len(t) /\ u[i] = t[i - Len(s)]
  BY ConcatParts
<1> HIDE DEF u
<1>a. ASSUME NEW i \in 1..Len(u), NEW j \in 1..Len(u), i < j
      PROVE  \/ i \in 1..Len(s) /\ j \in 1..Len(s) /\ u[i] = s[i] /\ u[j] = s[j]
             \/ i \in 1..Len(s) /\ u[i] = s[i] /\ \E l \in 1..Len(t) : u[j] = t[l]
             \/ \E k, l \in 1..Len(t) : k < l /\ u[i] = t[k] /\ u[j] = t[l]
  <2>1. CASE j \in 1..Len(s) BY <1>1, <1>a, <2>1
  <2>2. CASE j > Len(s) /\ i \in 1..Len(s) BY <1>1, <1>a, <2>2
  <2>3. CASE j > Len(s) /\ i > Len(s)
    <3>1. u[i] = t[i - Len(s)] /\ i - Len(s) \in 1..Len(t) BY <1>1, <2>3
    <3>2. u[j] = t[j - Len(s)] /\ j - Len(s) \in 1..Len(t) BY <1>1, <2>3
    <3>3. i - Len(s) < j - Len(s) BY <1>1, <1>a
    <3> QED BY <3>1, <3>2, <3>3
  <2> QED BY <1>1, <2>1, <2>2, <2>3
<1>2. Chain(s) /\ Chain(t) /\ Ahead(s, t) => Chain(u)
  <2> SUFFICES ASSUME Chain(s), Chain(t), Ahead(s, t),
                      NEW i \in 1..Len(u), NEW j \in 1..Len(u), i < j
               PROVE  Follows(u[i], u[j])
    BY DEF Chain
  <2> QED BY <1>a, Zenon DEF Chain, Ahead
<1>3. Rising(s) /\ Rising(t) /\ Below(s, t) => Rising(u)
  <2> SUFFICES ASSUME Rising(s), Rising(t), Below(s, t),
                      NEW i \in 1..Len(u), NEW j \in 1..Len(u), i < j
               PROVE  u[i].n < u[j].n
    BY DEF Rising
  <2> QED BY <1>a, Zenon DEF Rising, Below
<1>4. \A n : UpTo(s, n) /\ UpTo(t, n) => UpTo(u, n) BY <1>1 DEF UpTo
<1>5. \A q : AllAhead(s, q) /\ AllAhead(t, q) => AllAhead(u, q) BY <1>1 DEF AllAhead
<1>6. \A w : Ahead(s, w) /\ Ahead(t, w) => Ahead(u, w) BY <1>1 DEF Ahead
<1>7. \A w : Ahead(w, s) /\ Ahead(w, t) => Ahead(w, u) BY <1>1 DEF Ahead
<1>8. \A w : Below(w, s) /\ Below(w, t) => Below(w, u) BY <1>1 DEF Below
<1> QED BY <1>2, <1>3, <1>4, <1>5, <1>6, <1>7, <1>8 DEF u
\* The empty queue and the queue of one packet.
LEMMA ShortQueues ==
  /\ Chain(<<>>) /\ Rising(<<>>)
  /\ \A n : UpTo(<<>>, n)
  /\ \A q : AllAhead(<<>>, q) /\ AllBehind(q, <<>>)
  /\ \A w : Ahead(w, <<>>) /\ Ahead(<<>>, w) /\ Below(w, <<>>) /\ Below(<<>>, w)
  /\ \A p \in Packets :
       /\ <<p>> \in Seq(Packets) /\ Chain(<<p>>) /\ Rising(<<p>>)
       /\ \A n : p.n <= n => UpTo(<<p>>, n)
       /\ \A q : Follows(p, q) => AllAhead(<<p>>, q)
       /\ \A w : AllAhead(w, p) => Ahead(w, <<p>>)
       /\ \A w : AllBehind(p, w) => Ahead(<<p>>, w)
       /\ \A w : (\A i \in 1..Len(w) : w[i].n < p.n) => Below(w, <<p>>)
BY DEF Chain, Rising, UpTo, AllAhead, AllBehind, Ahead, Below

\* A packet and an out with a new number.
LEMMA PacketUpdate ==
  ASSUME NEW p \in Packets, NEW k \in Nat, NEW x, x = [p EXCEPT !.n = k]
  PROVE  /\ x \in Packets /\ x.n = k /\ x.stream = p.stream /\ x.seq = p.seq
         /\ x.block = p.block /\ x.repair = p.repair /\ x.eob = p.eob /\ x.video = p.video
BY DEF Packets

\* An out with a new hand-over count.
LEMMA OutsUpdate ==
  ASSUME NEW o \in Outs, NEW k \in Nat, NEW s, s = [o EXCEPT !.n = k]
  PROVE  /\ s \in Outs /\ s.staged = o.staged /\ s.wire = o.wire /\ s.held = o.held /\ s.n = k
         /\ s.stamp = o.stamp
BY DEF Outs

\* send_packet(s) adds what it is given behind what is on the air, or nothing.
LEMMA SubmitGives ==
  ASSUME NEW o \in Outs, NEW ps \in Seq(Packets), NEW r, r = Submit(o, ps), o.staged = <<>>,
         Chain(o.wire), Chain(o.held), Ahead(o.wire, o.held),
         Chain(ps), Ahead(o.wire, ps), Ahead(ps, o.held),
         Rising(o.wire), Rising(ps), Below(o.wire, ps), UpTo(o.wire, o.n), UpTo(ps, o.n)
  PROVE  /\ Piped(r) /\ Extends(o, r) /\ r.held = o.held /\ r.stamp = o.stamp
         /\ r.staged = <<>> /\ r.n = o.n
         /\ \A q : AllAhead(o.wire, q) /\ AllAhead(ps, q) => AllAhead(r.wire, q)
<1>0. Len(o.wire) \in Nat /\ o.wire \in Seq(Packets) /\ o.n \in Nat BY LenProperties DEF Outs
<1>1. CASE radio.does # "air"
  <2>1. r = o BY <1>1 DEF Submit
  <2> QED BY <1>0, <2>1, ShortQueues DEF Piped, Extends
<1>2. CASE radio.does = "air"
  <2> DEFINE u == o.wire \o ps
  <2>1. r = [o EXCEPT !.wire = u] BY <1>2 DEF Submit
  <2>2. /\ u \in Seq(Packets) /\ Len(u) >= Len(o.wire)
        /\ \A i \in 1..Len(o.wire) : u[i] = o.wire[i]
    BY <1>0, ConcatParts
  <2>3. /\ Chain(u) /\ Rising(u) /\ UpTo(u, o.n) /\ Ahead(u, o.held)
        /\ \A q : AllAhead(o.wire, q) /\ AllAhead(ps, q) => AllAhead(u, q)
    BY <1>0, ConcatOrder
  <2> HIDE DEF u
  <2>4. /\ r \in Outs /\ r.wire = u /\ r.held = o.held /\ r.stamp = o.stamp /\ r.staged = <<>>
        /\ r.n = o.n
    BY <2>1, <2>2 DEF Outs
  <2>5. Piped(r) BY <2>3, <2>4, ShortQueues DEF Piped
  <2>6. Extends(o, r) BY <1>0, <2>2, <2>4 DEF Extends
  <2> QED BY <2>3, <2>4, <2>5, <2>6
<1> QED BY <1>1, <1>2

\* flush_staged: the batch reaches the air in its place, and is empty afterwards.
LEMMA FlushedGives ==
  ASSUME NEW o, Piped(o)
  PROVE  Given(o, Flushed(o), {}) /\ Flushed(o).staged = <<>> /\ Flushed(o).n = o.n
<1> DEFINE s == [o EXCEPT !.staged = <<>>]
<1>0. o \in Outs BY DEF Piped
<1>1. /\ s \in Outs /\ s.staged = <<>> /\ s.wire = o.wire /\ s.held = o.held /\ s.n = o.n
      /\ s.stamp = o.stamp
  BY <1>0, EmptySeq DEF Outs
<1>2. Flushed(o) = Submit(s, o.staged) BY DEF Flushed
<1> HIDE DEF s
<1>3. o.staged \in Seq(Packets) BY <1>0 DEF Outs
<1> DEFINE r == Submit(s, o.staged)
<1>4. /\ Chain(s.wire) /\ Chain(s.held) /\ Ahead(s.wire, s.held)
      /\ Chain(o.staged) /\ Ahead(s.wire, o.staged) /\ Ahead(o.staged, s.held)
      /\ Rising(s.wire) /\ Rising(o.staged) /\ Below(s.wire, o.staged)
      /\ UpTo(s.wire, s.n) /\ UpTo(o.staged, s.n)
  BY <1>1 DEF Piped
<1>5. /\ Piped(r) /\ Extends(s, r) /\ r.held = s.held /\ r.stamp = s.stamp
      /\ r.staged = <<>> /\ r.n = s.n
      /\ \A q : AllAhead(s.wire, q) /\ AllAhead(o.staged, q) => AllAhead(r.wire, q)
  BY <1>1, <1>3, <1>4, SubmitGives
<1> HIDE DEF r
<1>6. Extends(o, r) BY <1>1, <1>5 DEF Extends
<1>7. \A q \in Packets : Aired(o, q) => Aired(r, q) BY <1>1, <1>5, ShortQueues DEF Aired
<1> QED BY <1>1, <1>2, <1>5, <1>6, <1>7 DEF Given, r

\* Where a packet may be handed over: behind the air and the batch, ahead of what is held.
FitsNext(o, p) == p \in Packets /\ Aired(o, p) /\ AllBehind(p, o.held)

\* inject: with an empty batch the packet goes behind what is on the air.
LEMMA InjectGives ==
  ASSUME NEW o, NEW p, Piped(o), o.staged = <<>>, FitsNext(o, p)
  PROVE  Given(o, Inject(o, p), {p}) /\ Inject(o, p).staged = <<>>
<1> DEFINE s == [o EXCEPT !.n = @ + 1]
           x == [p EXCEPT !.n = o.n + 1]
<1>0. o \in Outs /\ o.n \in Nat /\ p \in Packets /\ o.wire \in Seq(Packets)
  BY DEF Piped, FitsNext, Outs
<1>n. o.n + 1 \in Nat BY <1>0
<1>1. /\ s \in Outs /\ s.staged = <<>> /\ s.wire = o.wire /\ s.held = o.held /\ s.n = o.n + 1
      /\ s.stamp = o.stamp
  BY <1>0, <1>n, OutsUpdate
<1>2. /\ x \in Packets /\ x.n = o.n + 1 /\ x.stream = p.stream /\ x.seq = p.seq
      /\ x.block = p.block /\ x.repair = p.repair /\ x.eob = p.eob /\ x.video = p.video
  BY <1>0, <1>n, PacketUpdate
<1>3. Inject(o, p) = Submit(s, <<x>>) BY DEF Inject
<1> HIDE DEF s, x
<1>4. \A q : Follows(p, q) <=> Follows(x, q) BY <1>2 DEF Follows
<1>5. \A q : Follows(q, p) <=> Follows(q, x) BY <1>2 DEF Follows
<1>6. AllAhead(o.wire, x) /\ AllBehind(x, o.held)
  BY <1>4, <1>5, Zenon DEF FitsNext, Aired, AllAhead, AllBehind
<1>7. \A i \in 1..Len(o.wire) : o.wire[i].n \in Nat
  <2> TAKE i \in 1..Len(o.wire)
  <2>1. o.wire[i] \in Packets BY <1>0, ElementOfSeq
  <2> QED BY <2>1 DEF Packets
<1>8. UpTo(o.wire, o.n) BY DEF Piped
<1>9. UpTo(o.wire, s.n) /\ x.n <= s.n /\ \A i \in 1..Len(o.wire) : o.wire[i].n < x.n
  BY <1>0, <1>1, <1>2, <1>7, <1>8 DEF UpTo
<1>10. /\ <<x>> \in Seq(Packets) /\ Chain(<<x>>) /\ Rising(<<x>>) /\ UpTo(<<x>>, s.n)
       /\ Ahead(o.wire, <<x>>) /\ Ahead(<<x>>, o.held) /\ Below(o.wire, <<x>>)
       /\ \A q : Follows(p, q) => AllAhead(<<x>>, q)
  <2>1. /\ <<x>> \in Seq(Packets) /\ Chain(<<x>>) /\ Rising(<<x>>)
        /\ \A n : x.n <= n => UpTo(<<x>>, n)
        /\ \A q : Follows(x, q) => AllAhead(<<x>>, q)
        /\ \A w : AllAhead(w, x) => Ahead(w, <<x>>)
        /\ \A w : AllBehind(x, w) => Ahead(<<x>>, w)
        /\ \A w : (\A i \in 1..Len(w) : w[i].n < x.n) => Below(w, <<x>>)
    BY <1>2, ShortQueues, Zenon
  <2> QED BY <1>4, <1>6, <1>9, <2>1, Zenon
<1> DEFINE y == <<x>>
           r == Submit(s, y)
<1>11. /\ y \in Seq(Packets) /\ Chain(y) /\ Rising(y) /\ UpTo(y, s.n)
       /\ Ahead(s.wire, y) /\ Ahead(y, s.held) /\ Below(s.wire, y)
       /\ \A q : Follows(p, q) => AllAhead(y, q)
  BY <1>1, <1>10
<1> HIDE DEF y
<1>12. Chain(s.wire) /\ Chain(s.held) /\ Ahead(s.wire, s.held) /\ Rising(s.wire) /\ UpTo(s.wire, s.n)
  BY <1>1, <1>9 DEF Piped
<1>13. /\ Piped(r) /\ Extends(s, r) /\ r.held = s.held /\ r.stamp = s.stamp
       /\ r.staged = <<>> /\ r.n = s.n
       /\ \A q : AllAhead(s.wire, q) /\ AllAhead(y, q) => AllAhead(r.wire, q)
  BY <1>1, <1>11, <1>12, SubmitGives
<1> HIDE DEF r
<1>14. r.n \in Nat /\ Len(r.wire) \in Nat BY <1>13, LenProperties DEF Piped, Outs
<1>15. Extends(o, r) BY <1>0, <1>1, <1>13, <1>14 DEF Extends
<1>16. \A q \in Packets : Aired(o, q) /\ Follows(p, q) => Aired(r, q)
  BY <1>1, <1>11, <1>13, ShortQueues DEF Aired
<1> QED BY <1>1, <1>3, <1>13, <1>15, <1>16 DEF Given, r, y
\* What the back end is given in two steps.
LEMMA GivenTwice ==
  ASSUME NEW a, NEW b, NEW c, NEW F, NEW G, Piped(a), Given(a, b, F), Given(b, c, G)
  PROVE  Given(a, c, F \cup G)
<1>1. Extends(a, c)
  <2>1. /\ Len(a.wire) \in Nat /\ Len(b.wire) \in Nat /\ Len(c.wire) \in Nat
        /\ a.n \in Nat /\ b.n \in Nat /\ c.n \in Nat
    BY LenProperties DEF Given, Piped, Outs
  <2>2. Extends(a, b) /\ Extends(b, c) BY DEF Given
  <2> QED BY <2>1, <2>2 DEF Extends
<1>2. Piped(c) /\ c.held = a.held /\ c.stamp = a.stamp BY DEF Given
<1>3. \A q \in Packets : Aired(a, q) /\ (\A p \in F \cup G : Follows(p, q)) => Aired(c, q)
  BY DEF Given
<1> QED BY <1>1, <1>2, <1>3 DEF Given

\* The back end's own word may go anywhere, and anything may follow it.
LEMMA ControlFits ==
  /\ Control \in Packets
  /\ \A q \in Packets : Follows(Control, q) /\ Follows(q, Control)
  /\ \A o : Piped(o) => FitsNext(o, Control)
<1>1. Control \in Packets /\ Control.stream = "control" BY DEF Control, Packet, Packets
<1>2. \A q \in Packets : Follows(Control, q) /\ Follows(q, Control) BY <1>1 DEF Follows
<1>3. ASSUME NEW o, Piped(o) PROVE FitsNext(o, Control)
  <2>1. o.wire \in Seq(Packets) /\ o.staged \in Seq(Packets) /\ o.held \in Seq(Packets)
    BY <1>3 DEF Piped, Outs
  <2>2. /\ \A i \in 1..Len(o.wire) : o.wire[i] \in Packets
        /\ \A i \in 1..Len(o.staged) : o.staged[i] \in Packets
        /\ \A i \in 1..Len(o.held) : o.held[i] \in Packets
    BY <2>1, ElementOfSeq
  <2> QED BY <1>1, <1>2, <2>2 DEF FitsNext, Aired, AllAhead, AllBehind
<1> QED BY <1>1, <1>2, <1>3

\* send_now flushes first, so its packet stays behind the batch.
LEMMA SendNowGives ==
  ASSUME NEW o, NEW p, Piped(o), FitsNext(o, p)
  PROVE  Given(o, SendNow(o, p), {p}) /\ SendNow(o, p).staged = <<>>
<1> DEFINE f == Flushed(o)
<1>1. Given(o, f, {}) /\ f.staged = <<>> BY FlushedGives
<1>2. SendNow(o, p) = Inject(f, p) BY DEF SendNow
<1> HIDE DEF f
<1>3. Piped(f) /\ FitsNext(f, p) BY <1>1 DEF Given, FitsNext
<1>4. Given(f, Inject(f, p), {p}) /\ Inject(f, p).staged = <<>> BY <1>1, <1>3, InjectGives
<1>5. Given(o, Inject(f, p), {} \cup {p}) BY <1>1, <1>4, GivenTwice
<1>6. {} \cup {p} = {p} OBVIOUS
<1> QED BY <1>2, <1>4, <1>5, <1>6

\* A control frame, batched or straight to the back end, disturbs no stream's order.
LEMMA ControlGives ==
  ASSUME NEW o, Piped(o)
  PROVE  /\ Given(o, SendNow(o, Control), {}) /\ SendNow(o, Control).staged = <<>>
         /\ o.staged = <<>> => /\ Given(o, Inject(o, Control), {})
                               /\ Inject(o, Control).staged = <<>>
<1>1. \A r : Given(o, r, {Control}) => Given(o, r, {}) BY ControlFits DEF Given
<1>2. FitsNext(o, Control) BY ControlFits
<1>3. Given(o, SendNow(o, Control), {Control}) /\ SendNow(o, Control).staged = <<>>
  BY <1>2, SendNowGives
<1>4. o.staged = <<>> => Given(o, Inject(o, Control), {Control}) /\ Inject(o, Control).staged = <<>>
  BY <1>2, InjectGives
<1> QED BY <1>1, <1>3, <1>4

\* inject_staged adds the packet to the batch, and sends the batch when it is full.
LEMMA StageGives ==
  ASSUME NEW o, NEW p, Piped(o), FitsNext(o, p)
  PROVE  Given(o, Stage(o, p), {p})
<1> DEFINE k == o.n + 1
           x == [p EXCEPT !.n = k]
           b == Append(o.staged, x)
           s == [o EXCEPT !.n = k, !.staged = b]
<1>0. /\ o \in Outs /\ o.n \in Nat /\ p \in Packets /\ o.wire \in Seq(Packets)
      /\ o.staged \in Seq(Packets) /\ k \in Nat
  BY DEF Piped, FitsNext, Outs
<1>1. Stage(o, p) = IF Len(s.staged) >= Agg THEN Flushed(s) ELSE s
  BY <1>0 DEF Stage, Outs
<1>2. /\ x \in Packets /\ x.n = k /\ x.stream = p.stream /\ x.seq = p.seq
      /\ x.block = p.block /\ x.repair = p.repair /\ x.eob = p.eob
  BY <1>0, PacketUpdate
<1> HIDE DEF x
<1>3. b = o.staged \o <<x>> /\ b \in Seq(Packets) BY <1>0, <1>2, AppendIsConcat, AppendProperties
<1>4. /\ \A q : Follows(p, q) <=> Follows(x, q)
      /\ \A q : Follows(q, p) <=> Follows(q, x)
  BY <1>2 DEF Follows
<1>5. AllAhead(o.wire, x) /\ AllAhead(o.staged, x) /\ AllBehind(x, o.held)
  BY <1>4, Zenon DEF FitsNext, Aired, AllAhead, AllBehind
<1>6. UpTo(o.wire, o.n) /\ UpTo(o.staged, o.n) BY DEF Piped
<1>7. /\ UpTo(o.wire, k) /\ UpTo(o.staged, k) /\ x.n <= k
      /\ \A i \in 1..Len(o.wire) : o.wire[i].n < x.n
      /\ \A i \in 1..Len(o.staged) : o.staged[i].n < x.n
  <2>1. /\ \A i \in 1..Len(o.wire) : o.wire[i] \in Packets
        /\ \A i \in 1..Len(o.staged) : o.staged[i] \in Packets
    BY <1>0, ElementOfSeq
  <2>2. /\ \A i \in 1..Len(o.wire) : o.wire[i].n \in Nat
        /\ \A i \in 1..Len(o.staged) : o.staged[i].n \in Nat
    BY <2>1 DEF Packets
  <2> QED BY <1>0, <1>2, <1>6, <2>2 DEF UpTo
<1>8. /\ <<x>> \in Seq(Packets) /\ Chain(<<x>>) /\ Rising(<<x>>)
      /\ \A n : x.n <= n => UpTo(<<x>>, n)
      /\ \A q : Follows(x, q) => AllAhead(<<x>>, q)
      /\ \A w : AllAhead(w, x) => Ahead(w, <<x>>)
      /\ \A w : AllBehind(x, w) => Ahead(<<x>>, w)
      /\ \A w : (\A i \in 1..Len(w) : w[i].n < x.n) => Below(w, <<x>>)
  BY <1>2, ShortQueues, Zenon
<1> DEFINE y == <<x>>
<1>9. /\ y \in Seq(Packets) /\ Chain(y) /\ Rising(y) /\ UpTo(y, k)
      /\ Ahead(o.wire, y) /\ Ahead(o.staged, y) /\ Ahead(y, o.held)
      /\ Below(o.wire, y) /\ Below(o.staged, y)
      /\ \A q : Follows(p, q) => AllAhead(y, q)
  BY <1>4, <1>5, <1>7, <1>8, Zenon
<1> HIDE DEF y
<1>10. b = o.staged \o y BY <1>3 DEF y
<1> HIDE DEF b
<1>11. /\ Chain(o.staged) /\ Rising(o.staged) /\ Ahead(o.wire, o.staged) /\ Ahead(o.staged, o.held)
       /\ Below(o.wire, o.staged)
  BY DEF Piped
<1>12. /\ Chain(b) /\ Rising(b) /\ UpTo(b, k) /\ Ahead(o.wire, b) /\ Ahead(b, o.held)
       /\ Below(o.wire, b)
       /\ \A q : AllAhead(o.staged, q) /\ Follows(p, q) => AllAhead(b, q)
  BY <1>0, <1>7, <1>9, <1>10, <1>11, ConcatOrder
<1> HIDE DEF k
<1>13. /\ s \in Outs /\ s.staged = b /\ s.n = k /\ s.wire = o.wire /\ s.held = o.held
       /\ s.stamp = o.stamp
  BY <1>0, <1>3 DEF Outs
<1> HIDE DEF s
<1>14. Piped(s) BY <1>7, <1>12, <1>13 DEF Piped
<1>15. Extends(o, s)
  <2>1. Len(o.wire) \in Nat BY <1>0, LenProperties
  <2>2. o.n <= k BY <1>0 DEF k
  <2> QED BY <1>13, <2>1, <2>2 DEF Extends
<1>16. Given(o, s, {p}) BY <1>12, <1>13, <1>14, <1>15 DEF Given, Aired
<1>17. Given(s, Flushed(s), {}) BY <1>14, FlushedGives
<1>18. Given(o, Flushed(s), {p} \cup {}) BY <1>16, <1>17, GivenTwice
<1>19. {p} \cup {} = {p} OBVIOUS
<1> QED BY <1>1, <1>16, <1>18, <1>19
\* The cadences, the gap and its witnesses touch no packet.
LEMMA ClocksApart ==
  ASSUME NEW s, Piped(s), NEW r \in Outs, r.wire = s.wire, r.staged = s.staged, r.held = s.held,
         r.n = s.n, r.stamp = s.stamp
  PROVE  /\ Piped(r)
         /\ \A o, F : Given(o, s, F) => Given(o, r, F)
BY DEF Piped, Given, Extends, Aired

\* The selector word goes before the packet, which still fits.
LEMMA PrefixedGives ==
  ASSUME NEW o, NEW p, Piped(o), FitsNext(o, p)
  PROVE  Given(o, Prefixed(o, p), {}) /\ FitsNext(Prefixed(o, p), p)
<1>1. CASE ~(p.video /\ o.stamp >= o.dueAt)
  <2>1. Prefixed(o, p) = o BY <1>1 DEF Prefixed
  <2>2. Len(o.wire) \in Nat /\ o.n \in Nat BY LenProperties DEF Piped, Outs
  <2> QED BY <2>1, <2>2 DEF Given, Extends
<1>2. CASE p.video /\ o.stamp >= o.dueAt
  <2> DEFINE s == SendNow(o, Control)
             k == IF radio.does = "refuse" THEN s.dueAt ELSE o.stamp + Period
             r == [s EXCEPT !.dueAt = k]
  <2>1. Given(o, s, {}) BY ControlGives
  <2>2. Prefixed(o, p) = r BY <1>2 DEF Prefixed
  <2> HIDE DEF s
  <2>3. Piped(s) /\ s \in Outs BY <2>1 DEF Given, Piped
  <2>4. k \in Nat
    <3>1. s.dueAt \in Nat /\ o.stamp \in Nat BY <2>3 DEF Outs, Piped
    <3> QED BY <3>1, CraftTxAssumption
  <2> HIDE DEF k
  <2>5. /\ r \in Outs /\ r.wire = s.wire /\ r.staged = s.staged /\ r.held = s.held
        /\ r.n = s.n /\ r.stamp = s.stamp
    BY <2>3, <2>4 DEF Outs
  <2> HIDE DEF r
  <2>6. Given(o, r, {}) BY <2>1, <2>3, <2>5, ClocksApart
  <2>7. FitsNext(r, p) BY <2>6 DEF Given, FitsNext
  <2> QED BY <2>2, <2>6, <2>7
<1> QED BY <1>1, <1>2

\* send_raw, with the word before and the flush and the gap after.
LEMMA SendRawGives ==
  ASSUME NEW o, NEW p, Piped(o), FitsNext(o, p)
  PROVE  Given(o, SendRaw(o, p), {p})
<1> DEFINE a == Prefixed(o, p)
           s == Stage(a, p)
           f == Flushed(s)
<1>1. Given(o, a, {}) /\ FitsNext(a, p) BY PrefixedGives
<1>2. SendRaw(o, p) = IF p.video /\ p.eob THEN NoteEobSent(f) ELSE s BY DEF SendRaw
<1> HIDE DEF a
<1>3. Given(a, s, {p}) BY <1>1, StageGives DEF Given
<1> HIDE DEF s
<1>4. {} \cup {p} = {p} /\ {p} \cup {} = {p} OBVIOUS
<1>5. Given(o, s, {p}) BY <1>1, <1>3, <1>4, GivenTwice
<1>6. Piped(s) BY <1>5 DEF Given
<1>7. Given(s, f, {}) BY <1>6, FlushedGives
<1> HIDE DEF f
<1>8. Given(o, f, {p}) BY <1>4, <1>5, <1>7, GivenTwice
<1>9. Given(o, NoteEobSent(f), {p})
  <2> DEFINE g == f.stamp + Guard
             h == f.stamp + Guard + Window
             e == f.now
             r == [f EXCEPT !.from = g, !.to = h, !.eobAt = e]
  <2>1. NoteEobSent(f) = r BY DEF NoteEobSent
  <2>2. Piped(f) /\ f \in Outs BY <1>8 DEF Given, Piped
  <2>3. f.stamp \in Nat /\ f.now \in Nat BY <2>2 DEF Outs
  <2>4. g \in Nat /\ h \in Nat /\ e \in Int BY <2>3, CraftTxAssumption
  <2> HIDE DEF g, h, e
  <2>5. /\ r \in Outs /\ r.wire = f.wire /\ r.staged = f.staged /\ r.held = f.held
        /\ r.n = f.n /\ r.stamp = f.stamp
    BY <2>2, <2>4 DEF Outs
  <2> HIDE DEF r
  <2> QED BY <1>8, <2>1, <2>2, <2>5, ClocksApart
<1> QED BY <1>2, <1>5, <1>9

\* What the back end is given, with the held packets as they are, the loop has passed on.
LEMMA Joined ==
  ASSUME NEW a, NEW b, NEW F, Piped(a), Given(a, b, F)
  PROVE  Passed(a, b, F)
BY DEF Given, Passed, Behind

\* What the loop passes on in two steps.
LEMMA PassedTwice ==
  ASSUME NEW a, NEW b, NEW c, NEW F, NEW G, Piped(a), Passed(a, b, F), Passed(b, c, G)
  PROVE  Passed(a, c, F \cup G)
<1>1. Extends(a, c)
  <2>1. /\ Len(a.wire) \in Nat /\ Len(b.wire) \in Nat /\ Len(c.wire) \in Nat
        /\ a.n \in Nat /\ b.n \in Nat /\ c.n \in Nat
    BY LenProperties DEF Passed, Piped, Outs
  <2>2. Extends(a, b) /\ Extends(b, c) BY DEF Passed
  <2> QED BY <2>1, <2>2 DEF Extends
<1>2. \A q \in Packets : Behind(a, q) /\ (\A p \in F \cup G : Follows(p, q)) => Behind(c, q)
  BY DEF Passed
<1> QED BY <1>1, <1>2 DEF Passed

\* The inject of the loop holds the packet or sends it, in order either way.
LEMMA InjectPacedTakes ==
  ASSUME NEW o, NEW p \in Packets, Piped(o), Behind(o, p)
  PROVE  Passed(o, InjectPaced(o, p), {p})
<1>0. /\ o \in Outs /\ o.held \in Seq(Packets) /\ Len(o.wire) \in Nat /\ o.n \in Nat
  BY LenProperties DEF Piped, Outs
<1>1. CASE o.held # <<>> \/ ~CanSendVideo(o)
  <2> DEFINE b == Append(o.held, p)
             r == [o EXCEPT !.held = b]
             y == <<p>>
  <2>1. InjectPaced(o, p) = r BY <1>1 DEF InjectPaced
  <2>2. b = o.held \o y /\ b \in Seq(Packets) BY <1>0, AppendIsConcat, AppendProperties
  <2>3. /\ y \in Seq(Packets) /\ Chain(y)
        /\ \A q : Follows(p, q) => AllAhead(y, q)
        /\ \A w : AllAhead(w, p) => Ahead(w, y)
    BY ShortQueues, Zenon
  <2> HIDE DEF y, b
  <2>4. /\ Chain(b)
        /\ \A w : Ahead(w, o.held) /\ AllAhead(w, p) => Ahead(w, b)
        /\ \A q : AllAhead(o.held, q) /\ Follows(p, q) => AllAhead(b, q)
    <3>1. AllAhead(o.held, p) /\ Chain(o.held) BY DEF Behind, Piped
    <3> QED BY <1>0, <2>2, <2>3, <3>1, ConcatOrder
  <2>5. /\ r \in Outs /\ r.wire = o.wire /\ r.staged = o.staged /\ r.held = b /\ r.n = o.n
        /\ r.stamp = o.stamp
    BY <1>0, <2>2 DEF Outs
  <2> HIDE DEF r
  <2>6. Piped(r) BY <2>4, <2>5 DEF Piped, Behind, Aired
  <2>7. Extends(o, r) BY <1>0, <2>5 DEF Extends
  <2> QED BY <2>1, <2>4, <2>5, <2>6, <2>7 DEF Passed, Behind, Aired
<1>2. CASE o.held = <<>> /\ CanSendVideo(o)
  <2> DEFINE t == o.trod \/ InPromisedGap(o)
             s == [o EXCEPT !.trod = t]
  <2>1. InjectPaced(o, p) = SendRaw(s, p) BY <1>2 DEF InjectPaced
  <2>2. t \in BOOLEAN OBVIOUS
  <2> HIDE DEF t
  <2>3. /\ s \in Outs /\ s.wire = o.wire /\ s.staged = o.staged /\ s.held = o.held
        /\ s.n = o.n /\ s.stamp = o.stamp
    BY <1>0, <2>2 DEF Outs
  <2> HIDE DEF s
  <2>4. Piped(s) BY <2>3, ClocksApart
  <2>5. FitsNext(s, p) BY <1>2, <2>3, ShortQueues DEF FitsNext, Behind, Aired
  <2> DEFINE r == SendRaw(s, p)
  <2>6. Given(s, r, {p}) BY <2>4, <2>5, SendRawGives
  <2> HIDE DEF r
  <2>7. Given(o, r, {p}) BY <2>3, <2>6 DEF Given, Extends, Aired
  <2> QED BY <2>1, <2>7, Joined DEF r
<1> QED BY <1>1, <1>2

\* One turn of the flush of the held packets.
LEMMA FlushOneTakes ==
  ASSUME NEW o, Piped(o), o.held # <<>>
  PROVE  /\ Passed(o, FlushOne(o), {}) /\ FlushOne(o).stamp = o.stamp
         /\ CanSendVideo(o) => Len(FlushOne(o).held) = Len(o.held) - 1
         /\ ~CanSendVideo(o) => FlushOne(o) = o
<1>0. /\ o \in Outs /\ o.held \in Seq(Packets) /\ Len(o.wire) \in Nat /\ o.n \in Nat
      /\ Len(o.held) \in Nat \ {0}
  BY LenProperties, EmptySeq DEF Piped, Outs
<1>1. CASE ~CanSendVideo(o)
  <2>1. FlushOne(o) = o BY <1>1 DEF FlushOne
  <2>2. Passed(o, o, {}) BY <1>0 DEF Passed, Extends
  <2> QED BY <1>1, <2>1, <2>2
<1>2. CASE CanSendVideo(o)
  <2> DEFINE t == o.trod \/ InPromisedGap(o)
             h == Tail(o.held)
             p == Head(o.held)
             s == [o EXCEPT !.trod = t, !.held = h]
             r == SendRaw(s, p)
  <2>1. FlushOne(o) = r BY <1>2 DEF FlushOne
  <2>2. t \in BOOLEAN OBVIOUS
  <2>3. /\ h \in Seq(Packets) /\ p \in Packets /\ Len(h) = Len(o.held) - 1 /\ p = o.held[1]
        /\ \A i \in 1..Len(h) : h[i] = o.held[i + 1]
    BY <1>0, HeadTailProperties
  <2> HIDE DEF t, h, p
  <2>4. /\ s \in Outs /\ s.wire = o.wire /\ s.staged = o.staged /\ s.held = h
        /\ s.n = o.n /\ s.stamp = o.stamp
    BY <1>0, <2>2, <2>3 DEF Outs
  <2> HIDE DEF s
  <2>5. /\ \A i \in 1..Len(h) : i + 1 \in 1..Len(o.held) /\ h[i] = o.held[i + 1] /\ 1 < i + 1
        /\ 1 \in 1..Len(o.held)
    BY <1>0, <2>3
  <2>6. /\ Chain(h) /\ AllBehind(p, h)
        /\ \A w : Ahead(w, o.held) => Ahead(w, h) /\ AllAhead(w, p)
        /\ \A q : AllAhead(o.held, q) => AllAhead(h, q) /\ Follows(p, q)
    <3>1. Chain(o.held) BY DEF Piped
    <3>2. AllBehind(p, h) BY <2>3, <2>5, <3>1 DEF Chain, AllBehind
    <3>3. Chain(h)
      <4> SUFFICES ASSUME NEW i \in 1..Len(h), NEW j \in 1..Len(h), i < j
                   PROVE  Follows(h[i], h[j])
        BY DEF Chain
      <4>1. i + 1 < j + 1 BY <1>0, <2>3
      <4> QED BY <2>5, <3>1, <4>1 DEF Chain
    <3>4. \A w : Ahead(w, o.held) => Ahead(w, h) /\ AllAhead(w, p)
      BY <2>3, <2>5 DEF Ahead, AllAhead
    <3>5. \A q : AllAhead(o.held, q) => AllAhead(h, q) /\ Follows(p, q)
      BY <2>3, <2>5 DEF AllAhead
    <3> QED BY <3>2, <3>3, <3>4, <3>5
  <2>7. Piped(s) BY <2>4, <2>6 DEF Piped
  <2>8. FitsNext(s, p) BY <2>3, <2>4, <2>6 DEF FitsNext, Aired, Piped
  <2>9. Given(s, r, {p}) BY <2>7, <2>8, SendRawGives
  <2> HIDE DEF r
  <2>10. /\ Piped(r) /\ Extends(o, r) /\ r.held = h /\ r.stamp = o.stamp
    BY <2>4, <2>9 DEF Given, Extends
  <2>11. \A q \in Packets : Behind(o, q) => Behind(r, q)
    BY <2>4, <2>6, <2>9, <2>10 DEF Given, Behind, Aired
  <2> QED BY <1>2, <2>1, <2>3, <2>10, <2>11 DEF Passed
<1> QED BY <1>1, <1>2
\* The turns of a flush from o, and of the injection of ps from o.
Flushes(f, o, m) == f = [i \in 0..m |-> IF i = 0 THEN o ELSE FlushOne(f[i - 1])]
Injects(f, o, ps, m) == f = [i \in 0..m |-> IF i = 0 THEN o ELSE InjectPaced(f[i - 1], ps[i])]

\* The turns of a flush exist, for any number of turns.
LEMMA FlushesExist ==
  ASSUME NEW o, NEW m \in Nat
  PROVE  \E f : Flushes(f, o, m)
<1> DEFINE S == {k \in Nat : ~ \E f : Flushes(f, o, k)}
<1> SUFFICES ASSUME S # {} PROVE FALSE OBVIOUS
<1>1. PICK k \in S : \A y \in S : k <= y
  <2>1. S \in SUBSET Nat OBVIOUS
  <2> HIDE DEF S
  <2> QED BY <2>1, LeastNat
<1>2. CASE k = 0
  <2>1. Flushes([i \in 0..0 |-> o], o, 0) BY DEF Flushes
  <2> QED BY <1>2, <2>1
<1>3. CASE k # 0
  <2>1. k - 1 \in Nat /\ k - 1 \notin S BY <1>1, <1>3
  <2>2. PICK f : Flushes(f, o, k - 1) BY <2>1
  <2> DEFINE g == [i \in 0..k |-> IF i < k THEN f[i] ELSE FlushOne(f[k - 1])]
  <2>3. ASSUME NEW i \in 0..k PROVE g[i] = IF i = 0 THEN o ELSE FlushOne(g[i - 1])
    <3>1. CASE i = 0 BY <2>1, <2>2, <3>1 DEF Flushes
    <3>2. CASE i # 0 /\ i < k
      <4>1. i \in 0..(k - 1) /\ i - 1 \in 0..k /\ i - 1 < k BY <1>1, <3>2
      <4>2. f[i] = FlushOne(f[i - 1]) BY <2>2, <3>2, <4>1 DEF Flushes
      <4> QED BY <3>2, <4>1, <4>2
    <3>3. CASE i = k BY <1>1, <1>3, <3>3
    <3> QED BY <3>1, <3>2, <3>3
  <2>4. g = [i \in 0..k |-> g[i]] OBVIOUS
  <2> HIDE DEF g
  <2>5. Flushes(g, o, k) BY <2>3, <2>4, Zenon DEF Flushes
  <2> QED BY <2>5
<1> QED BY <1>2, <1>3

\* The turns of an injection exist, for any number of symbols.
LEMMA InjectsExist ==
  ASSUME NEW o, NEW ps, NEW m \in Nat
  PROVE  \E f : Injects(f, o, ps, m)
<1> DEFINE S == {k \in Nat : ~ \E f : Injects(f, o, ps, k)}
<1> SUFFICES ASSUME S # {} PROVE FALSE OBVIOUS
<1>1. PICK k \in S : \A y \in S : k <= y
  <2>1. S \in SUBSET Nat OBVIOUS
  <2> HIDE DEF S
  <2> QED BY <2>1, LeastNat
<1>2. CASE k = 0
  <2>1. Injects([i \in 0..0 |-> o], o, ps, 0) BY DEF Injects
  <2> QED BY <1>2, <2>1
<1>3. CASE k # 0
  <2>1. k - 1 \in Nat /\ k - 1 \notin S BY <1>1, <1>3
  <2>2. PICK f : Injects(f, o, ps, k - 1) BY <2>1
  <2> DEFINE g == [i \in 0..k |-> IF i < k THEN f[i] ELSE InjectPaced(f[k - 1], ps[k])]
  <2>3. ASSUME NEW i \in 0..k PROVE g[i] = IF i = 0 THEN o ELSE InjectPaced(g[i - 1], ps[i])
    <3>1. CASE i = 0 BY <2>1, <2>2, <3>1 DEF Injects
    <3>2. CASE i # 0 /\ i < k
      <4>1. i \in 0..(k - 1) /\ i - 1 \in 0..k /\ i - 1 < k BY <1>1, <3>2
      <4>2. f[i] = InjectPaced(f[i - 1], ps[i]) BY <2>2, <3>2, <4>1 DEF Injects
      <4> QED BY <3>2, <4>1, <4>2
    <3>3. CASE i = k BY <1>1, <1>3, <3>3
    <3> QED BY <3>1, <3>2, <3>3
  <2>4. g = [i \in 0..k |-> g[i]] OBVIOUS
  <2> HIDE DEF g
  <2>5. Injects(g, o, ps, k) BY <2>3, <2>4, Zenon DEF Injects
  <2> QED BY <2>5
<1> QED BY <1>2, <1>3

\* FlushHeld is the last of its turns.
LEMMA FlushHeldTurns ==
  ASSUME NEW o, Piped(o)
  PROVE  \E f : Flushes(f, o, Len(o.held)) /\ FlushHeld(o) = f[Len(o.held)]
<1>1. Len(o.held) \in Nat BY LenProperties DEF Piped, Outs
<1> DEFINE g == CHOOSE f : Flushes(f, o, Len(o.held))
<1>2. Flushes(g, o, Len(o.held)) BY <1>1, FlushesExist
<1>3. FlushHeld(o) = g[Len(o.held)] BY DEF FlushHeld, Flushes
<1> QED BY <1>2, <1>3

\* InjectAll is the last of its turns.
LEMMA InjectAllTurns ==
  ASSUME NEW o, NEW ps \in Seq(Packets)
  PROVE  \E f : Injects(f, o, ps, Len(ps)) /\ InjectAll(o, ps) = f[Len(ps)]
<1>1. Len(ps) \in Nat BY LenProperties
<1> DEFINE g == CHOOSE f : Injects(f, o, ps, Len(ps))
<1>2. Injects(g, o, ps, Len(ps)) BY <1>1, InjectsExist
<1>3. InjectAll(o, ps) = g[Len(ps)] BY DEF InjectAll, Injects
<1> QED BY <1>2, <1>3

\* The flush of the held packets keeps their order and leaves fewer than the override.
LEMMA FlushHeldTakes ==
  ASSUME NEW o, Piped(o)
  PROVE  Passed(o, FlushHeld(o), {}) /\ Len(FlushHeld(o).held) < Skip
<1> DEFINE N == Len(o.held)
<1>0. N \in Nat /\ Skip \in Nat \ {0} /\ o.stamp \in Nat
  BY LenProperties, CraftTxAssumption DEF Piped, Outs
<1>1. PICK f : Flushes(f, o, N) /\ FlushHeld(o) = f[N] BY FlushHeldTurns
<1>2. f[0] = o /\ \A i \in 1..N : f[i] = FlushOne(f[i - 1])
  BY <1>0, <1>1 DEF Flushes
<1> DEFINE Fine(i) == /\ Passed(o, f[i], {})
                      /\ Len(f[i].held) = N - i \/ ~CanSendVideo(f[i])
           S == {i \in 0..N : ~Fine(i)}
<1>3. Fine(0)
  <2>1. Passed(o, o, {})
    <3>1. Len(o.wire) \in Nat /\ o.n \in Nat BY LenProperties DEF Piped, Outs
    <3> QED BY <3>1 DEF Passed, Extends
  <2> QED BY <1>0, <1>2, <2>1
<1>4. ASSUME NEW i \in 1..N, Fine(i - 1) PROVE Fine(i)
  <2> DEFINE a == f[i - 1]
  <2>1. Passed(o, a, {}) /\ Piped(a) BY <1>4 DEF Passed
  <2>2. f[i] = FlushOne(a) BY <1>2
  <2>3. CASE ~CanSendVideo(a)
    <3>1. FlushOne(a) = a BY <2>3 DEF FlushOne
    <3> QED BY <2>1, <2>2, <2>3, <3>1
  <2>4. CASE CanSendVideo(a)
    <3>1. Len(a.held) = N - (i - 1) BY <1>4, <2>4
    <3> HIDE DEF a
    <3>2. a.held # <<>>
      <4>1. Len(a.held) # 0 BY <1>0, <3>1
      <4> QED BY <4>1, EmptySeq
    <3>3. Passed(a, FlushOne(a), {}) /\ Len(FlushOne(a).held) = Len(a.held) - 1
      BY <2>1, <2>4, <3>2, FlushOneTakes
    <3>4. Passed(o, FlushOne(a), {} \cup {}) BY <2>1, <3>3, PassedTwice
    <3>5. {} \cup {} = {} OBVIOUS
    <3>6. Len(FlushOne(a).held) = N - i BY <1>0, <3>1, <3>3
    <3> QED BY <2>2, <3>4, <3>5, <3>6
  <2> QED BY <2>3, <2>4
<1> HIDE DEF Fine
<1>5. Fine(N)
  <2> SUFFICES ASSUME S # {} PROVE FALSE BY <1>0
  <2>1. S \in SUBSET Nat BY <1>0
  <2>2. PICK k \in S : \A y \in S : k <= y
    <3> HIDE DEF S
    <3> QED BY <2>1, LeastNat
  <2>3. k # 0 BY <1>3
  <2>4. k \in 1..N /\ k - 1 \in 0..N /\ ~(k <= k - 1) BY <1>0, <2>2, <2>3
  <2>5. Fine(k - 1) BY <2>2, <2>4
  <2> QED BY <1>4, <2>2, <2>4, <2>5
<1> DEFINE r == f[N]
<1>6. Passed(o, r, {}) /\ (Len(r.held) = N - N \/ ~CanSendVideo(r)) BY <1>5 DEF Fine
<1> HIDE DEF r
<1>7. Len(r.held) \in Nat BY <1>6, LenProperties DEF Passed, Piped, Outs
<1>8. Len(r.held) < Skip BY <1>0, <1>6, <1>7 DEF CanSendVideo
<1> QED BY <1>1, <1>6, <1>8 DEF r

\* The symbols of a frame, each in its place behind the ones before it.
LEMMA InjectAllTakes ==
  ASSUME NEW o, NEW ps \in Seq(Packets), Piped(o), Chain(ps),
         \A i \in 1..Len(ps) : Behind(o, ps[i])
  PROVE  Passed(o, InjectAll(o, ps), {ps[i] : i \in 1..Len(ps)})
<1> DEFINE N == Len(ps)
           P(i) == {ps[l] : l \in 1..i}
<1>0. N \in Nat BY LenProperties
<1>1. PICK f : Injects(f, o, ps, N) /\ InjectAll(o, ps) = f[N] BY InjectAllTurns
<1>2. f[0] = o /\ \A i \in 1..N : f[i] = InjectPaced(f[i - 1], ps[i])
  BY <1>0, <1>1 DEF Injects
<1> DEFINE Fine(i) == Passed(o, f[i], P(i))
           S == {i \in 0..N : ~Fine(i)}
<1>3. Fine(0)
  <2>1. Passed(o, o, P(0))
    <3>1. Len(o.wire) \in Nat /\ o.n \in Nat BY LenProperties DEF Piped, Outs
    <3> QED BY <3>1 DEF Passed, Extends
  <2> QED BY <1>2, <2>1
<1>4. ASSUME NEW i \in 1..N, Fine(i - 1) PROVE Fine(i)
  <2> DEFINE a == f[i - 1]
             p == ps[i]
  <2>1. Passed(o, a, P(i - 1)) /\ Piped(a) BY <1>4 DEF Passed
  <2>2. f[i] = InjectPaced(a, p) BY <1>2
  <2>3. p \in Packets BY ElementOfSeq
  <2>4. Behind(o, p) OBVIOUS
  <2>5. \A x \in P(i - 1) : Follows(x, p)
    <3> SUFFICES ASSUME NEW l \in 1..(i - 1) PROVE Follows(ps[l], ps[i]) OBVIOUS
    <3>1. l \in 1..Len(ps) /\ l < i BY <1>0
    <3> QED BY <3>1 DEF Chain
  <2>6. P(i) = P(i - 1) \cup {p}
    <3>1. \A l : l \in 1..i <=> l \in 1..(i - 1) \/ l = i BY <1>0
    <3> QED BY <3>1
  <2> HIDE DEF a, p, P
  <2>7. Behind(a, p) BY <2>1, <2>3, <2>4, <2>5 DEF Passed
  <2>8. Passed(a, InjectPaced(a, p), {p}) BY <2>1, <2>3, <2>7, InjectPacedTakes
  <2>9. Passed(o, InjectPaced(a, p), P(i - 1) \cup {p}) BY <2>1, <2>8, PassedTwice
  <2> QED BY <2>2, <2>6, <2>9
<1> HIDE DEF Fine
<1>5. Fine(N)
  <2> SUFFICES ASSUME S # {} PROVE FALSE BY <1>0
  <2>1. S \in SUBSET Nat BY <1>0
  <2>2. PICK k \in S : \A y \in S : k <= y
    <3> HIDE DEF S
    <3> QED BY <2>1, LeastNat
  <2>3. k # 0 BY <1>3
  <2>4. k \in 1..N /\ k - 1 \in 0..N /\ ~(k <= k - 1) BY <1>0, <2>2, <2>3
  <2>5. Fine(k - 1) BY <2>2, <2>4
  <2> QED BY <1>4, <2>2, <2>4, <2>5
<1> QED BY <1>1, <1>5 DEF Fine
\* A change of clocks and stamps passes no packet.
LEMMA ClockMoves ==
  ASSUME NEW s, Piped(s), NEW r \in Outs, r.wire = s.wire, r.staged = s.staged, r.held = s.held,
         r.n = s.n
  PROVE  Piped(r) /\ Passed(s, r, {})
<1>1. Len(s.wire) \in Nat /\ s.n \in Nat BY LenProperties DEF Piped, Outs
<1> QED BY <1>1 DEF Piped, Passed, Extends, Behind, Aired

\* A producer's packets are flushed out of the batch when it is done.
LEMMA FlushedTakes ==
  ASSUME NEW o, NEW r, NEW F, Piped(o), Passed(o, r, F)
  PROVE  Passed(o, Flushed(r), F) /\ Flushed(r).staged = <<>> /\ Flushed(r).held = r.held
<1>1. Piped(r) BY DEF Passed
<1>2. Given(r, Flushed(r), {}) /\ Flushed(r).staged = <<>> BY <1>1, FlushedGives
<1>3. Passed(r, Flushed(r), {}) BY <1>1, <1>2, Joined
<1>4. Passed(o, Flushed(r), F \cup {}) BY <1>3, PassedTwice
<1>5. F \cup {} = F OBVIOUS
<1> QED BY <1>2, <1>4, <1>5 DEF Given

-----------------------------------------------------------------------------
(* The transmit path: blocks, datagrams and the watchdog *)

\* What the frame framer may still number, and the datagram framer.
FramesAhead(o, fr) ==
    \A q \in Packets :
        q.stream = "frames" /\ q.seq >= fr.seq /\ q.block >= fr.block => Behind(o, q)
DatagramsAhead(o, d) ==
    \A q \in Packets :
        /\ q.stream = "datagrams" /\ q.seq >= d.seq /\ q.block >= d.block
        /\ q.block = d.block => ~d.open \/ (d.type = "rtp" /\ ~d.marker)
        => Behind(o, q)

Block == [k : Nat \ {0}, r : Nat]
FitsField(b) == b.r # 0 => b.k + b.r <= MaxSymbols

\* What the framer makes of a frame: some source symbols, and repair symbols only where all
\* of them fit the field, whatever the frame's class, its parity and its floor.
LEMMA BlockFits ==
  ASSUME NEW b \in Blocks
  PROVE  b \in Block /\ FitsField(b)
<1>1. PICK f \in [k : 1..MaxSource, class : {"idr", "p", "enhance"}, parity : -1..MaxSymbols,
                  jumbo : BOOLEAN] : b = [k |-> f.k, r |-> Repairs(f)]
  BY DEF Blocks
<1> DEFINE k == f.k
           rate == ClassRate(f.class)
           c == CeilRate(k, rate)
           g == CeilRate(GuardK, rate)
<1> DEFINE room == Larger(MaxSymbols - k, 0)
<1>2. /\ k \in Nat \ {0} /\ f.parity \in -1..MaxSymbols
      /\ MaxSymbols \in Nat /\ MinR \in Nat /\ GuardK \in Nat
  BY <1>1, CraftTxAssumption
<1>3. rate \in Nat BY <1>1, CraftTxAssumption DEF ClassRate
<1> HIDE DEF rate
<1>4. c \in Int /\ g \in Int
  <2>1. k * rate \in Nat /\ GuardK * rate \in Nat BY <1>2, <1>3
  <2> QED BY <2>1 DEF CeilRate
<1>5. Larger(c, MinR) \in Nat BY <1>2, <1>4 DEF Larger
<1>12. room \in Nat /\ (room # 0 => k + room <= MaxSymbols) BY <1>2 DEF Larger
<1>6. RepairCount(k, f.class) \in 0..room
  BY <1>2, <1>5 DEF RepairCount, c, rate, Larger
<1>7. Enforced(k, f.class, f.parity) \in 0..room
  <2>1. CASE f.parity >= 0 /\ f.class # "enhance"
    <3>1. Enforced(k, f.class, f.parity) = Smaller(f.parity, room)
      BY <2>1 DEF Enforced
    <3> HIDE DEF room
    <3> QED BY <1>2, <1>12, <2>1, <3>1 DEF Smaller
  <2>2. CASE ~(f.parity >= 0 /\ f.class # "enhance")
    BY <1>6, <2>2 DEF Enforced
  <2> QED BY <2>1, <2>2
<1> DEFINE r == Enforced(k, f.class, f.parity)
           floor == Larger(MinR, g)
<1>8. Repairs(f) = IF f.jumbo /\ k < GuardK /\ rate # 0 /\ floor <= MaxSymbols - k /\ r < floor
                   THEN floor ELSE r
  BY DEF Repairs, rate
<1>9. floor \in Nat BY <1>2, <1>4 DEF Larger
<1> HIDE DEF floor, r
<1>10. r \in 0..room BY <1>7 DEF r
<1>11. Repairs(f) \in Nat /\ (Repairs(f) # 0 => k + Repairs(f) <= MaxSymbols)
  <2>1. CASE Repairs(f) = r
    <3> HIDE DEF room
    <3> QED BY <1>2, <1>10, <1>12, <2>1
  <2>2. CASE Repairs(f) = floor /\ floor <= MaxSymbols - k BY <1>2, <1>9, <2>2
  <2> QED BY <1>8, <2>1, <2>2
<1> QED BY <1>1, <1>2, <1>11 DEF Block, FitsField

\* The symbols of a block are packets in order, numbered from the framer's next.
LEMMA SymbolsChain ==
  ASSUME NEW b \in Block, FitsField(b), NEW size, size = b.k + b.r,
         framer \in [seq : Nat, block : Nat]
  PROVE  /\ Symbols(b) \in Seq(Packets) /\ Len(Symbols(b)) = size
         /\ Chain(Symbols(b))
         /\ \A i \in 1..size :
              /\ Symbols(b)[i].stream = "frames" /\ Symbols(b)[i].block = framer.block
              /\ Symbols(b)[i].seq = framer.seq + i - 1
              /\ Symbols(b)[i].eob => i = size
<1> DEFINE ps == Symbols(b)
<1>0. /\ MaxSymbols \in Nat /\ size \in Nat /\ framer.seq \in Nat /\ framer.block \in Nat
      /\ b.k \in Nat /\ b.r \in Nat
  BY CraftTxAssumption DEF Block
<1>1. \A i \in 1..size :
        ps[i] = [stream |-> "frames", video |-> TRUE, seq |-> framer.seq + i - 1,
                 block |-> framer.block, eob |-> i = size, repair |-> i > b.k, n |-> 0]
  BY DEF Symbols, Packet
<1>2. \A i \in 1..size : framer.seq + i - 1 \in Nat BY <1>0
<1>3. ASSUME NEW i \in 1..size
      PROVE  /\ ps[i] \in Packets /\ ps[i].stream = "frames" /\ ps[i].block = framer.block
             /\ ps[i].seq = framer.seq + i - 1 /\ (ps[i].eob => i = size)
             /\ (ps[i].repair => i > b.k)
  <2> DEFINE e == i = size
             m == i > b.k
             s == framer.seq + i - 1
  <2>1. ps[i] = [stream |-> "frames", video |-> TRUE, seq |-> s, block |-> framer.block,
                 eob |-> e, repair |-> m, n |-> 0]
    BY <1>1
  <2>2. e \in BOOLEAN /\ m \in BOOLEAN /\ s \in Nat BY <1>2
  <2> HIDE DEF e, m, s, ps
  <2>3. /\ ps[i].stream = "frames" /\ ps[i].block = framer.block /\ ps[i].seq = s /\ ps[i].eob = e
        /\ ps[i].repair = m
    BY <2>1
  <2>4. ps[i] \in Packets BY <1>0, <2>1, <2>2 DEF Packets
  <2> QED BY <2>3, <2>4 DEF e, m, s
<1>4. ps \in [1..size -> Packets] BY <1>3 DEF Symbols
<1>5. ps \in Seq(Packets) BY <1>0, <1>4
<1>6. Len(ps) = size BY <1>0, <1>4, <1>5, LenProperties DEF Symbols
<1> HIDE DEF ps
<1>7. \A i \in 1..size : /\ ps[i].stream = "frames" /\ ps[i].block = framer.block
                         /\ ps[i].seq = framer.seq + i - 1 /\ (ps[i].eob => i = size)
                         /\ (ps[i].repair => i > b.k)
  BY <1>3
<1>8. Chain(ps)
  <2> SUFFICES ASSUME NEW i \in 1..size, NEW j \in 1..size, i < j PROVE Follows(ps[i], ps[j])
    BY <1>6 DEF Chain
  <2>1. ~ps[i].eob BY <1>0, <1>7
  <2>2. ps[i].seq < ps[j].seq BY <1>0, <1>7
  <2>3. ps[j].repair => ps[j].seq - ps[i].seq < MaxSymbols
    <3> SUFFICES ASSUME ps[j].repair PROVE ps[j].seq - ps[i].seq < MaxSymbols OBVIOUS
    <3>1. j > b.k /\ j <= b.k + b.r BY <1>0, <1>7
    <3>2. b.r # 0 BY <1>0, <3>1
    <3>3. b.k + b.r <= MaxSymbols BY <3>2 DEF FitsField
    <3> QED BY <1>0, <1>7, <3>1, <3>3
  <2> QED BY <2>1, <2>2, <2>3 DEF Follows
<1> QED BY <1>5, <1>6, <1>7, <1>8 DEF ps

SymbolSet(b) == {Symbols(b)[i] : i \in 1..Len(Symbols(b))}

\* One frame: its symbols are taken, and whatever the framer numbers next may follow.
LEMMA FrameTakes ==
  ASSUME NEW b \in Block, FitsField(b), NEW size, size = b.k + b.r,
         framer \in [seq : Nat, block : Nat], Piped(out), FramesAhead(out, framer)
  PROVE  /\ Passed(out, InjectAll(out, Symbols(b)), SymbolSet(b))
         /\ \A p \in SymbolSet(b) : p.stream = "frames"
         /\ FramesAhead(InjectAll(out, Symbols(b)),
                        [seq |-> framer.seq + size, block |-> framer.block + 1])
<1> DEFINE ps == Symbols(b)
           F == {ps[i] : i \in 1..Len(ps)}
           r == InjectAll(out, ps)
           fr == [seq |-> framer.seq + size, block |-> framer.block + 1]
<1>0. size \in Nat /\ framer.seq \in Nat /\ framer.block \in Nat BY DEF Block
<1>1. /\ ps \in Seq(Packets) /\ Len(ps) = size /\ Chain(ps)
      /\ \A i \in 1..size :
              /\ ps[i].stream = "frames" /\ ps[i].block = framer.block
              /\ ps[i].seq = framer.seq + i - 1
  BY SymbolsChain
<1> HIDE DEF ps
<1>2. \A i \in 1..Len(ps) : ps[i] \in Packets BY <1>1, ElementOfSeq
<1>3. \A i \in 1..Len(ps) : Behind(out, ps[i])
  <2> TAKE i \in 1..Len(ps)
  <2>1. ps[i].seq >= framer.seq /\ ps[i].block >= framer.block BY <1>0, <1>1
  <2> QED BY <1>1, <1>2, <2>1 DEF FramesAhead
<1>4. Passed(out, r, F) BY <1>1, <1>3, InjectAllTakes
<1>5. \A p \in F : p.stream = "frames" BY <1>1
<1>6. FramesAhead(r, fr)
  <2> SUFFICES ASSUME NEW q \in Packets, q.stream = "frames", q.seq >= framer.seq + size,
                      q.block >= framer.block + 1
               PROVE  Behind(r, q)
    BY DEF FramesAhead
  <2>0. q.seq \in Nat /\ q.block \in Nat BY DEF Packets
  <2>1. q.seq >= framer.seq /\ q.block >= framer.block BY <1>0, <2>0
  <2>2. Behind(out, q) BY <2>1 DEF FramesAhead
  <2>3. \A i \in 1..Len(ps) : Follows(ps[i], q)
    <3> TAKE i \in 1..Len(ps)
    <3>1. ps[i].seq < q.seq /\ ps[i].block # q.block BY <1>0, <1>1, <2>0
    <3> QED BY <3>1 DEF Follows
  <2>4. \A p \in F : Follows(p, q) BY <2>3
  <2> HIDE DEF F, r
  <2> QED BY <1>4, <2>2, <2>4 DEF Passed
<1> QED BY <1>4, <1>5, <1>6 DEF ps, SymbolSet

\* Packets of one stream do not bind the framer of the other.
LEMMA OtherStream ==
  ASSUME NEW o, NEW r, NEW F, Passed(o, r, F)
  PROVE  /\ \A fr : (\A p \in F : p.stream # "frames") /\ FramesAhead(o, fr) => FramesAhead(r, fr)
         /\ \A d : (\A p \in F : p.stream # "datagrams") /\ DatagramsAhead(o, d)
                    => DatagramsAhead(r, d)
<1>1. \A q \in Packets : (\A p \in F : p.stream # q.stream) => \A p \in F : Follows(p, q)
  BY DEF Follows
<1>2. \A q \in Packets : Behind(o, q) /\ (\A p \in F : p.stream # q.stream) => Behind(r, q)
  BY <1>1 DEF Passed
<1> QED BY <1>2 DEF FramesAhead, DatagramsAhead
\* One datagram: its packet is taken, and whatever the framer numbers next may follow.
LEMMA DatagramTakes ==
  ASSUME NEW ts \in 0..2, NEW marker \in BOOLEAN, Datagram(ts, marker), Piped(out),
         datagrams \in [type : {"rtp", "audio"}, seq : Nat, block : Nat, open : BOOLEAN,
                       marker : BOOLEAN, ts : Nat],
         DatagramsAhead(out, datagrams)
  PROVE  /\ \E F : /\ Passed(out, out', F)
                   /\ \A p \in F : p.stream = "datagrams"
         /\ out'.staged = <<>> /\ DatagramsAhead(out', datagrams')
         /\ datagrams' \in [type : {"rtp", "audio"}, seq : Nat, block : Nat, open : BOOLEAN,
                            marker : BOOLEAN, ts : Nat]
<1> DEFINE d == datagrams
           opens == \/ d.type = "audio" \/ ~d.open \/ d.marker
                    \/ ts # 0 /\ d.ts # 0 /\ ts # d.ts
           ends == d.type = "audio" \/ ts = 0 \/ marker
           block == IF opens /\ d.open THEN d.block + 1 ELSE d.block
           v == d.type = "rtp"
           p == Packet("datagrams", v, d.seq, block, ends)
           r == InjectPaced(out, p)
           mk == IF v THEN ends ELSE d.marker
           s == IF v /\ ts # 0 THEN ts ELSE d.ts
           k == d.seq + 1
<1>1. /\ out' = Flushed(r)
      /\ datagrams' = [d EXCEPT !.seq = k, !.block = block, !.open = TRUE, !.marker = mk, !.ts = s]
  BY DEF Datagram
<1>2. d.seq \in Nat /\ d.block \in Nat /\ d.ts \in Nat OBVIOUS
<1>3. block \in Nat /\ k \in Nat /\ s \in Nat /\ block >= d.block BY <1>2
<1>4. ends \in BOOLEAN /\ v \in BOOLEAN OBVIOUS
<1>5. mk \in BOOLEAN BY <1>4
<1>6. block = d.block => ~d.open \/ (d.type = "rtp" /\ ~d.marker)
  <2>1. d.type \in {"rtp", "audio"} OBVIOUS
  <2>2. ~(d.type = "rtp" /\ ~d.marker) => opens BY <2>1, Zenon
  <2> HIDE DEF opens
  <2>3. d.block + 1 # d.block BY <1>2
  <2>4. ASSUME opens, d.open PROVE block # d.block BY <2>3, <2>4
  <2> SUFFICES ASSUME block = d.block, d.open PROVE d.type = "rtp" /\ ~d.marker
    OBVIOUS
  <2>5. ~opens BY <2>4
  <2> QED BY <2>2, <2>5
<1>7. (v <=> d.type = "rtp") /\ (~v => ends) OBVIOUS
<1>8. v => (mk <=> ends) OBVIOUS
<1> HIDE DEF block, ends, v, mk, s, opens
<1>9. p \in Packets /\ p.stream = "datagrams" /\ p.seq = d.seq /\ p.block = block /\ p.eob = ends
  BY <1>2, <1>3, <1>4 DEF Packet, Packets
<1> HIDE DEF p
<1>10. Behind(out, p) BY <1>2, <1>3, <1>6, <1>9 DEF DatagramsAhead
<1>11. Passed(out, r, {p}) BY <1>9, <1>10, InjectPacedTakes
<1> HIDE DEF r
<1>12. Passed(out, out', {p}) /\ out'.staged = <<>> BY <1>1, <1>11, FlushedTakes
<1>13. /\ datagrams' \in [type : {"rtp", "audio"}, seq : Nat, block : Nat, open : BOOLEAN,
                            marker : BOOLEAN, ts : Nat]
       /\ datagrams'.seq = k /\ datagrams'.block = block /\ datagrams'.open
       /\ datagrams'.marker = mk /\ datagrams'.type = d.type
  <2> HIDE DEF k
  <2> QED BY <1>1, <1>3, <1>5
<1>14. DatagramsAhead(out', datagrams')
  <2> SUFFICES ASSUME NEW q \in Packets, q.stream = "datagrams", q.seq >= k, q.block >= block,
                      q.block = block => d.type = "rtp" /\ ~mk
               PROVE  Behind(out', q)
    BY <1>13 DEF DatagramsAhead
  <2>0. q.seq \in Nat /\ q.block \in Nat BY DEF Packets
  <2>1. q.seq >= d.seq /\ q.block >= d.block /\ d.seq < q.seq BY <1>2, <1>3, <2>0
  <2>2. q.block = d.block => block = d.block BY <1>2, <1>3, <2>0
  <2>3. Behind(out, q) BY <1>6, <2>1, <2>2 DEF DatagramsAhead
  <2>4. ends => block # q.block BY <1>7, <1>8
  <2>5. Follows(p, q) BY <1>9, <2>1, <2>4 DEF Follows
  <2> QED BY <1>12, <2>3, <2>5 DEF Passed
<1> QED BY <1>9, <1>12, <1>13, <1>14
-----------------------------------------------------------------------------
(* The transmit path: the invariant *)

\* The watchdog's window started within what was handed over and aired; every counted window
\* since the last completion carried its submissions.
WedgeCounts(w, o) ==
    /\ ~w.primed => ~w.proven /\ w.run = 0 /\ w.done = 0
    /\ w.sub <= o.n /\ w.done <= Progress(o)
    /\ w.proven => w.done >= 1
    /\ w.run > 0 => w.proven
    /\ w.done >= 1 => o.wire[w.done].n + w.run * MinSubmits <= w.sub

TXTypeOK ==
    /\ pass \in [at : {"top", "polled", "ingress", "drain", "exited"}, paused : BOOLEAN]
    /\ framer \in [seq : Nat, block : Nat]
    /\ datagrams \in [type : {"rtp", "audio"}, seq : Nat, block : Nat, open : BOOLEAN,
                      marker : BOOLEAN, ts : Nat]
    /\ radio \in [does : {"air", "refuse", "wedge"}, reports : BOOLEAN]
    /\ wedge \in [primed : BOOLEAN, proven : BOOLEAN, wedged : BOOLEAN, run : Nat, next : Nat,
                  sub : Nat, done : Nat]

TXInv ==
    /\ TXTypeOK
    /\ Piped(out) /\ out.staged = <<>>
    /\ FramesAhead(out, framer) /\ DatagramsAhead(out, datagrams)
    /\ BacklogBounded
    /\ WedgeCounts(wedge, out)
    /\ pass.at # "exited" => wedge.run < ExitWindows
    /\ WedgeEarned

Wedges == [primed : BOOLEAN, proven : BOOLEAN, wedged : BOOLEAN, run : Nat, next : Nat,
           sub : Nat, done : Nat]

\* Elements on the air are packets with numbers.
LEMMA AirNumbers ==
  ASSUME NEW o, Piped(o)
  PROVE  /\ Len(o.wire) \in Nat /\ o.n \in Nat /\ o.stamp \in Nat /\ o.now \in Nat
         /\ \A i \in 1..Len(o.wire) : o.wire[i].n \in Nat /\ o.wire[i].n <= o.n
         /\ Progress(o) \in Nat /\ Progress(o) <= Len(o.wire)
         /\ o.wire \in Seq(Packets)
<1>1. /\ Len(o.wire) \in Nat /\ o.n \in Nat /\ o.stamp \in Nat /\ o.now \in Nat
      /\ o.wire \in Seq(Packets)
  BY LenProperties DEF Piped, Outs
<1>2. \A i \in 1..Len(o.wire) : o.wire[i] \in Packets BY <1>1, ElementOfSeq
<1>3. \A i \in 1..Len(o.wire) : o.wire[i].n \in Nat BY <1>2 DEF Packets
<1>4. \A i \in 1..Len(o.wire) : o.wire[i].n <= o.n BY DEF Piped, UpTo
<1>5. Progress(o) \in Nat /\ Progress(o) <= Len(o.wire) BY <1>1 DEF Progress
<1> QED BY <1>1, <1>3, <1>4, <1>5

\* What the watchdog counted stays true while packets are handed over.
LEMMA WedgeGrows ==
  ASSUME NEW w \in Wedges, NEW o, NEW r, Piped(o), Piped(r), Extends(o, r), WedgeCounts(w, o)
  PROVE  WedgeCounts(w, r)
<1>1. /\ Len(o.wire) \in Nat /\ o.n \in Nat /\ Len(r.wire) \in Nat /\ r.n \in Nat
      /\ Progress(o) \in Nat /\ Progress(o) <= Len(o.wire)
  BY AirNumbers
<1>2. w.sub \in Nat /\ w.done \in Nat BY DEF Wedges
<1>3. w.sub <= o.n /\ w.done <= Progress(o) BY DEF WedgeCounts
<1>4. o.n <= r.n /\ Len(o.wire) <= Len(r.wire) /\ \A i \in 1..Len(o.wire) : r.wire[i] = o.wire[i]
  BY DEF Extends
<1>5. w.sub <= r.n BY <1>1, <1>2, <1>3, <1>4
<1>6. Progress(o) <= Progress(r) /\ Progress(r) \in Nat BY <1>1, <1>4 DEF Progress
<1>7. w.done <= Progress(r) BY <1>1, <1>2, <1>3, <1>6
<1>8. w.done >= 1 => r.wire[w.done] = o.wire[w.done] BY <1>1, <1>2, <1>3, <1>4
<1> QED BY <1>5, <1>7, <1>8 DEF WedgeCounts

\* poll: the verdict keeps the account, and counts a window only against a radio that was
\* seen completing.
LEMMA PolledCounts ==
  ASSUME wedge \in Wedges, NEW o, Piped(o), WedgeCounts(wedge, o), out.stamp \in Nat
  PROVE  /\ Polled(o) \in Wedges /\ WedgeCounts(Polled(o), o)
         /\ Polled(o) = wedge \/ Polled(o).done = Progress(o)
<1> DEFINE a == out.stamp + WedgeWindow
           b == o.n
           c == Progress(o)
           w == wedge
<1>0. /\ a \in Nat /\ b \in Nat /\ c \in Nat /\ MinSubmits \in Nat /\ c <= Len(o.wire)
      /\ \A i \in 1..Len(o.wire) : o.wire[i].n \in Nat /\ o.wire[i].n <= o.n
      /\ Len(o.wire) \in Nat
  <2>1. a \in Nat /\ MinSubmits \in Nat BY CraftTxAssumption
  <2> HIDE DEF a
  <2> QED BY <2>1, AirNumbers
<1>1. w.run \in Nat /\ w.sub \in Nat /\ w.done \in Nat /\ w.sub <= b /\ w.done <= c
  BY DEF Wedges, WedgeCounts
<1>2. c >= 1 => o.wire[c].n \in Nat /\ o.wire[c].n <= b BY <1>0
<1> HIDE DEF a
<1>3. CASE ~wedge.primed
  <2> DEFINE pr == c > 0
             u == [wedge EXCEPT !.primed = TRUE, !.proven = pr]
             x == [u EXCEPT !.next = a, !.sub = b, !.done = c]
  <2>1. Polled(o) = x BY <1>3 DEF Polled, a
  <2>2. pr \in BOOLEAN OBVIOUS
  <2>3. pr => c >= 1 BY <1>0
  <2> HIDE DEF pr
  <2>4. u \in Wedges /\ u.primed /\ u.proven = pr /\ u.run = wedge.run BY <2>2 DEF Wedges
  <2> HIDE DEF u, b, c
  <2>x. x = [u EXCEPT !.next = a, !.sub = b, !.done = c] OBVIOUS
  <2> HIDE DEF x
  <2>5. x \in Wedges /\ x.sub = b /\ x.done = c /\ x.run = u.run /\ x.proven = u.proven /\ x.primed = u.primed
    BY <1>0, <2>4, <2>x DEF Wedges
  <2>6. x.run = 0 BY <1>3, <2>4, <2>5 DEF WedgeCounts
  <2> HIDE DEF x, c
  <2>7. c >= 1 => o.wire[c].n + 0 * MinSubmits <= b BY <1>0, <1>2
  <2>8. WedgeCounts(x, o)
    <3>1. x.sub <= o.n /\ x.done <= Progress(o) BY <1>0, <2>5 DEF b, c
    <3>2. ~(x.run > 0) BY <2>6
    <3> QED BY <2>3, <2>4, <2>5, <2>6, <2>7, <3>1, <3>2 DEF WedgeCounts
  <2> QED BY <2>1, <2>5, <2>8 DEF c
<1>4. CASE wedge.primed /\ out.stamp < wedge.next
  <2>1. Polled(o) = wedge BY <1>4 DEF Polled
  <2> QED BY <2>1
<1>5. CASE wedge.primed /\ ~(out.stamp < wedge.next)
  <2> DEFINE j == Judge(wedge, b, c)
             x == [j EXCEPT !.next = a, !.sub = b, !.done = c]
  <2>1. Polled(o) = x BY <1>5 DEF Polled, a
  <2>2. /\ j \in Wedges /\ j.primed /\ j.run \in Nat
        /\ j.proven => c >= 1
        /\ j.run > 0 => j.proven
        /\ c >= 1 => o.wire[c].n + j.run * MinSubmits <= b
    <3>1. CASE c > w.done
      <4>1. j = [wedge EXCEPT !.proven = TRUE, !.wedged = FALSE, !.run = 0] BY <1>0, <1>1, <3>1 DEF Judge
      <4> HIDE DEF j
      <4>2. j \in Wedges /\ j.primed /\ j.run = 0 /\ j.proven BY <1>5, <4>1 DEF Wedges
      <4>3. c >= 1 BY <1>0, <1>1, <3>1
      <4> HIDE DEF c, b
      <4>4. o.wire[c].n + 0 * MinSubmits <= b BY <1>0, <1>2, <4>3
      <4> QED BY <4>2, <4>3, <4>4
    <3>2. CASE c = w.done /\ b - w.sub >= MinSubmits /\ w.proven
      <4> DEFINE k == wedge.run + 1
      <4>0. k \in Nat BY <1>1
      <4>1. j = [wedge EXCEPT !.wedged = TRUE, !.run = k]
        BY <1>0, <1>1, <3>2 DEF Judge
      <4> HIDE DEF j, k
      <4>2. j \in Wedges /\ j.primed /\ j.run = k /\ j.proven BY <1>5, <3>2, <4>0, <4>1 DEF Wedges
      <4>3. c >= 1 BY <3>2 DEF WedgeCounts
      <4>4. o.wire[c].n + w.run * MinSubmits <= w.sub BY <3>2, <4>3 DEF WedgeCounts
      <4> DEFINE y == o.wire[c].n
                 z == w.run * MinSubmits
      <4>5. z \in Nat /\ k * MinSubmits = z + MinSubmits BY <1>0, <1>1 DEF k
      <4>6. y \in Nat BY <1>2, <4>3
      <4>7. y + z <= w.sub BY <4>4
      <4> HIDE DEF y, z, b, c, w
      <4>8. y + (z + MinSubmits) <= b BY <1>0, <1>1, <3>2, <4>5, <4>6, <4>7
      <4> QED BY <4>2, <4>3, <4>5, <4>8, <4>0 DEF y
    <3>3. CASE ~(c > w.done) /\ ~(c = w.done /\ b - w.sub >= MinSubmits /\ w.proven)
      <4>1. j = wedge BY <3>3 DEF Judge
      <4>2. c = w.done BY <1>0, <1>1, <3>3
      <4>3. c >= 1 => o.wire[c].n + w.run * MinSubmits <= w.sub BY <4>2 DEF WedgeCounts
      <4> DEFINE y == o.wire[c].n
                 z == w.run * MinSubmits
      <4>4. z \in Nat BY <1>0, <1>1
      <4>5. c >= 1 => y \in Nat /\ y + z <= w.sub BY <1>2, <4>3
      <4>6. (w.proven => w.done >= 1) /\ (w.run > 0 => w.proven) BY DEF WedgeCounts
      <4> HIDE DEF y, z, j
      <4>7. c >= 1 => y + z <= b
        <5> HIDE DEF b, c, w
        <5> QED BY <1>0, <1>1, <4>4, <4>5
      <4> QED BY <1>1, <1>5, <4>1, <4>2, <4>6, <4>7 DEF y, z
    <3> QED BY <3>1, <3>2, <3>3
  <2> HIDE DEF j, b, c
  <2>x. x = [j EXCEPT !.next = a, !.sub = b, !.done = c] OBVIOUS
  <2> HIDE DEF x
  <2>3. x \in Wedges /\ x.sub = b /\ x.done = c /\ x.run = j.run /\ x.proven = j.proven /\ x.primed = j.primed
    BY <1>0, <2>2, <2>x DEF Wedges
  <2> HIDE DEF x
  <2>4. WedgeCounts(x, o)
    <3>1. x.sub <= o.n /\ x.done <= Progress(o) BY <1>0, <2>3 DEF b, c
    <3> QED BY <2>2, <2>3, <3>1 DEF WedgeCounts
  <2> QED BY <2>1, <2>3, <2>4 DEF c
<1> QED BY <1>3, <1>4, <1>5
\* The start: nothing sent, nothing held, the watchdog not anchored.
LEMMA TransmitInit == TXInit => TXInv
<1> SUFFICES ASSUME TXInit PROVE TXInv OBVIOUS
<1> USE DEF TXInit
<1>1. TXTypeOK
  <2>1. pass \in [at : {"top", "polled", "ingress", "drain", "exited"}, paused : BOOLEAN]
    OBVIOUS
  <2>2. framer \in [seq : Nat, block : Nat] OBVIOUS
  <2>3. datagrams \in [type : {"rtp", "audio"}, seq : Nat, block : Nat, open : BOOLEAN,
                      marker : BOOLEAN, ts : Nat]
    <3>1. datagrams \in [type : {"rtp", "audio"}, seq : {0}, block : {0}, open : {FALSE},
                         marker : {FALSE}, ts : {0}]
      OBVIOUS
    <3>2. datagrams = [type |-> datagrams.type, seq |-> 0, block |-> 0, open |-> FALSE,
                       marker |-> FALSE, ts |-> 0] /\ datagrams.type \in {"rtp", "audio"}
      BY <3>1
    <3>3. 0 \in Nat /\ FALSE \in BOOLEAN OBVIOUS
    <3>4. \A x \in {"rtp", "audio"}, k \in Nat, b \in BOOLEAN :
             [type |-> x, seq |-> k, block |-> k, open |-> b, marker |-> b, ts |-> k]
             \in [type : {"rtp", "audio"}, seq : Nat, block : Nat, open : BOOLEAN,
                 marker : BOOLEAN, ts : Nat]
      OBVIOUS
    <3> QED BY <3>2, <3>3, <3>4, Zenon
  <2>4. radio \in [does : {"air", "refuse", "wedge"}, reports : BOOLEAN] OBVIOUS
  <2>5. wedge \in [primed : BOOLEAN, proven : BOOLEAN, wedged : BOOLEAN, run : Nat, next : Nat,
                  sub : Nat, done : Nat]
    OBVIOUS
  <2> QED BY <2>1, <2>2, <2>3, <2>4, <2>5 DEF TXTypeOK
<1>2. out \in Outs BY EmptySeq DEF Outs
<1>3. out.wire = <<>> /\ out.staged = <<>> /\ out.held = <<>> /\ out.n = 0 OBVIOUS
<1>4. Piped(out) BY <1>2, <1>3, ShortQueues DEF Piped
<1>5. \A q : Behind(out, q) BY <1>3, ShortQueues DEF Behind, Aired
<1>6. FramesAhead(out, framer) /\ DatagramsAhead(out, datagrams)
  BY <1>5 DEF FramesAhead, DatagramsAhead
<1>7. Progress(out) \in Nat BY <1>4, AirNumbers
<1>8. /\ wedge.primed = FALSE /\ wedge.proven = FALSE /\ wedge.run = 0 /\ wedge.done = 0
      /\ wedge.sub = 0 /\ pass.at = "top"
  OBVIOUS
<1>9. WedgeCounts(wedge, out) BY <1>3, <1>7, <1>8 DEF WedgeCounts
<1>10. wedge.run < ExitWindows
  <2>1. ExitWindows \in Nat \ {0} BY CraftTxAssumption
  <2> QED BY <1>8, <2>1
<1> QED BY <1>1, <1>3, <1>4, <1>6, <1>8, <1>9, <1>10 DEF TXInv, BacklogBounded, WedgeEarned

\* A step that gives packets to the loop, of streams whose framers still run ahead.
LEMMA LoopKeeps ==
  ASSUME TXInv, NEW F, Passed(out, out', F), out'.staged = <<>>, wedge' = wedge, radio' = radio,
         TXTypeOK', FramesAhead(out', framer'), DatagramsAhead(out', datagrams'),
         BacklogBounded', pass.at # "exited", pass'.at # "exited"
  PROVE  TXInv'
<1>1. Piped(out') /\ Extends(out, out') BY DEF Passed
<1>2. wedge \in Wedges BY DEF TXInv, TXTypeOK, Wedges
<1>3. WedgeCounts(wedge, out') BY <1>1, <1>2, WedgeGrows DEF TXInv
<1>4. WedgeCounts(wedge, out)' BY <1>3 DEF WedgeCounts, Progress
<1>5. wedge'.run < ExitWindows BY DEF TXInv
<1>6. WedgeEarned' BY DEF WedgeEarned
<1>7. Piped(out)' BY <1>1
<1>8. FramesAhead(out, framer)' /\ DatagramsAhead(out, datagrams)' OBVIOUS
<1> QED BY <1>4, <1>5, <1>6, <1>7, <1>8 DEF TXInv

\* The head of a pass flushes what is held and batched.
LEMMA BeginPassKeeps == TXInv /\ BeginPass => TXInv'
<1> SUFFICES ASSUME TXInv, BeginPass PROVE TXInv' OBVIOUS
<1> DEFINE k == out.now + 1
           a == [out EXCEPT !.now = k, !.stamp = k]
           h == FlushHeld(a)
           o == Flushed(h)
<1>0. Piped(out) /\ out \in Outs /\ out.now \in Nat BY DEF TXInv, Piped, Outs
<1>1. PICK dt \in {0, PollMax}, paused \in BOOLEAN :
        /\ out' = [o EXCEPT !.now = @ + dt]
        /\ pass' = [at |-> "polled", paused |-> paused]
        /\ UNCHANGED <<framer, datagrams, radio, wedge>> /\ pass.at = "top"
  BY <1>0 DEF BeginPass, Outs
<1>2. k \in Nat BY <1>0
<1> HIDE DEF k
<1>3. /\ a \in Outs /\ a.wire = out.wire /\ a.staged = out.staged /\ a.held = out.held
      /\ a.n = out.n
  BY <1>0, <1>2 DEF Outs
<1> HIDE DEF a
<1>4. Piped(a) /\ Passed(out, a, {}) BY <1>0, <1>3, ClockMoves
<1>5. Passed(a, h, {}) /\ Len(h.held) < Skip BY <1>4, FlushHeldTakes
<1> HIDE DEF h
<1>6. {} \cup {} = {} OBVIOUS
<1>7. Passed(out, h, {}) BY <1>0, <1>4, <1>5, <1>6, PassedTwice
<1>8. Passed(out, o, {}) /\ o.staged = <<>> /\ o.held = h.held BY <1>0, <1>7, FlushedTakes
<1> HIDE DEF o
<1>9. Piped(o) /\ o \in Outs /\ o.now \in Nat BY <1>8 DEF Passed, Piped, Outs
<1> DEFINE l == o.now + dt
<1>10. l \in Nat BY <1>9, CraftTxAssumption
<1>11. out' = [o EXCEPT !.now = l] BY <1>1
<1> HIDE DEF l
<1>12. /\ out' \in Outs /\ out'.wire = o.wire /\ out'.staged = o.staged /\ out'.held = o.held
       /\ out'.n = o.n
  BY <1>9, <1>10, <1>11 DEF Outs
<1>13. Passed(o, out', {}) BY <1>9, <1>12, ClockMoves
<1>14. Passed(out, out', {}) BY <1>0, <1>6, <1>8, <1>13, PassedTwice
<1>15. FramesAhead(out', framer) /\ DatagramsAhead(out', datagrams)
  BY <1>14, OtherStream DEF TXInv
<1>16. TXTypeOK' BY <1>1 DEF TXInv, TXTypeOK
<1>17. BacklogBounded' BY <1>5, <1>8, <1>12 DEF BacklogBounded
<1> QED BY <1>1, <1>8, <1>12, <1>14, <1>15, <1>16, <1>17, LoopKeeps

\* A datagram, or one left unread by a pause.
LEMMA IngressKeeps == TXInv /\ Ingress => TXInv'
<1> SUFFICES ASSUME TXInv, Ingress PROVE TXInv' OBVIOUS
<1>0. pass.at \in {"polled", "ingress"} /\ UNCHANGED <<framer, radio, wedge>> BY DEF Ingress
<1>1. CASE UNCHANGED <<pass, out, datagrams, budget>>
  <2>1. TXTypeOK' BY <1>0, <1>1 DEF TXInv, TXTypeOK
  <2> QED BY <1>0, <1>1, <2>1 DEF TXInv, FramesAhead, DatagramsAhead, BacklogBounded, WedgeCounts,
                                 WedgeEarned, Progress, Behind, Aired, Piped
<1>2. CASE /\ pass' = [pass EXCEPT !.at = "ingress"]
           /\ \E ts \in 0..2, marker \in BOOLEAN : Datagram(ts, marker)
  <2>1. PICK ts \in 0..2, marker \in BOOLEAN : Datagram(ts, marker) BY <1>2
  <2>2. /\ Piped(out) /\ DatagramsAhead(out, datagrams) /\ FramesAhead(out, framer)
        /\ datagrams \in [type : {"rtp", "audio"}, seq : Nat, block : Nat, open : BOOLEAN,
                          marker : BOOLEAN, ts : Nat]
    BY DEF TXInv, TXTypeOK
  <2>3. /\ \E F : Passed(out, out', F) /\ \A p \in F : p.stream = "datagrams"
        /\ out'.staged = <<>> /\ DatagramsAhead(out', datagrams')
        /\ datagrams' \in [type : {"rtp", "audio"}, seq : Nat, block : Nat, open : BOOLEAN,
                           marker : BOOLEAN, ts : Nat]
    BY <2>1, <2>2, DatagramTakes
  <2>4. PICK F : Passed(out, out', F) /\ \A p \in F : p.stream = "datagrams" BY <2>3
  <2>5. FramesAhead(out', framer') BY <1>0, <2>2, <2>4, OtherStream
  <2>6. pass \in [at : {"top", "polled", "ingress", "drain", "exited"}, paused : BOOLEAN]
    BY DEF TXInv, TXTypeOK
  <2>7. pass'.at = "ingress" BY <1>2, <2>6
  <2>8. TXTypeOK' BY <1>0, <1>2, <2>3, <2>6 DEF TXInv, TXTypeOK
  <2>9. BacklogBounded' BY <2>7 DEF BacklogBounded
  <2>10. pass.at # "exited" /\ pass'.at # "exited" BY <1>0, <2>7
  <2> QED BY <1>0, <2>3, <2>4, <2>5, <2>8, <2>9, <2>10, LoopKeeps
<1> QED BY <1>1, <1>2 DEF Ingress

\* A frame of the ring, or one that makes no block.
LEMMA DrainKeeps == TXInv /\ Drain => TXInv'
<1> SUFFICES ASSUME TXInv, Drain PROVE TXInv' OBVIOUS
<1>0. pass.at \in {"polled", "ingress", "drain"} /\ UNCHANGED <<datagrams, radio, wedge>>
  BY DEF Drain
<1>1. CASE UNCHANGED <<pass, out, framer, budget>>
  <2>1. TXTypeOK' BY <1>0, <1>1 DEF TXInv, TXTypeOK
  <2> QED BY <1>0, <1>1, <2>1 DEF TXInv, FramesAhead, DatagramsAhead, BacklogBounded, WedgeCounts,
                                 WedgeEarned, Progress, Behind, Aired, Piped
<1>2. CASE \E b \in Blocks :
            /\ out' = Flushed(InjectAll(out, Symbols(b)))
            /\ framer' = [seq |-> framer.seq + b.k + b.r, block |-> framer.block + 1]
            /\ pass' = [pass EXCEPT !.at = "drain"]
  <2>1. PICK b \in Blocks :
            /\ out' = Flushed(InjectAll(out, Symbols(b)))
            /\ framer' = [seq |-> framer.seq + b.k + b.r, block |-> framer.block + 1]
            /\ pass' = [pass EXCEPT !.at = "drain"]
    BY <1>2
  <2> DEFINE size == b.k + b.r
  <2>2. b \in Block /\ FitsField(b) /\ size \in Nat BY BlockFits DEF Block
  <2>17. framer.seq + b.k + b.r = framer.seq + size BY <2>2 DEF Block, TXInv, TXTypeOK
  <2>3. /\ Piped(out) /\ DatagramsAhead(out, datagrams) /\ FramesAhead(out, framer)
        /\ framer \in [seq : Nat, block : Nat]
    BY DEF TXInv, TXTypeOK
  <2> DEFINE r == InjectAll(out, Symbols(b))
             fr == [seq |-> framer.seq + size, block |-> framer.block + 1]
             F == SymbolSet(b)
  <2>4. Passed(out, r, F) /\ (\A p \in F : p.stream = "frames") /\ FramesAhead(r, fr)
    BY <2>2, <2>3, FrameTakes
  <2>5. out' = Flushed(r) /\ framer' = fr BY <2>1, <2>17
  <2>6. framer' \in [seq : Nat, block : Nat] BY <2>2, <2>3, <2>5
  <2> HIDE DEF r, fr, F
  <2>7. Piped(r) BY <2>4 DEF Passed
  <2>8. Passed(out, out', F) /\ out'.staged = <<>> BY <2>3, <2>4, <2>5, FlushedTakes
  <2>9. Passed(r, out', {}) BY <2>5, <2>7, FlushedGives, Joined
  <2>10. FramesAhead(out', framer') BY <2>4, <2>5, <2>9, OtherStream
  <2>11. DatagramsAhead(out', datagrams') BY <1>0, <2>3, <2>4, <2>8, OtherStream
  <2>12. pass \in [at : {"top", "polled", "ingress", "drain", "exited"}, paused : BOOLEAN]
    BY DEF TXInv, TXTypeOK
  <2>13. pass'.at = "drain" BY <2>1, <2>12
  <2>14. TXTypeOK' BY <1>0, <2>1, <2>6, <2>12 DEF TXInv, TXTypeOK
  <2>15. BacklogBounded' BY <2>13 DEF BacklogBounded
  <2>16. pass.at # "exited" /\ pass'.at # "exited" BY <1>0, <2>13
  <2> QED BY <1>0, <2>8, <2>10, <2>11, <2>14, <2>15, <2>16, LoopKeeps
<1> QED BY <1>1, <1>2 DEF Drain

\* The end of the pass: control frames, the last flush, the watchdog's verdict.
LEMMA LateKeeps == TXInv /\ Late => TXInv'
<1> SUFFICES ASSUME TXInv, Late PROVE TXInv' OBVIOUS
<1> DEFINE n == out.now
           o == [out EXCEPT !.stamp = n]
           c == SendNow(o, Control)
           k == out.now + Period
           p == [c EXCEPT !.pausedAt = k]
           paused == pass.paused /\ out.now >= out.pausedAt
           sentWord == IF paused THEN p ELSE o
<1>0. /\ Piped(out) /\ out \in Outs /\ out.now \in Nat /\ out.stamp \in Nat
      /\ wedge \in Wedges /\ pass.at # "exited"
      /\ pass \in [at : {"top", "polled", "ingress", "drain", "exited"}, paused : BOOLEAN]
  BY DEF TXInv, Piped, Outs, TXTypeOK, Wedges, Late
<1>1. PICK ctl \in SUBSET {"echo", "beacon"} :
        LET echoed == IF "echo" \in ctl THEN SendNow(sentWord, Control) ELSE sentWord
            ticked == Flushed(echoed)
            told == IF "beacon" \in ctl THEN Inject(ticked, Control) ELSE ticked
        IN  /\ out' = told /\ wedge' = Polled(told)
            /\ pass' = [pass EXCEPT !.at = IF wedge'.run >= ExitWindows THEN "exited" ELSE "top"]
  BY DEF Late
<1>2. UNCHANGED <<framer, datagrams, radio>> BY DEF Late
<1> DEFINE echoed == IF "echo" \in ctl THEN SendNow(sentWord, Control) ELSE sentWord
           ticked == Flushed(echoed)
           told == IF "beacon" \in ctl THEN Inject(ticked, Control) ELSE ticked
<1>3. /\ out' = told /\ wedge' = Polled(told)
      /\ pass' = [pass EXCEPT !.at = IF wedge'.run >= ExitWindows THEN "exited" ELSE "top"]
  BY <1>1
<1>4. {} \cup {} = {} OBVIOUS
<1>5. k \in Nat /\ n \in Nat BY <1>0, CraftTxAssumption
<1> HIDE DEF k, n, paused
<1>6. /\ o \in Outs /\ o.wire = out.wire /\ o.staged = out.staged /\ o.held = out.held
      /\ o.n = out.n
  BY <1>0, <1>5 DEF Outs
<1> HIDE DEF o
<1>7. Piped(o) /\ Passed(out, o, {}) BY <1>0, <1>6, ClockMoves
<1>8. Passed(o, c, {}) BY <1>7, ControlGives, Joined
<1> HIDE DEF c
<1>9. c \in Outs /\ Piped(c) BY <1>8 DEF Passed, Piped
<1>10. /\ p \in Outs /\ p.wire = c.wire /\ p.staged = c.staged /\ p.held = c.held /\ p.n = c.n
  BY <1>5, <1>9 DEF Outs
<1> HIDE DEF p
<1>11. Passed(c, p, {}) BY <1>9, <1>10, ClockMoves
<1>12. Passed(out, c, {}) BY <1>0, <1>4, <1>7, <1>8, PassedTwice
<1>13. Passed(out, p, {}) BY <1>0, <1>4, <1>11, <1>12, PassedTwice
<1>14. Passed(out, sentWord, {}) BY <1>7, <1>13
<1> HIDE DEF sentWord
<1>15. Passed(out, echoed, {})
  <2>1. Piped(sentWord) BY <1>14 DEF Passed
  <2>2. Passed(sentWord, SendNow(sentWord, Control), {}) BY <2>1, ControlGives, Joined
  <2>3. Passed(out, SendNow(sentWord, Control), {}) BY <1>0, <1>4, <1>14, <2>2, PassedTwice
  <2> QED BY <1>14, <2>3
<1> HIDE DEF echoed
<1>16. Passed(out, ticked, {}) /\ ticked.staged = <<>> BY <1>0, <1>15, FlushedTakes
<1> HIDE DEF ticked
<1>17. Passed(out, told, {}) /\ told.staged = <<>>
  <2>1. Piped(ticked) BY <1>16 DEF Passed
  <2>2. Passed(ticked, Inject(ticked, Control), {}) /\ Inject(ticked, Control).staged = <<>>
    BY <1>16, <2>1, ControlGives, Joined
  <2>3. Passed(out, Inject(ticked, Control), {}) BY <1>0, <1>4, <1>16, <2>2, PassedTwice
  <2> QED BY <1>16, <2>2, <2>3
<1> HIDE DEF told
<1>18. Piped(told) /\ Extends(out, told) BY <1>17 DEF Passed
<1>19. WedgeCounts(wedge, told) BY <1>0, <1>18, WedgeGrows DEF TXInv
<1>20. /\ wedge' \in Wedges /\ WedgeCounts(wedge', told)
       /\ wedge' = wedge \/ wedge'.done = Progress(told)
  BY <1>0, <1>3, <1>18, <1>19, PolledCounts
<1>21. /\ pass' \in [at : {"top", "polled", "ingress", "drain", "exited"}, paused : BOOLEAN]
       /\ pass'.at = IF wedge'.run >= ExitWindows THEN "exited" ELSE "top"
  BY <1>0, <1>3
<1>22. TXTypeOK' BY <1>2, <1>20, <1>21 DEF TXInv, TXTypeOK, Wedges
<1>23. FramesAhead(out', framer) /\ DatagramsAhead(out', datagrams)
  BY <1>3, <1>17, OtherStream DEF TXInv
<1>24. BacklogBounded' BY <1>21 DEF BacklogBounded
<1>25. WedgeCounts(wedge, out)' BY <1>2, <1>3, <1>20 DEF WedgeCounts, Progress
<1>26. wedge'.run \in Nat /\ wedge.run \in Nat /\ ExitWindows \in Nat \ {0} /\ wedge.run < ExitWindows
  BY <1>0, <1>20, CraftTxAssumption DEF Wedges, TXInv
<1>27. pass'.at # "exited" => wedge'.run < ExitWindows BY <1>21, <1>26
<1>28. WedgeEarned'
  <2> SUFFICES ASSUME pass'.at = "exited"
               PROVE  /\ radio.reports /\ told.wire # <<>>
                      /\ told.n - told.wire[Len(told.wire)].n >= ExitWindows * MinSubmits
    BY <1>2, <1>3 DEF WedgeEarned
  <2>1. wedge'.run >= ExitWindows BY <1>21
  <2>2. wedge'.done = Progress(told) BY <1>20, <1>26, <2>1
  <2> DEFINE L == Len(told.wire)
             w == wedge'
             y == told.wire[L].n
             m == w.run * MinSubmits
             e == ExitWindows * MinSubmits
  <2>3. w.run > 0 BY <1>26, <2>1
  <2>4. w.done >= 1 /\ w.sub <= told.n /\ told.wire[w.done].n + m <= w.sub
    BY <1>20, <2>3 DEF WedgeCounts
  <2>5. radio.reports /\ w.done = L BY <2>2, <2>4 DEF Progress
  <2>6. /\ L \in Nat /\ told.n \in Nat
        /\ \A i \in 1..L : told.wire[i].n \in Nat
    BY <1>18, AirNumbers
  <2>7. L >= 1 /\ y \in Nat BY <2>4, <2>5, <2>6
  <2>8. told.wire # <<>>
    <3>1. Len(told.wire) # 0 BY <2>6, <2>7
    <3> QED BY <3>1, EmptySeq
  <2>9. m \in Nat /\ e \in Nat /\ m >= e
    <3>0. MinSubmits \in Nat BY CraftTxAssumption
    <3>1. PICK x \in Nat : w.run = ExitWindows + x BY <1>26, <2>1
    <3>2. x * MinSubmits \in Nat /\ e \in Nat BY <1>26, <3>0
    <3>3. m = e + x * MinSubmits BY <1>26, <3>0, <3>1
    <3> HIDE DEF m, e
    <3> QED BY <3>2, <3>3
  <2>10. w.sub \in Nat BY <1>20 DEF Wedges
  <2>11. y + m <= w.sub /\ w.sub <= told.n BY <2>4, <2>5
  <2> HIDE DEF y, m, e, w
  <2>12. told.n - y >= e BY <2>6, <2>7, <2>9, <2>10, <2>11
  <2> QED BY <2>5, <2>8, <2>12 DEF y, e
<1> QED BY <1>2, <1>3, <1>17, <1>18, <1>22, <1>23, <1>24, <1>25, <1>27, <1>28 DEF TXInv

\* A turn of the radio changes what a submission does, not what was submitted.
LEMMA RadioKeeps == TXInv /\ RadioTurns => TXInv'
<1> SUFFICES ASSUME TXInv, RadioTurns PROVE TXInv' OBVIOUS
<1>1. UNCHANGED <<pass, out, framer, datagrams, wedge>> /\ pass.at = "top" BY DEF RadioTurns
<1>2. /\ radio' \in [does : {"air", "refuse", "wedge"}, reports : BOOLEAN]
      /\ radio'.reports = radio.reports
  BY DEF RadioTurns, TXInv, TXTypeOK
<1>3. TXTypeOK' BY <1>1, <1>2 DEF TXInv, TXTypeOK
<1> QED BY <1>1, <1>2, <1>3 DEF TXInv, FramesAhead, DatagramsAhead, BacklogBounded, WedgeCounts,
                                WedgeEarned, Progress, Behind, Aired, Piped

\* The queue in order, the framers ahead of it, and the watchdog's account hold throughout.
LEMMA TransmitInvariant == TXSpec => []TXInv
<1>1. TXInit => TXInv BY TransmitInit
<1>2. TXInv /\ [TXNext]_txVars => TXInv'
  <2> SUFFICES ASSUME TXInv, [TXNext]_txVars PROVE TXInv' OBVIOUS
  <2>1. CASE UNCHANGED txVars
    <3>1. TXTypeOK' BY <2>1 DEF TXInv, TXTypeOK, txVars
    <3> QED BY <2>1, <3>1 DEF txVars, TXInv, FramesAhead, DatagramsAhead, BacklogBounded,
                              WedgeCounts, WedgeEarned, Progress, Behind, Aired, Piped
  <2> QED BY <2>1, BeginPassKeeps, IngressKeeps, DrainKeeps, LateKeeps, RadioKeeps DEF TXNext
<1> QED BY <1>1, <1>2, PTL DEF TXSpec

\* Packets reach the air in the order they were handed over, each stream in sequence order and
\* nothing of a block behind its END_OF_BLOCK; a block with repair symbols fits the field, for
\* frames of any size; the batch is empty between producer calls and the
\* gap's backlog below its override; the process ends for a wedge only when counted windows
\* carried submissions and the radio, once seen completing, completed none.
THEOREM TransmitAlwaysSound == TXSpec => []TransmitSound
<1>1. TXInv => TransmitSound
  <2> SUFFICES ASSUME TXInv PROVE TransmitSound OBVIOUS
  <2> DEFINE w == out.wire
  <2>1. Chain(w) /\ Rising(w) BY DEF TXInv, Piped
  <2>2. WireOrder BY <2>1 DEF WireOrder, Chain, Rising, Follows
  <2>3. ParityFits
    <3>1. Len(w) \in Nat /\ w \in Seq(Packets) BY AirNumbers DEF TXInv
    <3>2. \A i \in 1..Len(w) : w[i] \in Packets BY <3>1, ElementOfSeq
    <3>3. \A i \in 1..Len(w) : w[i].seq \in Nat BY <3>2 DEF Packets
    <3> SUFFICES ASSUME NEW i \in 1..Len(w), NEW j \in 1..Len(w), w[i].stream = "frames",
                        w[j].stream = "frames", w[i].block = w[j].block, w[j].repair
                 PROVE  w[j].seq - w[i].seq < MaxSymbols
      BY DEF ParityFits
    <3>4. MaxSymbols \in Nat \ {0} BY CraftTxAssumption
    <3>5. CASE i < j BY <2>1, <3>5 DEF Chain, Follows
    <3>6. CASE i = j BY <3>3, <3>4, <3>6
    <3>7. CASE j < i
      <4>1. w[j].seq < w[i].seq BY <2>1, <3>7 DEF Chain, Follows
      <4> QED BY <3>3, <3>4, <4>1
    <3> QED BY <3>1, <3>5, <3>6, <3>7
  <2> QED BY <2>2, <2>3 DEF TXInv, NothingStaged, TransmitSound
<1> QED BY <1>1, TransmitInvariant, PTL
=============================================================================
