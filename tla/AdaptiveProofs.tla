--------------------------- MODULE AdaptiveProofs ---------------------------
(* Proofs about Adaptive, for every ladder, every timing and every setup:    *)
(* the encoder never outruns the radio, the cascade climbs only on feedback  *)
(* that is young enough, a claimed craft listens to its claimant, silence    *)
(* ends at the floor, and a locked rung is out of use.                       *)
EXTENDS Adaptive, TLAPS

-----------------------------------------------------------------------------
(* The envelope.                                                             *)

\* Whatever ids the operator pins, the resolved envelope is on the ladder.
LEMMA EnvelopeOnLadder ==
  /\ Lo \in Ladder /\ Hi \in Ladder /\ Lo <= Hi
  /\ SafeFloor \in Ladder
  /\ \A p : BootRung(p) \in Ladder
<1>1. Top \in Nat /\ FloorProfile \in Ladder /\ 0 \in Ladder /\ Top \in Ladder
  BY SelectorConstants DEF Ladder
<1>2. \A id, f : f \in Ladder => RungOfId(id, f) \in Ladder
  BY DEF RungOfId
<1>3. Hi \in Ladder
  BY <1>1, <1>2 DEF Hi
<1>4. Lo \in Ladder /\ Lo <= Hi
  BY <1>1, <1>2, <1>3 DEF Lo, Ladder
<1>5. SafeFloor \in Ladder
  BY <1>1, <1>3, <1>4 DEF SafeFloor, ClampRung
<1>6. ASSUME NEW p PROVE BootRung(p) \in Ladder
  BY <1>1, <1>2 DEF BootRung
<1> QED BY <1>3, <1>4, <1>5, <1>6

\* The ladder has a top.
LEMMA TopIsNat == Top \in Nat
BY SelectorConstants

\* Above the floor there is a rung below, and the floor itself is below.
LEMMA BelowFloor ==
  ASSUME rung \in Ladder, rung > SafeFloor
  PROVE  /\ rung - 1 \in Ladder /\ rung - 1 <= rung
         /\ SafeFloor \in Ladder /\ SafeFloor <= rung
BY TopIsNat, EnvelopeOnLadder DEF Ladder

\* Max of two integers.
LEMMA MaxOfTwo ==
  ASSUME NEW a \in Int, NEW b \in Int
  PROVE  /\ Max({a, b}) \in {a, b}
         /\ Max({a, b}) >= a /\ Max({a, b}) >= b
<1>1. \E x \in {a, b} : \A y \in {a, b} : x >= y
  <2>1. CASE a >= b BY <2>1
  <2>2. CASE b >= a BY <2>2
  <2> QED BY <2>1, <2>2
<1> QED BY <1>1 DEF Max

-----------------------------------------------------------------------------
(* The operating point.                                                      *)

\* What BitrateFits needs to be inductive: a demote in flight has already put
\* the encoder at the pending rung, which is no higher than the committed one.
OpInv ==
  /\ rung \in Ladder /\ pending \in Ladder
  /\ phase \in {"boot", "idle", "lead", "grace"}
  /\ phase = "idle" => bitrate = Rate[rung]
  /\ phase = "lead" => bitrate = Rate[pending] /\ pending <= rung
  /\ phase = "grace" => bitrate <= Rate[rung]

\* The operating point fits in every phase, a demote in flight included.
LEMMA OpInvImplies == OpInv => BitrateFits
<1> SUFFICES ASSUME OpInv PROVE BitrateFits
  OBVIOUS
<1>1. Rate[rung] \in Nat
  BY SelectorConstants DEF OpInv
<1>2. CASE phase = "lead"
  <2>1. bitrate = Rate[pending] /\ Rate[pending] <= Rate[rung]
    BY <1>2, RateMonotone DEF OpInv
  <2> QED BY <1>2, <2>1 DEF BitrateFits
<1>3. CASE phase # "lead"
  BY <1>1, <1>3 DEF OpInv, BitrateFits
<1> QED BY <1>2, <1>3

\* The craft boots on the ladder.
LEMMA OpInvInit == Init => OpInv
<1> SUFFICES ASSUME Init PROVE OpInv
  OBVIOUS
<1>1. rung \in Ladder
  BY EnvelopeOnLadder DEF Init, SelInit
<1>2. pending = 0 /\ phase = "boot" /\ 0 \in Ladder
  BY SelectorConstants DEF Init, SelInit, Ladder
<1> QED BY <1>1, <1>2 DEF OpInv

\* A demote starts from a settled point and goes down.
LEMMA StartDemoteOp ==
  ASSUME OpInv, phase = "idle", NEW target \in Ladder, target <= rung, NEW losses,
         StartDemote(target, losses)
  PROVE  OpInv'
BY DEF OpInv, StartDemote

\* Each arm of the tick keeps the operating point.
LEMMA SelTickOp ==
  ASSUME OpInv, SelTick
  PROVE  OpInv'
<1>1. CASE TickBoot BY <1>1 DEF OpInv, TickBoot
<1>2. CASE TickLead BY <1>2 DEF OpInv, TickLead
<1>3. CASE TickGrace
  BY <1>3, SelectorConstants DEF OpInv, TickGrace
<1>4. CASE TickWaits \/ TickFrozen
  BY <1>4 DEF OpInv, TickWaits, TickFrozen, selVars, opVars
<1>5. CASE TickPinned \/ TickRepin
  <2>1. PICK t \in Ladder : Snap(t)
    BY <1>5, EnvelopeOnLadder DEF TickPinned, TickRepin
  <2>2. phase = "idle"
    BY <1>5 DEF TickPinned, TickRepin, Thawed
  <2> QED BY <2>1, <2>2 DEF OpInv, Snap
<1>6. CASE TickHoldsPin \/ TickFailsafeHolds \/ TickHolds
  BY <1>6 DEF OpInv, TickHoldsPin, TickFailsafeHolds, TickHolds, Idle, opVars
<1>7. CASE TickFailsafe
  <2>1. phase = "idle" /\ rung > SafeFloor /\ StartDemote(rung - 1, rungLoss)
    BY <1>7 DEF TickFailsafe, Adapts, Thawed, FailsafeMoves
  <2>2. rung - 1 \in Ladder /\ rung - 1 <= rung
    BY <2>1, BelowFloor DEF OpInv
  <2> QED BY <2>1, <2>2, StartDemoteOp
<1>8. CASE TickDemote
  <2> DEFINE target == IF DemoteRule = "acute" THEN SafeFloor ELSE rung - 1
  <2>1. phase = "idle" /\ rung > SafeFloor
    BY <1>8 DEF TickDemote, Adapts, Thawed
  <2>2. target \in Ladder /\ target <= rung
    BY <2>1, BelowFloor DEF OpInv
  <2> QED BY <1>8, <2>1, <2>2, StartDemoteOp DEF TickDemote
<1>9. CASE TickPromote
  <2>1. phase = "idle" /\ rung + 1 <= Hi
    BY <1>9 DEF TickPromote, Cascades, Adapts, Thawed, MayPromote, ClimbOpen
  <2>2. rung + 1 \in Ladder
    BY <2>1, TopIsNat, EnvelopeOnLadder DEF OpInv, Ladder
  <2>3. Rate[rung] <= Rate[rung + 1]
    BY <2>2, RateMonotone DEF OpInv, Ladder
  <2> QED BY <1>9, <2>1, <2>2, <2>3 DEF OpInv, TickPromote
<1> QED
  BY <1>1, <1>2, <1>3, <1>4, <1>5, <1>6, <1>7, <1>8, <1>9 DEF SelTick

\* Every input leaves the operating point alone; only the tick moves it.
LEMMA OnlyTickMoves ==
  [Next]_adaptiveVars => Tick \/ UNCHANGED <<rung, phase, pending, bitrate>>
<1>1. ASSUME NEW id, NEW shape, Report(id, shape)
      PROVE  UNCHANGED <<rung, phase, pending, bitrate>>
  BY <1>1 DEF Report, OnReport
<1>2. ASSUME NEW id, Replay(id) PROVE UNCHANGED <<rung, phase, pending, bitrate>>
  BY <1>2 DEF Replay, selVars, opVars
<1>3. ASSUME NEW id, NEW sat, Verdict(id, sat)
      PROVE  UNCHANGED <<rung, phase, pending, bitrate>>
  BY <1>3 DEF Verdict, OnVerdict, opVars
<1>4. ASSUME NEW orig, Claim(orig) PROVE UNCHANGED <<rung, phase, pending, bitrate>>
  BY <1>4 DEF Claim, CsaFreeze, opVars
<1>5. ASSUME NEW c, Retune(c) \/ Release(c)
      PROVE  UNCHANGED <<rung, phase, pending, bitrate>>
  BY <1>5 DEF Retune, Release, OnRfEnvironment, selVars, opVars
<1>6. ASSUME NEW p, Repin(p) PROVE UNCHANGED <<rung, phase, pending, bitrate>>
  BY <1>6 DEF Repin, SetProfilePin, opVars
<1>7. ASSUME HoldRung PROVE UNCHANGED <<rung, phase, pending, bitrate>>
  BY <1>6, <1>7 DEF HoldRung
<1>8. ASSUME Advance \/ UNCHANGED adaptiveVars
      PROVE  UNCHANGED <<rung, phase, pending, bitrate>>
  BY <1>8 DEF Advance, adaptiveVars, selVars, opVars
<1> QED BY <1>1, <1>2, <1>3, <1>4, <1>5, <1>6, <1>7, <1>8 DEF Next

\* Every step keeps the operating point.
LEMMA OpStep == OpInv /\ [Next]_adaptiveVars => OpInv'
<1> SUFFICES ASSUME OpInv, [Next]_adaptiveVars PROVE OpInv'
  OBVIOUS
<1>1. CASE Tick
  BY <1>1, SelTickOp DEF Tick
<1>2. CASE UNCHANGED <<rung, phase, pending, bitrate>>
  BY <1>2 DEF OpInv
<1> QED BY <1>1, <1>2, OnlyTickMoves

\* The encoder is never asked for more than the committed rung carries, and
\* between transitions it is asked for exactly that: for every ladder whose
\* rates grow with the rung, every timing, and every order of reports, pins,
\* freezes and retunes.
THEOREM BitrateAlwaysFits == Spec => []BitrateFits
<1>1. Init => OpInv
  BY OpInvInit
<1>2. OpInv /\ [Next]_adaptiveVars => OpInv'
  BY OpStep
<1>3. OpInv => BitrateFits
  BY OpInvImplies
<1> QED BY <1>1, <1>2, <1>3, PTL DEF Spec

-----------------------------------------------------------------------------
(* Freshness of a climb.                                                     *)

\* What ties the selector's own clocks to the history: the report age is
\* counted from no later than the last report or freeze, and a freeze that was
\* forgotten is over.
FreshInv ==
  /\ now \in Nat /\ lastReport \in Nat /\ csaFreeze \in Nat
  /\ hReportAt \in Nat /\ hFreeze \in Nat
  /\ hFreeze <= now + Settle
  /\ csaFreeze \in {0, hFreeze}
  /\ csaFreeze = 0 => hFreeze <= now
  /\ now > 0
  /\ haveReport => hReportAt # 0
  /\ lastReport <= hReportAt \/ lastReport <= hFreeze

\* At boot there is neither a report nor a freeze.
LEMMA FreshInit == Init => FreshInv
BY AdaptiveConstants DEF Init, SelInit, FreshInv

\* A thaw keeps the report age anchored.
LEMMA ThawFresh ==
  ASSUME FreshInv, Thawed, Thaw, now' = now,
         UNCHANGED <<hReportAt, hFreeze, haveReport>>
  PROVE  FreshInv'
BY DEF FreshInv, Thawed, Thaw, Excused

\* Each arm of the tick keeps the report age anchored.
LEMMA SelTickFresh ==
  ASSUME FreshInv, SelTick, now' = now, UNCHANGED <<hReportAt, hFreeze>>
  PROVE  FreshInv'
<1>1. CASE TickBoot \/ TickLead \/ TickGrace \/ TickWaits \/ TickFrozen
  <2>1. UNCHANGED <<haveReport, lastReport, csaFreeze>>
    BY <1>1 DEF TickBoot, TickLead, TickGrace, TickWaits, TickFrozen, reportVars, selVars
  <2> QED BY <2>1 DEF FreshInv
<1>2. CASE TickPinned \/ TickRepin
  <2>1. Thawed /\ Thaw /\ UNCHANGED haveReport
    BY <1>2 DEF TickPinned, TickRepin, Snap, reportVars
  <2> QED BY <2>1, ThawFresh
<1>3. CASE TickHoldsPin \/ TickFailsafeHolds \/ TickHolds
  <2>1. Thawed /\ Thaw /\ UNCHANGED haveReport
    BY <1>3 DEF TickHoldsPin, TickFailsafeHolds, TickHolds, Cascades, Adapts, Idle, reportVars
  <2> QED BY <2>1, ThawFresh
<1>4. CASE TickFailsafe \/ TickDemote
  <2>1. Thawed /\ Thaw /\ UNCHANGED haveReport
    BY <1>4 DEF TickFailsafe, TickDemote, Adapts, StartDemote, reportVars
  <2> QED BY <2>1, ThawFresh
<1>5. CASE TickPromote
  <2>1. Thawed /\ Thaw /\ UNCHANGED haveReport
    BY <1>5 DEF TickPromote, Cascades, Adapts, reportVars
  <2> QED BY <2>1, ThawFresh
<1> QED BY <1>1, <1>2, <1>3, <1>4, <1>5 DEF SelTick

\* Every step keeps the report age anchored; a claim only extends the freeze.
LEMMA FreshStep == FreshInv /\ [Next]_adaptiveVars => FreshInv'
<1> SUFFICES ASSUME FreshInv, [Next]_adaptiveVars PROVE FreshInv'
  OBVIOUS
<1> DEFINE Frame == UNCHANGED <<now, haveReport, lastReport, csaFreeze, hReportAt, hFreeze>>
<1>1. ASSUME NEW id, NEW shape, Report(id, shape) PROVE FreshInv'
  <2>1. /\ haveReport' = TRUE /\ lastReport' = now /\ hReportAt' = now
        /\ UNCHANGED <<now, csaFreeze, hFreeze>>
    BY <1>1 DEF Report, OnReport, Quiet, envVars
  <2> QED BY <2>1 DEF FreshInv
<1>2. ASSUME NEW id, Replay(id) PROVE Frame
  BY <1>2 DEF Replay, Quiet, envVars, selVars, reportVars
<1>3. ASSUME NEW id, NEW sat, Verdict(id, sat) PROVE Frame
  BY <1>3 DEF Verdict, OnVerdict, Quiet, envVars, histVars, reportVars
<1>4. ASSUME NEW orig, Claim(orig) PROVE FreshInv'
  <2>1. /\ csaFreeze' = Max({csaFreeze, now + Settle}) /\ hFreeze' = now + Settle
        /\ UNCHANGED <<now, haveReport, lastReport, hReportAt>>
    BY <1>4 DEF Claim, CsaFreeze, Event, reportVars
  <2>2. csaFreeze' = now + Settle
    <3>1. csaFreeze \in Int /\ now + Settle \in Int /\ csaFreeze <= now + Settle
      BY AdaptiveConstants DEF FreshInv
    <3>2. /\ Max({csaFreeze, now + Settle}) \in {csaFreeze, now + Settle}
          /\ Max({csaFreeze, now + Settle}) >= now + Settle
      BY <3>1, MaxOfTwo
    <3> QED BY <2>1, <3>1, <3>2
  <2> QED BY <2>1, <2>2, AdaptiveConstants DEF FreshInv
<1>5. ASSUME NEW c, Retune(c) \/ Release(c) PROVE Frame
  BY <1>5 DEF Retune, Release, OnRfEnvironment, Event, histVars, selVars, reportVars
<1>6. ASSUME NEW p, Repin(p) PROVE Frame
  BY <1>6 DEF Repin, SetProfilePin, Event, reportVars
<1>7. ASSUME HoldRung PROVE Frame
  BY <1>6, <1>7 DEF HoldRung
<1>8. ASSUME Tick PROVE FreshInv'
  BY <1>8, SelTickFresh DEF Tick, histVars
<1>9. ASSUME Advance PROVE FreshInv'
  <2>1. now' = now + 1 /\ UNCHANGED <<haveReport, lastReport, csaFreeze, hReportAt, hFreeze>>
    BY <1>9 DEF Advance, selVars, reportVars, histVars
  <2> QED BY <2>1, AdaptiveConstants DEF FreshInv
<1>10. ASSUME UNCHANGED adaptiveVars PROVE Frame
  BY <1>10 DEF adaptiveVars, selVars, reportVars, histVars, envVars
<1>11. ASSUME Frame PROVE FreshInv'
  BY <1>11 DEF FreshInv
<1> QED
  BY <1>1, <1>2, <1>3, <1>4, <1>5, <1>6, <1>7, <1>8, <1>9, <1>10, <1>11 DEF Next

\* A step that climbs is the cascade's promotion.
LEMMA ClimbIsPromote ==
  ASSUME OpInv, [Next]_adaptiveVars, Climbs
  PROVE  TickPromote
<1>1. rung' > rung /\ phase' = "grace" /\ rung' # rung
  BY DEF Climbs, OpInv, Ladder
<1>2. SelTick
  BY <1>1, OnlyTickMoves DEF Tick
<1>3. ~TickLead /\ ~TickPinned /\ ~TickRepin
  BY <1>1 DEF TickLead, TickPinned, TickRepin, Thawed, Snap
<1>4. ~TickBoot /\ ~TickGrace /\ ~TickWaits /\ ~TickFrozen
  BY <1>1 DEF TickBoot, TickGrace, TickWaits, TickFrozen, selVars, opVars
<1>5. ~TickHoldsPin /\ ~TickFailsafeHolds /\ ~TickHolds
  BY <1>1 DEF TickHoldsPin, TickFailsafeHolds, TickHolds, Idle, opVars
<1>6. ~TickFailsafe /\ ~TickDemote
  BY <1>1 DEF TickFailsafe, TickDemote, StartDemote
<1> QED BY <1>2, <1>3, <1>4, <1>5, <1>6 DEF SelTick

\* A climb finds its report, or the end of the freeze, young enough.
LEMMA ClimbStep ==
  ASSUME OpInv, FreshInv, [Next]_adaptiveVars, Climbs
  PROVE  /\ hReportAt # 0 /\ now >= hFreeze
         /\ now - Max({hReportAt, hFreeze}) <= ReportTimeout
<1>1. TickPromote
  BY ClimbIsPromote
<1>2. haveReport /\ now - Excused <= ReportTimeout /\ (csaFreeze = 0 \/ now >= csaFreeze)
  BY <1>1 DEF TickPromote, Cascades, Adapts, Thawed, Fresh, ReportAge
<1>3. hReportAt # 0 /\ now >= hFreeze
  BY <1>2 DEF FreshInv
<1>4. Excused \in Nat /\ (Excused <= hReportAt \/ Excused <= hFreeze)
  BY DEF Excused, FreshInv
<1>5. Max({hReportAt, hFreeze}) \in Int /\ Excused <= Max({hReportAt, hFreeze})
  <2>1. hReportAt \in Int /\ hFreeze \in Int
    BY DEF FreshInv
  <2>2. /\ Max({hReportAt, hFreeze}) \in {hReportAt, hFreeze}
        /\ Max({hReportAt, hFreeze}) >= hReportAt /\ Max({hReportAt, hFreeze}) >= hFreeze
    BY <2>1, MaxOfTwo
  <2> QED BY <1>4, <2>1, <2>2
<1>6. now \in Int /\ ReportTimeout \in Int
  BY SelectorConstants DEF FreshInv
<1> QED BY <1>2, <1>3, <1>4, <1>5, <1>6

\* The cascade never climbs inside a CSA freeze, nor on feedback older than
\* report_timeout_ms counted from the last report or from the freeze's end.
THEOREM ClimbsAreFresh == Spec => ClimbFresh
<1>1. Init => OpInv /\ FreshInv
  BY OpInvInit, FreshInit
<1>2. OpInv /\ FreshInv /\ [Next]_adaptiveVars => (OpInv /\ FreshInv)'
  BY OpStep, FreshStep
<1>3. OpInv /\ FreshInv /\ [Next]_adaptiveVars
        => [Climbs => /\ hReportAt # 0 /\ now >= hFreeze
                      /\ now - Max({hReportAt, hFreeze}) <= ReportTimeout]_adaptiveVars
  BY ClimbStep
<1> QED BY <1>1, <1>2, <1>3, PTL DEF Spec, ClimbFresh
-----------------------------------------------------------------------------
(* The report authority.                                                     *)

\* A claim that stands is the gate's own latch, last heard when the claim was.
ClaimLatched ==
  /\ hClaim = [orig |-> hClaim.orig, at |-> hClaim.at]
  /\ gPreferred = 0 /\ hClaim.orig # 0 => gLatched.orig = hClaim.orig /\ gLast = hClaim.at

\* A report that passes the gate keeps the claim of its sender and ends any other.
LEMMA HeardKeepsClaim ==
  ASSUME ClaimLatched, NEW id, GateAccept(id, now), Heard(id.orig)
  PROVE  ClaimLatched'
<1>1. gPreferred' = gPreferred /\ gLast' = now /\ (gPreferred = 0 => gLatched' = id)
  BY DEF GateAccept
<1>2. CASE id.orig = hClaim.orig
  <2>1. hClaim' = [hClaim EXCEPT !.at = now] BY <1>2 DEF Heard
  <2>2. hClaim'.orig = hClaim.orig /\ hClaim'.at = now /\ hClaim' = [orig |-> hClaim'.orig, at |-> hClaim'.at]
    BY <2>1 DEF ClaimLatched
  <2> QED BY <1>1, <1>2, <2>2 DEF ClaimLatched
<1>3. CASE id.orig # hClaim.orig
  <2>1. hClaim' = NoClaim BY <1>3 DEF Heard
  <2> QED BY <2>1 DEF ClaimLatched, NoClaim
<1> QED BY <1>2, <1>3

\* Every step keeps a standing claim latched, or ends it.
LEMMA ClaimStep == ClaimLatched /\ [Next]_adaptiveVars => ClaimLatched'
<1> SUFFICES ASSUME ClaimLatched, [Next]_adaptiveVars PROVE ClaimLatched' OBVIOUS
<1>1. CASE UNCHANGED <<gateVars, hClaim>>
  BY <1>1 DEF ClaimLatched, gateVars
<1>2. ASSUME NEW id, NEW shape, Report(id, shape) PROVE ClaimLatched'
  BY <1>2, HeardKeepsClaim DEF Report
<1>3. ASSUME NEW id, Replay(id) PROVE ClaimLatched'
  BY <1>3, HeardKeepsClaim DEF Replay
<1>4. ASSUME NEW orig, Claim(orig) PROVE ClaimLatched'
  <2>1. hClaim' = [orig |-> orig, at |-> now] /\ ForceLatch(orig, now) BY <1>4 DEF Claim
  <2>2. hClaim'.orig = orig /\ hClaim'.at = now BY <2>1
  <2>3. CASE gPreferred # 0 \/ orig = 0
    BY <2>1, <2>2, <2>3 DEF ForceLatch, ClaimLatched, gateVars
  <2>4. CASE ~(gPreferred # 0 \/ orig = 0)
    BY <2>1, <2>2, <2>4 DEF ForceLatch, ClaimLatched
  <2> QED BY <2>3, <2>4
<1>5. ASSUME NEW c, Release(c) PROVE ClaimLatched'
  <2>1. hClaim' = NoClaim BY <1>5 DEF Release
  <2> QED BY <2>1 DEF ClaimLatched, NoClaim
<1>6. CASE Next
  <2>1. ASSUME NEW id, NEW b, Verdict(id, b) PROVE ClaimLatched'
    BY <1>1, <2>1 DEF Verdict, histVars
  <2>2. ASSUME NEW c, Retune(c) PROVE ClaimLatched' BY <1>1, <2>2 DEF Retune, histVars
  <2>3. ASSUME NEW p, Repin(p) PROVE ClaimLatched' BY <1>1, <2>3 DEF Repin
  <2>4. CASE Tick BY <1>1, <2>4 DEF Tick, histVars
  <2>5. CASE Advance BY <1>1, <2>5 DEF Advance, histVars
  <2> QED BY <1>2, <1>3, <1>4, <1>5, <1>6, <2>1, <2>2, <2>3, <2>4, <2>5 DEF Next, HoldRung
<1>7. CASE UNCHANGED adaptiveVars
  BY <1>1, <1>7 DEF adaptiveVars, histVars
<1> QED BY <1>6, <1>7

\* Only a report is a report.
LEMMA OnlyReports ==
  ASSUME [Next]_adaptiveVars, hReportAt' # hReportAt
  PROVE  \E id \in setup.ids, shape \in setup.reports : Report(id, shape)
<1>1. Next BY DEF adaptiveVars, histVars
<1>2. /\ \A id : ~Replay(id)
      /\ \A id, b : ~Verdict(id, b)
      /\ \A orig : ~Claim(orig)
      /\ \A c : ~Retune(c) /\ ~Release(c)
      /\ ~HoldRung /\ \A p : ~Repin(p)
      /\ ~Tick /\ ~Advance
  BY DEF Replay, Verdict, Claim, Retune, Release, HoldRung, Repin, Tick, Advance, histVars
<1> QED BY <1>1, <1>2 DEF Next

\* For every relatch time, every set of grounds and every order of reports, replays, claims,
\* retunes and releases: while a claim stands, no other ground's report is accepted before
\* the claimant has been silent for relatch_ms (report_gate.h accept and force_latch).
THEOREM AuthorityAlwaysHolds == Spec => AuthorityHolds
<1>1. Init => ClaimLatched BY DEF Init, ClaimLatched, NoClaim
<1>2. ClaimLatched /\ [Next]_adaptiveVars =>
        [(hReportAt' # hReportAt /\ gPreferred = 0 /\ hClaim.orig # 0
          /\ source'.orig # hClaim.orig)
           => now - hClaim.at > RelatchMs]_adaptiveVars
  <2> SUFFICES ASSUME ClaimLatched, [Next]_adaptiveVars, hReportAt' # hReportAt, gPreferred = 0,
                      hClaim.orig # 0, source'.orig # hClaim.orig
               PROVE  now - hClaim.at > RelatchMs
    OBVIOUS
  <2>1. PICK id \in setup.ids, shape \in setup.reports : Report(id, shape) BY OnlyReports
  <2>2. source' = id /\ MayReport(id, now)
    BY <2>1 DEF Report, OnReport, GateAccept
  <2>3. gLatched.orig = hClaim.orig /\ gLast = hClaim.at BY DEF ClaimLatched
  <2> QED BY <2>2, <2>3 DEF MayReport
<1> QED BY <1>1, <1>2, ClaimStep, PTL DEF Spec, AuthorityHolds
-----------------------------------------------------------------------------
(* The descent.                                                              *)

\* The timers of the tick, against the clock.
Timers ==
  /\ ticked \in BOOLEAN /\ phaseAt \in Nat /\ failsafeNext \in Nat /\ hPinAt \in Nat
  /\ failsafeNext <= now + FailsafeStep
  /\ phase = "lead" => phaseAt <= now + BitrateLead /\ pending < rung
  /\ phase = "grace" => phaseAt <= now + McsGrace

\* The next tick at the latest; when a transition in flight lands; the first tick that is
\* free to start a demote; the rung it starts from.
NextTick == IF ticked THEN now + 1 ELSE now
Lands == IF phaseAt > NextTick THEN phaseAt ELSE NextTick
Acts == IF phase = "idle" THEN NextTick ELSE IF phase = "boot" THEN NextTick + 1 ELSE Lands + 1
Goal == IF phase = "lead" THEN pending ELSE rung

\* With k rungs left above the floor, the next demote starts within DueIn(k) of the silence.
DueIn(k) == Slack + 2 + (Top - k) * (StepPace + 1)

Descends(q) ==
  /\ Goal > SafeFloor => /\ Acts <= q + DueIn(Goal - SafeFloor)
                         /\ failsafeNext <= q + DueIn(Goal - SafeFloor)
  /\ phase = "lead" /\ rung > SafeFloor => Lands <= q + Descent

\* From every instant q after which nothing was heard, moved or frozen.
DescentInv ==
  haveReport /\ Lo # Hi =>
    \A q \in Nat : q >= lastReport /\ q >= hPinAt /\ q >= csaFreeze => Descends(q)

\* The durations of the selector.
LEMMA SelectorTimes ==
  /\ ReportTimeout \in Nat /\ FailsafeHold \in Nat /\ FailsafeStep \in Nat
  /\ BitrateLead \in Nat /\ McsGrace \in Nat /\ Top \in Nat
  /\ StepPace \in Nat /\ StepPace >= 1 /\ StepPace >= FailsafeStep /\ StepPace >= BitrateLead
  /\ Slack \in Nat /\ Slack >= ReportTimeout + FailsafeHold + McsGrace
  /\ Slack >= FailsafeStep + McsGrace
<1>1. /\ ReportTimeout \in Nat /\ FailsafeHold \in Nat /\ FailsafeStep \in Nat
      /\ BitrateLead \in Nat /\ McsGrace \in Nat /\ Top \in Nat
  BY SelectorConstants
<1>2. \A a, b \in Nat : \E x \in {1, a, b} : \A y \in {1, a, b} : x >= y
  OBVIOUS
<1>3. \E x \in {1, FailsafeStep, BitrateLead} : \A y \in {1, FailsafeStep, BitrateLead} : x >= y
  BY <1>1, <1>2
<1>4. /\ StepPace \in {1, FailsafeStep, BitrateLead}
      /\ \A y \in {1, FailsafeStep, BitrateLead} : StepPace >= y
  BY <1>3 DEF StepPace, Max
<1> DEFINE m == Max({ReportTimeout + FailsafeHold, FailsafeStep})
<1>5. ReportTimeout + FailsafeHold \in Int /\ FailsafeStep \in Int BY <1>1
<1>6. /\ m \in {ReportTimeout + FailsafeHold, FailsafeStep}
      /\ m >= ReportTimeout + FailsafeHold /\ m >= FailsafeStep
  BY <1>5, MaxOfTwo
<1>7. Slack = m + McsGrace BY DEF Slack
<1> HIDE DEF m
<1> QED BY <1>1, <1>4, <1>6, <1>7

\* A product of naturals is a natural, and grows by its other factor.
LEMMA TimesStep ==
  ASSUME NEW p \in Nat
  PROVE  /\ \A a \in Nat : a * p \in Nat
         /\ \A a, b \in Nat : a < b => a * p + p <= b * p
<1>1. \A a \in Nat : a * p \in Nat OBVIOUS
<1>2. ASSUME NEW a \in Nat, NEW b \in Nat, a < b PROVE a * p + p <= b * p
  <2>1. PICK d \in Nat : b = a + 1 + d
    <3>1. b - a - 1 \in Nat /\ b = a + 1 + (b - a - 1) BY <1>2
    <3> QED BY <3>1
  <2>2. b * p = a * p + p + d * p BY <2>1
  <2>3. a * p \in Nat /\ d * p \in Nat BY <1>1
  <2> QED BY <2>2, <2>3
<1> QED BY <1>1, <1>2

\* The allowance for k rungs, and how it grows as the craft comes down.
LEMMA DueFacts ==
  ASSUME NEW k \in Int, k >= 1, k <= Top
  PROVE  /\ DueIn(k) \in Nat /\ DueIn(k) >= Slack + 2 /\ DueIn(k) + StepPace <= Descent
         /\ Descent \in Nat
         /\ k < Top => DueIn(k) >= Slack + 2 + StepPace + 1
         /\ \A j \in Int : 1 <= j /\ j < k => DueIn(j) >= DueIn(k) + StepPace + 1
<1> DEFINE p == StepPace + 1
           M(a) == a * p
<1>1. StepPace \in Nat /\ Slack \in Nat /\ Top \in Nat BY SelectorTimes
<1>2. p \in Nat BY <1>1
<1>3. /\ \A a \in Nat : M(a) \in Nat
      /\ \A a, b \in Nat : a < b => M(a) + p <= M(b)
  BY <1>2, TimesStep
<1>4. \A j \in Int : DueIn(j) = Slack + 2 + M(Top - j) BY DEF DueIn
<1>5. Descent = Slack + 1 + M(Top) BY DEF Descent
<1>6. M(0) = 0 BY <1>2
<1>7. p = StepPace + 1 OBVIOUS
<1> HIDE DEF M, p
<1>8. Top - k \in Nat /\ Top - k < Top /\ (k < Top => 0 < Top - k) BY <1>1
<1>9. M(Top - k) \in Nat /\ M(Top) \in Nat /\ M(Top - k) + p <= M(Top) BY <1>1, <1>3, <1>8
<1>10. k < Top => 0 + p <= M(Top - k) BY <1>3, <1>6, <1>8
<1>11. ASSUME NEW j \in Int, 1 <= j, j < k PROVE DueIn(j) >= DueIn(k) + StepPace + 1
  <2>1. Top - j \in Nat /\ Top - k < Top - j BY <1>1, <1>11
  <2>2. M(Top - k) + p <= M(Top - j) /\ M(Top - j) \in Nat BY <1>3, <1>8, <2>1
  <2>3. DueIn(j) = Slack + 2 + M(Top - j) /\ DueIn(k) = Slack + 2 + M(Top - k) BY <1>4
  <2> QED BY <1>1, <1>7, <1>9, <2>2, <2>3
<1>12. DueIn(k) = Slack + 2 + M(Top - k) BY <1>4
<1> QED BY <1>1, <1>2, <1>5, <1>7, <1>9, <1>10, <1>11, <1>12

\* Every step keeps the timers near the clock.
LEMMA TimersStep == OpInv /\ FreshInv /\ Timers /\ [Next]_adaptiveVars => Timers'
<1> SUFFICES ASSUME OpInv, FreshInv, Timers, [Next]_adaptiveVars PROVE Timers' OBVIOUS
<1>1. now \in Nat BY DEF FreshInv
<1>2. CASE /\ UNCHANGED <<ticked, phaseAt, phase, pending, rung, now>>
           /\ failsafeNext' \in {failsafeNext, 0} /\ hPinAt' \in {hPinAt, now}
  BY <1>1, <1>2, SelectorTimes DEF Timers
<1>3. ASSUME NEW id, NEW shape, Report(id, shape) PROVE Timers'
  BY <1>2, <1>3 DEF Report, OnReport, ResetRest, Quiet, envVars
<1>4. ASSUME NEW id, Replay(id) PROVE Timers'
  BY <1>2, <1>4 DEF Replay, Quiet, envVars, selVars, opVars
<1>5. ASSUME NEW id, NEW sat, Verdict(id, sat) PROVE Timers'
  BY <1>2, <1>5 DEF Verdict, OnVerdict, Quiet, envVars, histVars, opVars
<1>6. ASSUME NEW orig, Claim(orig) PROVE Timers'
  BY <1>2, <1>6 DEF Claim, CsaFreeze, Event, opVars
<1>7. ASSUME NEW c, Retune(c) \/ Release(c) PROVE Timers'
  BY <1>2, <1>7 DEF Retune, Release, OnRfEnvironment, ResetRest, Event, histVars, selVars, opVars
<1>8. ASSUME NEW p, Repin(p) PROVE Timers'
  BY <1>2, <1>8 DEF Repin, SetProfilePin, Event, opVars
<1>9. CASE Advance
  <2>1. now' = now + 1 /\ ticked' = FALSE /\ UNCHANGED <<phaseAt, failsafeNext, hPinAt, phase, pending, rung>>
    BY <1>9 DEF Advance, selVars, opVars, histVars
  <2>2. FailsafeStep \in Nat /\ BitrateLead \in Nat /\ McsGrace \in Nat BY SelectorTimes
  <2>3. ticked' \in BOOLEAN BY <2>1
  <2>4. /\ phaseAt \in Nat /\ failsafeNext \in Nat /\ hPinAt \in Nat /\ failsafeNext <= now + FailsafeStep
        /\ phase = "lead" => phaseAt <= now + BitrateLead /\ pending < rung
        /\ phase = "grace" => phaseAt <= now + McsGrace
    BY DEF Timers
  <2>5. /\ failsafeNext <= now' + FailsafeStep
        /\ phase = "lead" => phaseAt <= now' + BitrateLead
        /\ phase = "grace" => phaseAt <= now' + McsGrace
    BY <1>1, <2>1, <2>2, <2>4
  <2> QED BY <2>1, <2>3, <2>4, <2>5 DEF Timers
<1>10. CASE Tick
  <2>1. ticked' = TRUE /\ UNCHANGED <<now, hPinAt>> BY <1>10 DEF Tick, histVars
  <2>2. CASE phase' \notin {"lead", "grace"} /\ UNCHANGED <<phaseAt, failsafeNext>>
    BY <1>1, <2>1, <2>2 DEF Timers
  <2>3. CASE UNCHANGED <<phase, phaseAt, failsafeNext, pending, rung>>
    BY <1>1, <2>1, <2>3 DEF Timers
  <2>4. ASSUME TickBoot \/ TickLead \/ TickGrace PROVE Timers'
    BY <2>2, <2>4 DEF TickBoot, TickLead, TickGrace
  <2>5. ASSUME TickWaits \/ TickFrozen \/ TickHoldsPin \/ TickFailsafeHolds \/ TickHolds
        PROVE  Timers'
    BY <2>3, <2>5 DEF TickWaits, TickFrozen, TickHoldsPin, TickFailsafeHolds, TickHolds, Idle,
                      selVars, opVars
  <2>6. ASSUME TickPinned \/ TickRepin PROVE Timers'
    BY <2>2, <2>6 DEF TickPinned, TickRepin, Snap, Thawed
  <2>7. ASSUME NEW target \in Ladder, NEW losses, target < rung, StartDemote(target, losses),
               failsafeNext' \in {failsafeNext, now + FailsafeStep}
        PROVE  Timers'
    BY <1>1, <2>1, <2>7, SelectorTimes DEF Timers, StartDemote
  <2>8. ASSUME TickFailsafe PROVE Timers'
    <3>1. rung > SafeFloor /\ StartDemote(rung - 1, rungLoss) /\ failsafeNext' = now + FailsafeStep
      BY <2>8 DEF TickFailsafe, FailsafeMoves
    <3>2. rung - 1 \in Ladder /\ rung - 1 < rung BY <3>1, BelowFloor DEF OpInv, Ladder
    <3> QED BY <2>7, <3>1, <3>2
  <2>9. ASSUME TickDemote PROVE Timers'
    <3>1. PICK target, losses : /\ StartDemote(target, losses) /\ target \in {SafeFloor, rung - 1}
      BY <2>9 DEF TickDemote
    <3>2. rung > SafeFloor /\ failsafeNext' = failsafeNext BY <2>9 DEF TickDemote
    <3>3. target \in Ladder /\ target < rung
      BY <3>1, <3>2, BelowFloor, EnvelopeOnLadder DEF OpInv, Ladder
    <3> QED BY <2>7, <3>1, <3>2, <3>3
  <2>10. ASSUME TickPromote PROVE Timers'
    <3>1. phase' = "grace" /\ phaseAt' = now + McsGrace /\ failsafeNext' = failsafeNext
      BY <2>10 DEF TickPromote
    <3> QED BY <1>1, <2>1, <3>1, SelectorTimes DEF Timers
  <2> QED BY <1>10, <2>4, <2>5, <2>6, <2>8, <2>9, <2>10 DEF Tick, SelTick
<1>11. CASE UNCHANGED adaptiveVars
  BY <1>2, <1>11 DEF adaptiveVars, selVars, opVars, histVars, envVars
<1> QED BY <1>3, <1>4, <1>5, <1>6, <1>7, <1>8, <1>9, <1>10, <1>11 DEF Next, HoldRung

\* The envelope after a step, on the ladder too.
LEMMA EnvelopeAfter ==
  /\ Lo' \in Ladder /\ Hi' \in Ladder /\ SafeFloor' \in Ladder
<1>1. \A id, f : f \in Ladder => RungOfId(id, f) \in Ladder BY DEF RungOfId
<1>2. Top \in Nat /\ FloorProfile \in Ladder /\ 0 \in Ladder /\ Top \in Ladder
  BY SelectorConstants DEF Ladder
<1>3. Hi' \in Ladder BY <1>1, <1>2 DEF Hi
<1>4. Lo' \in Ladder BY <1>1, <1>2, <1>3 DEF Lo
<1> QED BY <1>2, <1>3, <1>4 DEF SafeFloor, ClampRung

\* From an instant at or after the clock every allowance is whole.
LEMMA FromNow ==
  ASSUME OpInv', FreshInv', Timers', NEW q \in Nat, q >= now'
  PROVE  Descends(q)'
<1>1. FailsafeStep \in Nat /\ BitrateLead \in Nat /\ McsGrace \in Nat /\ Top \in Nat BY SelectorTimes
<1>2. StepPace \in Nat /\ StepPace >= 1 /\ StepPace >= BitrateLead BY SelectorTimes
<1>3. Slack \in Nat /\ Slack >= McsGrace /\ Slack >= FailsafeStep
  <2>1. Slack \in Nat /\ Slack >= FailsafeStep + McsGrace BY SelectorTimes
  <2> QED BY <1>1, <2>1
<1>4. now' \in Nat /\ phaseAt' \in Nat /\ failsafeNext' \in Nat BY DEF FreshInv, Timers
<1>5. /\ rung' \in Int /\ pending' \in Int /\ rung' <= Top /\ pending' <= Top
      /\ phase' \in {"boot", "idle", "lead", "grace"}
  BY TopIsNat DEF OpInv, Ladder
<1>6. SafeFloor' \in Nat
  <2>1. SafeFloor' \in Ladder BY EnvelopeAfter
  <2> QED BY <2>1 DEF Ladder
<1> DEFINE n == now'
           at == phaseAt'
           fs == failsafeNext'
           r == rung'
           pe == pending'
           w == NextTick'
           l == Lands'
           fl == SafeFloor'
           g == Goal'
           k == g - fl
           due == DueIn(k)
           act == Acts'
<1>7. n \in Nat /\ at \in Nat /\ fs \in Nat /\ r \in Int /\ pe \in Int /\ r <= Top /\ pe <= Top
  BY <1>4, <1>5
<1>8. w = n \/ w = n + 1 BY DEF NextTick
<1>9. l = at \/ l = w BY DEF Lands
<1>10. phase' = "lead" => g = pe /\ pe < r /\ at <= n + BitrateLead BY DEF Goal, Timers
<1>11. phase' # "lead" => g = r BY DEF Goal
<1>12. phase' = "grace" => at <= n + McsGrace BY DEF Timers
<1>13. fs <= n + FailsafeStep /\ q \in Nat /\ q >= n BY DEF Timers
<1>14. /\ phase' = "idle" => act = w
       /\ phase' = "boot" => act = w + 1
       /\ phase' \in {"lead", "grace"} => act = l + 1
  BY DEF Acts
<1>15. fl \in Nat /\ k = g - fl BY <1>6
<1>16. Descends(q)' <=> /\ g > fl => act <= q + due /\ fs <= q + due
                        /\ phase' = "lead" /\ r > fl => l <= q + Descent
  BY DEF Descends
<1>17. due = DueIn(k) OBVIOUS
<1> HIDE DEF n, at, fs, r, pe, w, l, fl, g, k, due, act
<1>18. w \in Nat /\ w <= n + 1 BY <1>7, <1>8
<1>19. l \in Nat BY <1>7, <1>9, <1>18
<1>20. phase' = "lead" => l <= n + StepPace
  <2>1. at <= n + BitrateLead => l <= n + StepPace BY <1>1, <1>2, <1>7, <1>9, <1>18
  <2> QED BY <1>10, <2>1
<1>21. phase' = "grace" => l <= n + McsGrace + 1
  <2>1. at <= n + McsGrace => l <= n + McsGrace + 1 BY <1>1, <1>7, <1>9, <1>18
  <2> QED BY <1>12, <2>1
<1>22. g \in Int /\ g <= Top /\ (phase' = "lead" => g < Top)
  BY <1>1, <1>7, <1>10, <1>11
<1>23. ASSUME g > fl PROVE act <= q + due /\ fs <= q + due
  <2>1. k \in Int /\ k >= 1 /\ k <= Top /\ (phase' = "lead" => k < Top)
    BY <1>1, <1>15, <1>22, <1>23
  <2>2. /\ due \in Nat /\ due >= Slack + 2
        /\ phase' = "lead" => due >= Slack + 2 + StepPace + 1
    BY <1>17, <2>1, DueFacts
  <2>3. fs <= q + due BY <1>1, <1>3, <1>7, <1>13, <2>2
  <2>4. CASE phase' = "idle"
    <3>1. act = w BY <1>14, <2>4
    <3> QED BY <1>3, <1>7, <1>13, <1>18, <2>2, <2>3, <3>1
  <2>5. CASE phase' = "boot"
    <3>1. act = w + 1 BY <1>14, <2>5
    <3> QED BY <1>3, <1>7, <1>13, <1>18, <2>2, <2>3, <3>1
  <2>6. CASE phase' = "lead"
    <3>1. act = l + 1 /\ l <= n + StepPace /\ due >= Slack + 2 + StepPace + 1
      BY <1>14, <1>20, <2>2, <2>6
    <3> QED BY <1>2, <1>3, <1>7, <1>13, <1>19, <2>2, <2>3, <3>1
  <2>7. CASE phase' = "grace"
    <3>1. act = l + 1 /\ l <= n + McsGrace + 1 BY <1>14, <1>21, <2>7
    <3> QED BY <1>1, <1>3, <1>7, <1>13, <1>19, <2>2, <2>3, <3>1
  <2> QED BY <1>5, <2>4, <2>5, <2>6, <2>7
<1>24. ASSUME phase' = "lead", r > fl PROVE l <= q + Descent
  <2>1. 1 \in Int /\ 1 >= 1 /\ 1 <= Top BY <1>1, <1>7, <1>15, <1>24
  <2>2. DueIn(1) \in Nat /\ DueIn(1) + StepPace <= Descent /\ Descent \in Nat BY <2>1, DueFacts
  <2>3. l <= n + StepPace BY <1>20, <1>24
  <2> QED BY <1>2, <1>7, <1>13, <1>19, <2>2, <2>3
<1> QED BY <1>16, <1>23, <1>24

\* A step timer left over from an earlier silence is no longer than one step past the
\* report or the thaw that ended that silence.
StepTimer ==
  haveReport => now - Excused > ReportTimeout \/ failsafeNext <= Excused + FailsafeStep

\* A thaw counts the silence from where it was already counted from.
LEMMA ThawExcuses ==
  ASSUME FreshInv, Thaw, UNCHANGED haveReport
  PROVE  /\ Excused' = Excused /\ Excused \in Nat
         /\ haveReport => Excused >= csaFreeze /\ Excused >= lastReport
<1>1. lastReport \in Nat /\ csaFreeze \in Nat BY DEF FreshInv
<1>2. Excused \in Nat /\ (haveReport => Excused >= csaFreeze /\ Excused >= lastReport)
  BY <1>1 DEF Excused
<1>3. Excused' = Excused BY <1>1, <1>2 DEF Excused, Thaw
<1> QED BY <1>2, <1>3

\* Every tick thaws, or leaves the report age alone and the step timer with it.
LEMMA TickThaws ==
  ASSUME SelTick
  PROVE  /\ UNCHANGED <<haveReport, pin>>
         /\ \/ Thaw
            \/ UNCHANGED <<lastReport, csaFreeze, failsafeNext>>
         /\ failsafeNext' = failsafeNext \/ (TickFailsafe /\ failsafeNext' = now + FailsafeStep)
<1>1. CASE TickBoot \/ TickLead \/ TickGrace \/ TickWaits \/ TickFrozen
  BY <1>1 DEF TickBoot, TickLead, TickGrace, TickWaits, TickFrozen, reportVars, selVars
<1>2. CASE TickPinned \/ TickRepin
  BY <1>2 DEF TickPinned, TickRepin, Snap, reportVars
<1>3. CASE TickHoldsPin \/ TickFailsafeHolds \/ TickHolds
  BY <1>3 DEF TickHoldsPin, TickFailsafeHolds, TickHolds, Idle, reportVars
<1>4. CASE TickFailsafe
  BY <1>4 DEF TickFailsafe, StartDemote, reportVars
<1>5. CASE TickDemote
  BY <1>5 DEF TickDemote, StartDemote, reportVars
<1>6. CASE TickPromote
  BY <1>6 DEF TickPromote, reportVars
<1> QED BY <1>1, <1>2, <1>3, <1>4, <1>5, <1>6 DEF SelTick

\* Every step keeps the step timer near the end of the last silence.
LEMMA StepTimerStep ==
  FreshInv /\ Timers /\ StepTimer /\ [Next]_adaptiveVars => StepTimer'
<1> SUFFICES ASSUME FreshInv, Timers, StepTimer, [Next]_adaptiveVars PROVE StepTimer' OBVIOUS
<1>1. /\ now \in Nat /\ lastReport \in Nat /\ csaFreeze \in Nat /\ failsafeNext \in Nat
      /\ failsafeNext <= now + FailsafeStep
  BY DEF FreshInv, Timers
<1>2. FailsafeStep \in Nat /\ ReportTimeout \in Nat /\ Settle \in Nat
  BY SelectorTimes, AdaptiveConstants
<1>3. Excused \in Nat BY <1>1 DEF Excused
<1>4. CASE UNCHANGED <<now, haveReport, lastReport, csaFreeze>> /\ failsafeNext' \in {failsafeNext, 0}
  <2>1. Excused' = Excused BY <1>4 DEF Excused
  <2> QED BY <1>1, <1>2, <1>3, <1>4, <2>1 DEF StepTimer
<1>5. ASSUME NEW id, NEW shape, Report(id, shape) PROVE StepTimer'
  <2>1. failsafeNext' = 0 /\ lastReport' = now /\ UNCHANGED <<now, csaFreeze>>
    BY <1>5 DEF Report, OnReport, ResetRest, Quiet, envVars
  <2>2. Excused' \in Nat BY <1>1, <2>1 DEF Excused
  <2>3. \A x, y \in Nat : 0 <= x + y OBVIOUS
  <2>4. 0 <= Excused' + FailsafeStep BY <1>2, <2>2, <2>3
  <2> QED BY <2>1, <2>4 DEF StepTimer
<1>6. ASSUME NEW id, Replay(id) PROVE StepTimer'
  BY <1>4, <1>6 DEF Replay, Quiet, envVars, selVars, reportVars
<1>7. ASSUME NEW id, NEW sat, Verdict(id, sat) PROVE StepTimer'
  BY <1>4, <1>7 DEF Verdict, OnVerdict, Quiet, envVars, reportVars
<1>8. ASSUME NEW orig, Claim(orig) PROVE StepTimer'
  <2>1. /\ csaFreeze' = Max({csaFreeze, now + Settle})
        /\ UNCHANGED <<now, haveReport, lastReport, failsafeNext>>
    BY <1>8 DEF Claim, CsaFreeze, Event, reportVars
  <2>2. csaFreeze' \in Nat /\ csaFreeze' >= now
    <3>1. csaFreeze \in Int /\ now + Settle \in Int BY <1>1, <1>2
    <3>2. /\ Max({csaFreeze, now + Settle}) \in {csaFreeze, now + Settle}
          /\ Max({csaFreeze, now + Settle}) >= now + Settle
      BY <3>1, MaxOfTwo
    <3> QED BY <1>1, <1>2, <2>1, <3>2
  <2>3. haveReport' => Excused' \in Nat /\ Excused' >= now
    BY <1>1, <2>1, <2>2 DEF Excused
  <2> QED BY <1>1, <1>2, <2>1, <2>3 DEF StepTimer
<1>9. ASSUME NEW c, Retune(c) \/ Release(c) PROVE StepTimer'
  BY <1>4, <1>9 DEF Retune, Release, OnRfEnvironment, ResetRest, Event, selVars, reportVars
<1>10. ASSUME NEW p, Repin(p) PROVE StepTimer'
  BY <1>4, <1>10 DEF Repin, SetProfilePin, Event, reportVars
<1>11. CASE Advance
  <2>1. now' = now + 1 /\ UNCHANGED <<haveReport, lastReport, csaFreeze, failsafeNext>>
    BY <1>11 DEF Advance, selVars, reportVars
  <2>2. Excused' = Excused BY <2>1 DEF Excused
  <2> QED BY <1>1, <1>2, <1>3, <2>1, <2>2 DEF StepTimer
<1>12. CASE Tick
  <2>1. now' = now /\ SelTick BY <1>12 DEF Tick
  <2>2. UNCHANGED haveReport BY <2>1, TickThaws
  <2>3. Excused' = Excused
    <3>1. CASE Thaw BY <2>2, <3>1, ThawExcuses
    <3>2. CASE UNCHANGED <<lastReport, csaFreeze>> BY <2>2, <3>2 DEF Excused
    <3> QED BY <2>1, <3>1, <3>2, TickThaws
  <2>4. CASE failsafeNext' = failsafeNext
    BY <2>1, <2>2, <2>3, <2>4 DEF StepTimer
  <2>5. CASE TickFailsafe
    <3>1. haveReport => now - Excused > ReportTimeout
      BY <1>1, <1>2, <1>3, <2>5 DEF TickFailsafe, Fresh, ReportAge
    <3> QED BY <2>1, <2>2, <2>3, <3>1 DEF StepTimer
  <2> QED BY <2>1, <2>4, <2>5, TickThaws
<1>13. CASE UNCHANGED adaptiveVars
  BY <1>4, <1>13 DEF adaptiveVars, selVars, reportVars, envVars
<1> QED BY <1>5, <1>6, <1>7, <1>8, <1>9, <1>10, <1>11, <1>12, <1>13 DEF Next, HoldRung

\* A tick that only lets time pass, or ends a transition, costs nothing.
LEMMA PassDescends ==
  ASSUME OpInv, FreshInv, Timers, NEW q \in Nat, Descends(q),
         now' = now, ticked' = TRUE, UNCHANGED <<pin, failsafeNext>>,
         TickBoot \/ TickLead \/ TickGrace \/ TickWaits
  PROVE  Descends(q)'
<1>1. SafeFloor' = SafeFloor BY DEF SafeFloor, ClampRung, Lo, Hi
<1>2. Goal' = Goal
  BY DEF Goal, TickBoot, TickLead, TickGrace, TickWaits, selVars, opVars
<1> DEFINE n == now
           at == phaseAt
           w == NextTick
           l == Lands
           l2 == Lands'
           act == Acts
           act2 == Acts'
<1>3. n \in Nat /\ at \in Nat BY DEF FreshInv, Timers
<1>4. w = n \/ w = n + 1 BY DEF NextTick
<1>5. l = IF at > w THEN at ELSE w BY DEF Lands
<1>6. NextTick' = n + 1 BY DEF NextTick
<1>7. CASE TickWaits
  <2>1. UNCHANGED <<phase, phaseAt, rung>> BY <1>7 DEF TickWaits, selVars, opVars
  <2>2. n < at BY <1>7 DEF TickWaits
  <2>3. l2 = IF at > n + 1 THEN at ELSE n + 1 BY <1>6, <2>1 DEF Lands
  <2>4. phase \in {"lead", "grace"} /\ phase' = phase BY <1>7, <2>1 DEF TickWaits
  <2>5. Acts' = l2 + 1 /\ Acts = l + 1 BY <2>4 DEF Acts
  <2> HIDE DEF n, at, w, l, l2
  <2>6. (at > w => l = at) /\ (~(at > w) => l = w) BY <1>5
  <2>7. (at > n + 1 => l2 = at) /\ (~(at > n + 1) => l2 = n + 1) BY <2>3
  <2>8. l2 = l BY <1>3, <1>4, <2>2, <2>6, <2>7
  <2>9. Lands' = Lands BY <2>8 DEF l, l2
  <2>10. Acts' = Acts BY <2>5, <2>8
  <2> QED BY <1>1, <1>2, <2>1, <2>9, <2>10 DEF Descends
<1>8. CASE ~TickWaits
  <2>1. phase' = "idle" BY <1>8 DEF TickBoot, TickLead, TickGrace
  <2>2. act2 = n + 1 BY <1>6, <2>1 DEF Acts
  <2>3. act = w + 1
    <3>1. CASE phase = "boot" BY <3>1 DEF Acts
    <3>2. CASE phase # "boot"
      <4>1. phase \in {"lead", "grace"} /\ n >= at BY <1>8, <3>2 DEF TickBoot, TickLead, TickGrace
      <4>2. act = l + 1 BY <4>1 DEF Acts
      <4> HIDE DEF n, at, w, l, act
      <4>3. l = w BY <1>3, <1>4, <1>5, <4>1
      <4> QED BY <4>2, <4>3
    <3> QED BY <3>1, <3>2
  <2> HIDE DEF n, w, act, act2
  <2>4. act \in Nat /\ act2 \in Nat /\ act2 <= act BY <1>3, <1>4, <2>2, <2>3
  <2>5. ASSUME NEW d, d \in Int, act <= d PROVE act2 <= d BY <2>4, <2>5
  <2>6. ASSUME Goal > SafeFloor
        PROVE  /\ act2 <= q + DueIn(Goal - SafeFloor)
               /\ failsafeNext <= q + DueIn(Goal - SafeFloor)
    <3>1. Goal - SafeFloor \in Int /\ Goal - SafeFloor >= 1 /\ Goal - SafeFloor <= Top
      <4>1. Goal \in Ladder /\ SafeFloor \in Ladder BY EnvelopeOnLadder DEF Goal, OpInv
      <4> QED BY <2>6, <4>1, TopIsNat DEF Ladder
    <3>2. DueIn(Goal - SafeFloor) \in Nat BY <3>1, DueFacts
    <3>3. q + DueIn(Goal - SafeFloor) \in Int BY <3>2
    <3>4. /\ act <= q + DueIn(Goal - SafeFloor)
          /\ failsafeNext <= q + DueIn(Goal - SafeFloor)
      BY <2>6 DEF Descends, act
    <3> QED BY <2>5, <3>3, <3>4
  <2> QED BY <1>1, <1>2, <2>1, <2>6 DEF Descends, act2
<1> QED BY <1>7, <1>8

\* A demote starts in time, so the next one does, and it lands in time.
LEMMA DemoteDescends ==
  ASSUME OpInv, FreshInv, Timers, NEW q \in Nat, Descends(q),
         phase = "idle", rung > SafeFloor, now' = now, ticked' = TRUE, UNCHANGED <<pin, rung>>,
         NEW target \in Ladder, target < rung, pending' = target, phase' = "lead",
         phaseAt' = now + BitrateLead,
         failsafeNext' \in {failsafeNext, now + FailsafeStep}
  PROVE  Descends(q)'
<1> DEFINE n == now
           w == NextTick
           l2 == Lands'
           act2 == Acts'
           fl == SafeFloor
           k == rung - fl
           k2 == target - fl
           due == DueIn(k)
           due2 == DueIn(k2)
           fs == failsafeNext
           fs2 == failsafeNext'
<1>1. SafeFloor' = fl BY DEF SafeFloor, ClampRung, Lo, Hi
<1>2. Goal' = target /\ Goal = rung BY DEF Goal
<1>3. n \in Nat /\ fs \in Nat /\ fs2 \in {fs, n + FailsafeStep} BY DEF FreshInv, Timers
<1>4. w = n \/ w = n + 1 BY DEF NextTick
<1>5. l2 = IF n + BitrateLead > n + 1 THEN n + BitrateLead ELSE n + 1
  BY DEF NextTick, Lands
<1>6. act2 = l2 + 1 BY DEF Acts
<1>7. w <= q + due /\ fs <= q + due BY <1>2 DEF Descends, Acts
<1>8. rung \in Ladder /\ fl \in Ladder /\ target \in Ladder BY EnvelopeOnLadder DEF OpInv
<1>9. Top \in Nat /\ BitrateLead \in Nat /\ FailsafeStep \in Nat BY SelectorTimes
<1>10. k \in Int /\ k >= 1 /\ k <= Top BY <1>8, <1>9 DEF Ladder
<1>11. k2 \in Int /\ k2 < k /\ (target > fl <=> k2 >= 1) BY <1>8, <1>9 DEF Ladder
<1>12. due = DueIn(k) /\ due2 = DueIn(k2) OBVIOUS
<1>13. Descends(q)' <=> /\ target > fl => act2 <= q + due2 /\ fs2 <= q + due2
                        /\ rung > fl => l2 <= q + Descent
  BY <1>1, <1>2 DEF Descends
<1>14. StepPace \in Nat /\ StepPace >= 1 /\ StepPace >= FailsafeStep /\ StepPace >= BitrateLead
  BY SelectorTimes
<1> HIDE DEF n, w, l2, act2, fl, k, k2, due, due2, fs, fs2
<1>15. /\ due \in Nat /\ due + StepPace <= Descent /\ Descent \in Nat
       /\ k2 >= 1 => due2 >= due + StepPace + 1
  BY <1>10, <1>11, <1>12, DueFacts
<1>16. l2 \in Nat /\ l2 <= n + StepPace BY <1>3, <1>5, <1>9, <1>14
<1>17. n <= q + due BY <1>3, <1>4, <1>7, <1>15
<1>18. l2 <= q + Descent BY <1>3, <1>14, <1>15, <1>16, <1>17
<1>19. ASSUME target > fl PROVE act2 <= q + due2 /\ fs2 <= q + due2
  <2>1. k2 >= 1 BY <1>11, <1>19
  <2>2. due2 \in Nat /\ due2 >= due + StepPace + 1
    <3>1. k2 <= Top BY <1>9, <1>10, <1>11
    <3>2. due2 \in Nat BY <1>11, <1>12, <2>1, <3>1, DueFacts
    <3> QED BY <1>15, <2>1, <3>2
  <2>3. act2 <= q + due2 BY <1>3, <1>6, <1>14, <1>15, <1>16, <1>17, <2>2
  <2>4. fs2 <= q + due2 BY <1>3, <1>7, <1>9, <1>14, <1>15, <1>17, <2>2
  <2> QED BY <2>3, <2>4
<1> QED BY <1>13, <1>18, <1>19

\* A pass of the cascade that starts no demote was excused: by a report, by the hold phase
\* or by the step timer; a climb is excused the same way.
LEMMA StayDescends ==
  ASSUME OpInv, FreshInv, Timers, NEW q \in Nat, Descends(q), OpInv',
         phase = "idle", now' = now, ticked' = TRUE, UNCHANGED <<pin, failsafeNext>>,
         \/ phase' = "idle" /\ rung' = rung
              /\ (rung > SafeFloor => now < q + ReportTimeout + FailsafeHold + 1 \/ now < failsafeNext)
         \/ phase' = "grace" /\ phaseAt' = now + McsGrace
              /\ now <= q + ReportTimeout /\ failsafeNext <= q + FailsafeStep
  PROVE  Descends(q)'
<1> DEFINE n == now
           l2 == Lands'
           act2 == Acts'
           fl == SafeFloor
           r == rung
           r2 == rung'
           k2 == r2 - fl
           due2 == DueIn(k2)
           fs == failsafeNext
<1>1. SafeFloor' = fl BY DEF SafeFloor, ClampRung, Lo, Hi
<1>2. Goal' = r2 /\ Goal = r BY DEF Goal
<1>3. n \in Nat /\ fs \in Nat BY DEF FreshInv, Timers
<1>4. r2 \in Ladder /\ fl \in Ladder BY EnvelopeOnLadder DEF OpInv
<1>5. /\ Top \in Nat /\ McsGrace \in Nat /\ FailsafeStep \in Nat /\ ReportTimeout \in Nat
      /\ FailsafeHold \in Nat /\ Slack \in Nat
      /\ Slack >= ReportTimeout + FailsafeHold + McsGrace /\ Slack >= FailsafeStep + McsGrace
  BY SelectorTimes
<1>6. k2 \in Int /\ k2 <= Top /\ (r2 > fl => k2 >= 1)
  <2>1. k2 = r2 - fl OBVIOUS
  <2> HIDE DEF k2, r2, fl
  <2> QED BY <1>4, <1>5, <2>1 DEF Ladder
<1>7. Descends(q)' <=> (r2 > fl => act2 <= q + due2 /\ fs <= q + due2)
  BY <1>1, <1>2 DEF Descends
<1>8. CASE phase' = "grace"
  <2>1. phaseAt' = n + McsGrace /\ n <= q + ReportTimeout /\ fs <= q + FailsafeStep BY <1>8
  <2>2. l2 = IF n + McsGrace > n + 1 THEN n + McsGrace ELSE n + 1
    BY <2>1 DEF NextTick, Lands
  <2>3. act2 = l2 + 1 BY <1>8 DEF Acts
  <2>4. ASSUME r2 > fl PROVE due2 \in Nat /\ due2 >= Slack + 2
    <3> HIDE DEF k2
    <3> QED BY <1>6, <2>4, DueFacts
  <2> HIDE DEF n, l2, act2, fl, r2, due2, fs
  <2>5. n <= q + ReportTimeout /\ fs <= q + FailsafeStep BY <2>1
  <2> QED BY <1>3, <1>5, <1>7, <2>2, <2>3, <2>4, <2>5
<1>9. CASE phase' = "idle"
  <2>1. act2 = n + 1 BY <1>9 DEF Acts, NextTick
  <2>2. r2 = r /\ (r > fl => n < q + ReportTimeout + FailsafeHold + 1 \/ n < fs) BY <1>9
  <2>3. r > fl => fs <= q + DueIn(r - fl) BY <1>2 DEF Descends
  <2>4. r2 > fl => fs <= q + due2 BY <2>2, <2>3
  <2>5. ASSUME r2 > fl PROVE due2 \in Nat /\ due2 >= Slack + 2
    <3> HIDE DEF k2
    <3> QED BY <1>6, <2>5, DueFacts
  <2> HIDE DEF n, act2, fl, r, r2, due2, fs
  <2>6. ASSUME r2 > fl PROVE act2 <= q + due2
    <3>1. n < q + ReportTimeout + FailsafeHold + 1 \/ n < fs BY <2>2, <2>6
    <3>2. due2 \in Nat /\ due2 >= Slack + 2 /\ fs <= q + due2 BY <2>4, <2>5, <2>6
    <3> QED BY <1>3, <1>5, <2>1, <3>1, <3>2
  <2> QED BY <1>7, <2>4, <2>6
<1> QED BY <1>8, <1>9

\* Each arm of the tick keeps the descent on time.
LEMMA TickDescends ==
  ASSUME OpInv, FreshInv, Timers, StepTimer, Tick, OpInv', haveReport, Lo # Hi,
         NEW q \in Nat, Descends(q), Excused <= q, csaFreeze <= q, q < now
  PROVE  Descends(q)'
<1>1. SelTick /\ now' = now /\ ticked' = TRUE BY DEF Tick
<1>2. pin' = pin BY <1>1, TickThaws
<1>3. now \in Nat /\ Excused \in Nat /\ csaFreeze \in Nat BY DEF FreshInv, Excused
<1>4. ReportTimeout \in Nat /\ FailsafeHold \in Nat /\ FailsafeStep \in Nat BY SelectorTimes
<1>5. CASE TickBoot \/ TickLead \/ TickGrace \/ TickWaits
  <2>1. failsafeNext' = failsafeNext
    BY <1>5 DEF TickBoot, TickLead, TickGrace, TickWaits, selVars
  <2> QED BY <1>1, <1>2, <1>5, <2>1, PassDescends
<1>6. CASE TickFrozen \/ TickPinned \/ TickHoldsPin
  BY <1>3, <1>6 DEF TickFrozen, TickPinned, TickHoldsPin
<1>7. CASE TickFailsafe \/ TickDemote
  <2>1. PICK target \in {SafeFloor, rung - 1} : \E losses : StartDemote(target, losses)
    BY <1>7 DEF TickFailsafe, TickDemote
  <2>2. rung > SafeFloor /\ failsafeNext' \in {failsafeNext, now + FailsafeStep} /\ phase = "idle"
    BY <1>7 DEF TickFailsafe, TickDemote, FailsafeMoves, Adapts, Thawed
  <2>3. target \in Ladder /\ target < rung
    BY <2>1, <2>2, BelowFloor, EnvelopeOnLadder DEF OpInv, Ladder
  <2>4. /\ pending' = target /\ phase' = "lead" /\ phaseAt' = now + BitrateLead
        /\ UNCHANGED rung
    BY <2>1 DEF StartDemote
  <2> QED BY <1>1, <1>2, <2>2, <2>3, <2>4, DemoteDescends
<1>8. CASE TickFailsafeHolds
  <2>1. phase = "idle" /\ phase' = "idle" /\ rung' = rung /\ failsafeNext' = failsafeNext
    BY <1>8 DEF TickFailsafeHolds, Adapts, Thawed, Idle, opVars
  <2>2. failsafeNext \in Nat BY DEF Timers
  <2>3. rung > SafeFloor => now - Excused < ReportTimeout + FailsafeHold \/ ~(now >= failsafeNext)
    BY <1>8 DEF TickFailsafeHolds, FailsafeMoves, FailsafeHeld, ReportAge
  <2>4. rung > SafeFloor => now < q + ReportTimeout + FailsafeHold + 1 \/ now < failsafeNext
    BY <1>3, <1>4, <2>2, <2>3
  <2> QED BY <1>1, <1>2, <2>1, <2>4, StayDescends
<1>9. CASE TickHolds
  <2>1. phase = "idle" /\ phase' = "idle" /\ rung' = rung /\ failsafeNext' = failsafeNext
    BY <1>9 DEF TickHolds, Cascades, Adapts, Thawed, Idle, opVars
  <2>2. now - Excused <= ReportTimeout BY <1>9 DEF TickHolds, Cascades, Fresh, ReportAge
  <2>3. now < q + ReportTimeout + FailsafeHold + 1 BY <1>3, <1>4, <2>2
  <2> QED BY <1>1, <1>2, <2>1, <2>3, StayDescends
<1>10. CASE TickPromote
  <2>1. /\ phase = "idle" /\ phase' = "grace" /\ phaseAt' = now + McsGrace
        /\ failsafeNext' = failsafeNext
    BY <1>10 DEF TickPromote, Cascades, Adapts, Thawed
  <2>2. now - Excused <= ReportTimeout BY <1>10 DEF TickPromote, Cascades, Fresh, ReportAge
  <2>3. failsafeNext \in Nat BY DEF Timers
  <2>4. failsafeNext <= Excused + FailsafeStep BY <1>3, <1>4, <2>2 DEF StepTimer
  <2>5. now <= q + ReportTimeout /\ failsafeNext <= q + FailsafeStep
    BY <1>3, <1>4, <2>2, <2>3, <2>4
  <2> QED BY <1>1, <1>2, <2>1, <2>5, StayDescends
<1>11. CASE TickRepin
  <2>1. /\ phase = "idle" /\ phase' = "idle" /\ failsafeNext' = failsafeNext
        /\ rung' = IF rung > Hi THEN Hi ELSE Lo
    BY <1>11 DEF TickRepin, Thawed, Snap
  <2> DEFINE n == now
             w == NextTick
             act2 == Acts'
             fl == SafeFloor
             r == rung
             r2 == rung'
             k == r - fl
             k2 == r2 - fl
             due == DueIn(k)
             due2 == DueIn(k2)
             fs == failsafeNext
  <2>2. SafeFloor' = fl /\ Goal' = r2 /\ Goal = r
    BY <1>2, <2>1 DEF SafeFloor, ClampRung, Lo, Hi, Goal
  <2>3. Descends(q)' <=> (r2 > fl => act2 <= q + due2 /\ fs <= q + due2)
    BY <2>1, <2>2 DEF Descends
  <2>4. act2 = n + 1 BY <1>1, <2>1 DEF Acts, NextTick
  <2>5. r > fl => w <= q + due /\ fs <= q + due BY <2>1, <2>2 DEF Descends, Acts
  <2>6. w = n \/ w = n + 1 BY DEF NextTick
  <2>7. r \in Ladder /\ r2 \in Ladder /\ fl \in Ladder BY EnvelopeOnLadder DEF OpInv
  <2>8. Lo <= fl /\ fl <= Hi /\ Lo \in Ladder /\ Hi \in Ladder
    BY EnvelopeOnLadder, SelectorConstants DEF SafeFloor, ClampRung, Ladder
  <2>9. r2 > fl => r2 < r
    <3>1. CASE rung > Hi
      <4>1. rung' = Hi /\ rung > Hi /\ rung \in Ladder BY <2>1, <3>1 DEF OpInv
      <4> QED BY <4>1
    <3>2. CASE ~(rung > Hi)
      <4>1. r2 = Lo BY <2>1, <3>2
      <4> HIDE DEF r2, fl
      <4> QED BY <2>7, <2>8, <4>1 DEF Ladder
    <3> QED BY <3>1, <3>2
  <2>10. k = r - fl /\ k2 = r2 - fl /\ due = DueIn(k) /\ due2 = DueIn(k2) OBVIOUS
  <2>11. Top \in Nat /\ StepPace \in Nat BY SelectorTimes
  <2>12. n \in Nat /\ fs \in Nat BY DEF FreshInv, Timers
  <2> HIDE DEF n, w, act2, fl, r, r2, k, k2, due, due2, fs
  <2>13. ASSUME r2 > fl PROVE act2 <= q + due2 /\ fs <= q + due2
    <3>1. k \in Int /\ k2 \in Int /\ k2 >= 1 /\ k2 < k /\ k <= Top /\ k >= 1 /\ r > fl /\ k2 <= Top
      BY <2>7, <2>9, <2>10, <2>11, <2>13 DEF Ladder
    <3>2. due \in Nat /\ due2 \in Nat /\ due2 >= due + StepPace + 1
      BY <2>10, <3>1, DueFacts
    <3>3. w <= q + due /\ fs <= q + due BY <2>5, <3>1
    <3> QED BY <2>4, <2>6, <2>11, <2>12, <3>2, <3>3
  <2> QED BY <2>3, <2>13
<1> QED BY <1>1, <1>5, <1>6, <1>7, <1>8, <1>9, <1>10, <1>11 DEF SelTick

\* Every step keeps the descent on time.
LEMMA DescentStep ==
  ASSUME OpInv, FreshInv, Timers, StepTimer, DescentInv, [Next]_adaptiveVars
  PROVE  DescentInv'
<1> SUFFICES ASSUME haveReport', (Lo # Hi)', NEW q \in Nat,
                    q >= lastReport', q >= hPinAt', q >= csaFreeze'
             PROVE  Descends(q)'
  BY DEF DescentInv
<1>1. OpInv' /\ FreshInv' /\ Timers' BY OpStep, FreshStep, TimersStep
<1>2. now \in Nat /\ csaFreeze \in Nat /\ lastReport \in Nat /\ now' \in Nat
  BY <1>1 DEF FreshInv
<1>3. ASSUME q >= now' PROVE Descends(q)' BY <1>1, <1>3, FromNow
<1>4. CASE /\ UNCHANGED <<ticked, phaseAt, phase, pending, rung, now, pin>>
           /\ UNCHANGED <<haveReport, lastReport, csaFreeze, hPinAt>>
           /\ failsafeNext' \in {failsafeNext, 0}
  <2>1. /\ SafeFloor' = SafeFloor /\ Goal' = Goal /\ Lo' = Lo /\ Hi' = Hi
        /\ Acts' = Acts /\ Lands' = Lands
    BY <1>4 DEF SafeFloor, ClampRung, Lo, Hi, Goal, Acts, Lands, NextTick
  <2>2. Descends(q) BY <1>4, <2>1 DEF DescentInv
  <2>3. Goal > SafeFloor => 0 <= q + DueIn(Goal - SafeFloor)
    <3>1. Goal \in Ladder /\ SafeFloor \in Ladder BY EnvelopeOnLadder DEF Goal, OpInv
    <3>2. ASSUME Goal > SafeFloor PROVE DueIn(Goal - SafeFloor) \in Nat
      <4>1. Goal - SafeFloor \in Int /\ Goal - SafeFloor >= 1 /\ Goal - SafeFloor <= Top
        BY <3>1, <3>2, TopIsNat DEF Ladder
      <4> QED BY <4>1, DueFacts
    <3>3. \A x, y \in Nat : 0 <= x + y OBVIOUS
    <3> QED BY <3>2, <3>3
  <2> QED BY <1>4, <2>1, <2>2, <2>3 DEF Descends
<1>5. ASSUME NEW id, NEW shape, Report(id, shape) PROVE Descends(q)'
  <2>1. lastReport' = now /\ now' = now BY <1>5 DEF Report, OnReport, Quiet, envVars
  <2> QED BY <1>3, <2>1
<1>6. ASSUME NEW id, Replay(id) PROVE Descends(q)'
  BY <1>4, <1>6 DEF Replay, Quiet, envVars, selVars, opVars, reportVars
<1>7. ASSUME NEW id, NEW sat, Verdict(id, sat) PROVE Descends(q)'
  BY <1>4, <1>7 DEF Verdict, OnVerdict, Quiet, envVars, histVars, opVars, reportVars
<1>8. ASSUME NEW orig, Claim(orig) PROVE Descends(q)'
  <2>1. csaFreeze' = Max({csaFreeze, now + Settle}) /\ now' = now
    BY <1>8 DEF Claim, CsaFreeze, Event
  <2>2. csaFreeze \in Int /\ now + Settle \in Int /\ Settle \in Nat BY <1>2, AdaptiveConstants
  <2>3. /\ Max({csaFreeze, now + Settle}) \in {csaFreeze, now + Settle}
        /\ Max({csaFreeze, now + Settle}) >= now + Settle
    BY <2>2, MaxOfTwo
  <2>4. q >= now' BY <1>2, <2>1, <2>2, <2>3
  <2> QED BY <1>3, <2>4
<1>9. ASSUME NEW c, Retune(c) \/ Release(c) PROVE Descends(q)'
  BY <1>4, <1>9 DEF Retune, Release, OnRfEnvironment, ResetRest, Event, histVars, selVars, opVars,
                    reportVars
<1>10. ASSUME NEW p, Repin(p) PROVE Descends(q)'
  <2>1. hPinAt' = now /\ now' = now BY <1>10 DEF Repin, Event
  <2> QED BY <1>3, <2>1
<1>11. CASE Advance
  <2>1. /\ now' = now + 1 /\ ticked = TRUE /\ ticked' = FALSE
        /\ UNCHANGED <<phaseAt, failsafeNext, phase, pending, rung, pin>>
        /\ UNCHANGED <<haveReport, lastReport, csaFreeze, hPinAt>>
    BY <1>11 DEF Advance, selVars, opVars, reportVars, histVars, Timers
  <2>2. NextTick' = NextTick BY <2>1 DEF NextTick
  <2>3. /\ SafeFloor' = SafeFloor /\ Goal' = Goal /\ Lo' = Lo /\ Hi' = Hi
        /\ Acts' = Acts /\ Lands' = Lands
    BY <2>1, <2>2 DEF SafeFloor, ClampRung, Lo, Hi, Goal, Acts, Lands
  <2>4. Descends(q) BY <2>1, <2>3 DEF DescentInv
  <2> QED BY <2>1, <2>3, <2>4 DEF Descends
<1>12. CASE Tick
  <2>1. SelTick /\ now' = now /\ hPinAt' = hPinAt BY <1>12 DEF Tick, histVars
  <2>2. UNCHANGED <<haveReport, pin>> BY <2>1, TickThaws
  <2>3. haveReport /\ Lo # Hi BY <2>2 DEF Lo, Hi
  <2>4. Excused <= q /\ csaFreeze <= q /\ lastReport <= q
    <3>1. CASE Thaw
      <4>1. /\ lastReport' = Excused /\ Excused \in Nat /\ Excused >= csaFreeze
            /\ Excused >= lastReport
        BY <2>2, <2>3, <3>1, ThawExcuses DEF Thaw
      <4>2. Excused <= q BY <4>1
      <4> QED BY <1>2, <4>1, <4>2
    <3>2. CASE UNCHANGED <<lastReport, csaFreeze>>
      <4>1. csaFreeze <= q /\ lastReport <= q BY <1>2, <3>2
      <4> QED BY <4>1 DEF Excused
    <3> QED BY <2>1, <3>1, <3>2, TickThaws
  <2>5. Descends(q) BY <1>2, <2>1, <2>3, <2>4 DEF DescentInv, Timers
  <2>6. CASE q < now BY <1>1, <1>12, <2>3, <2>4, <2>5, <2>6, TickDescends
  <2>7. CASE ~(q < now)
    <3>1. q >= now' BY <1>2, <2>1, <2>7
    <3> QED BY <1>3, <3>1
  <2> QED BY <2>6, <2>7
<1>13. CASE UNCHANGED adaptiveVars
  BY <1>4, <1>13 DEF adaptiveVars, selVars, opVars, reportVars, histVars, envVars
<1> QED BY <1>5, <1>6, <1>7, <1>8, <1>9, <1>10, <1>11, <1>12, <1>13 DEF Next, HoldRung

\* Past the descent a craft above the floor would have acted, or landed, already.
LEMMA DescentImplies ==
  ASSUME OpInv, FreshInv, Timers, DescentInv
  PROVE  DescentBounded
<1> SUFFICES ASSUME haveReport, csaFreeze = 0, Lo # Hi,
                    now - Max({lastReport, hPinAt}) > Descent, ~(rung <= SafeFloor)
             PROVE  FALSE
  BY DEF DescentBounded
<1> DEFINE q == Max({lastReport, hPinAt})
           n == now
           w == NextTick
           l == Lands
           act == Acts
           g == Goal
           fl == SafeFloor
           k == g - fl
           due == DueIn(k)
<1>1. lastReport \in Nat /\ hPinAt \in Nat /\ n \in Nat /\ phaseAt \in Nat BY DEF FreshInv, Timers
<1>2. q \in Nat /\ q >= lastReport /\ q >= hPinAt
  <2>1. lastReport \in Int /\ hPinAt \in Int BY <1>1
  <2> QED BY <1>1, <2>1, MaxOfTwo
<1>3. Descends(q) BY <1>2 DEF DescentInv
<1>4. w \in Nat /\ w >= n
  <2>1. w = n \/ w = n + 1 BY DEF NextTick
  <2> HIDE DEF w, n
  <2> QED BY <1>1, <2>1
<1>5. l \in Nat /\ l >= w
  <2>1. (phaseAt > w => l = phaseAt) /\ (~(phaseAt > w) => l = w) BY DEF Lands
  <2> HIDE DEF w, l
  <2> QED BY <1>1, <1>4, <2>1
<1>6. act = w \/ act = w + 1 \/ act = l + 1 BY DEF Acts
<1>7. g \in Ladder /\ fl \in Ladder /\ rung \in Ladder BY EnvelopeOnLadder DEF OpInv, Goal
<1>8. g > fl => act <= q + due BY <1>3 DEF Descends
<1>9. rung > fl BY <1>7 DEF Ladder
<1>10. ~(g > fl) => l <= q + Descent
  <2>1. ~(g > fl) => phase = "lead" BY <1>9 DEF Goal
  <2> QED BY <1>3, <1>9, <2>1 DEF Descends
<1>11. n - q > Descent /\ due = DueIn(k) /\ k = g - fl OBVIOUS
<1>12. Top \in Nat /\ StepPace \in Nat BY SelectorTimes
<1> HIDE DEF q, n, w, l, act, g, fl, k, due
<1>13. 1 <= Top BY <1>7, <1>9, <1>12 DEF Ladder
<1>14. Descent \in Nat
  <2>1. 1 \in Int /\ 1 >= 1 BY <1>12
  <2> QED BY <1>13, <2>1, DueFacts
<1>15. CASE g > fl
  <2>1. k \in Int /\ k >= 1 /\ k <= Top BY <1>7, <1>11, <1>12, <1>15 DEF Ladder
  <2>2. due \in Nat /\ due + StepPace <= Descent BY <1>11, <2>1, DueFacts
  <2>3. act <= q + due BY <1>8, <1>15
  <2> QED BY <1>1, <1>2, <1>4, <1>5, <1>6, <1>11, <1>12, <1>14, <2>2, <2>3
<1>16. CASE ~(g > fl)
  <2>1. l <= q + Descent BY <1>10, <1>16
  <2> QED BY <1>1, <1>2, <1>4, <1>5, <1>11, <1>14, <2>1
<1> QED BY <1>15, <1>16
-----------------------------------------------------------------------------
(* The lockout.                                                              *)

\* A rung's loss account.
Cell == [score : Nat, strikes : Nat, until : Nat, latched : BOOLEAN]

Below(r) == rung < r \/ (phase = "lead" /\ pending < r)

\* What LockoutHolds needs to be inductive: until the operator moves the envelope the craft
\* is inside it, so no re-pin snaps it, and every locked rung is above the resolved floor,
\* so the envelope never overrides a lockout.
LockInv ==
  /\ rungLoss \in [Ladder -> Cell]
  /\ hPinAt = 0 =>
       /\ Lo <= rung /\ rung <= Hi /\ (phase = "lead" => Lo <= pending)
       /\ \A r \in Ladder : Locked(r) => r > SafeFloor /\ Below(r)

\* The resolved floor is inside the envelope.
LEMMA FloorInside == Lo <= SafeFloor /\ SafeFloor <= Hi
BY EnvelopeOnLadder, SelectorConstants DEF SafeFloor, ClampRung, Ladder

\* A step that frees locks, or leaves them, and moves nothing.
LEMMA LocksKept ==
  ASSUME LockInv, UNCHANGED <<rung, phase, pending, pin, hPinAt>>,
         rungLoss' \in [Ladder -> Cell], \A r \in Ladder : Locked(r)' => Locked(r)
  PROVE  LockInv'
<1>1. Lo' = Lo /\ Hi' = Hi /\ SafeFloor' = SafeFloor BY DEF SafeFloor, ClampRung, Lo, Hi
<1>2. \A r : Below(r)' <=> Below(r) BY DEF Below
<1>3. ASSUME hPinAt' = 0
      PROVE  /\ Lo' <= rung' /\ rung' <= Hi' /\ (phase' = "lead" => Lo' <= pending')
             /\ \A r \in Ladder : Locked(r)' => r > SafeFloor' /\ Below(r)'
  BY <1>1, <1>2, <1>3 DEF LockInv
<1> QED BY <1>3 DEF LockInv

\* The cleared accounts lock nothing.
LEMMA NothingLocked ==
  ASSUME now' \in Nat, rungLoss' = [r \in Ladder |-> NoLoss]
  PROVE  rungLoss' \in [Ladder -> Cell] /\ \A r \in Ladder : ~Locked(r)'
<1>1. NoLoss \in Cell BY DEF NoLoss, Cell
<1>2. ASSUME NEW r \in Ladder PROVE ~Locked(r)'
  <2>1. rungLoss'[r].until = 0 /\ rungLoss'[r].latched = FALSE BY DEF NoLoss
  <2>2. ~(now' < 0) OBVIOUS
  <2> QED BY <2>1, <2>2 DEF Locked
<1> QED BY <1>1, <1>2

\* A report scores the rung it was heard on and touches no lock.
LEMMA ReportKeepsLocks ==
  ASSUME OpInv, LockInv, now \in Nat, now' = now, NEW r, OnReport(r)
  PROVE  rungLoss' \in [Ladder -> Cell] /\ \A x \in Ladder : Locked(x)' => Locked(x)
<1> DEFINE cleared == [x \in Ladder |-> NoLoss]
           before == IF source # r.id THEN cleared ELSE rungLoss
<1>1. NoLoss \in Cell /\ rung \in Ladder BY DEF NoLoss, Cell, OpInv
<1>2. before \in [Ladder -> Cell] BY <1>1 DEF LockInv
<1>3. \/ rungLoss' = before
      \/ rungLoss' = [before EXCEPT ![rung] = Scored(before[rung], r)]
  BY DEF OnReport, ResetValues
<1>4. \A x \in Ladder : before[x].latched \/ now < before[x].until => Locked(x)
  <2>1. CASE source # r.id
    <3>1. \A x \in Ladder : before[x].latched = FALSE /\ before[x].until = 0 BY <2>1 DEF NoLoss
    <3>2. ~(now < 0) OBVIOUS
    <3> QED BY <3>1, <3>2
  <2>2. CASE source = r.id BY <2>2 DEF Locked
  <2> QED BY <2>1, <2>2
<1> HIDE DEF before
<1>5. ASSUME NEW c \in Cell
      PROVE /\ Scored(c, r) \in Cell /\ Scored(c, r).until = c.until
            /\ Scored(c, r).latched = c.latched
  <2>1. c.score \in Nat /\ PersistScore \in Nat BY SelectorConstants DEF Cell
  <2>2. PICK s \in Nat : Scored(c, r) = [c EXCEPT !.score = s]
    BY <2>1 DEF Scored
  <2> QED BY <1>5, <2>2 DEF Cell
<1>6. rungLoss' \in [Ladder -> Cell]
      /\ \A x \in Ladder : rungLoss'[x].until = before[x].until /\ rungLoss'[x].latched = before[x].latched
  <2>1. before[rung] \in Cell BY <1>1, <1>2
  <2>2. CASE rungLoss' = before BY <1>2, <2>2
  <2>3. CASE rungLoss' = [before EXCEPT ![rung] = Scored(before[rung], r)]
    BY <1>1, <1>2, <1>5, <2>1, <2>3
  <2> QED BY <1>3, <2>2, <2>3
<1> QED BY <1>4, <1>6 DEF Locked

\* What is charged on a demote is the rung it vacates.
LEMMA ChargedLocks ==
  ASSUME OpInv, LockInv, now \in Nat, now' = now, rungLoss' \in {rungLoss, Charged}
  PROVE  /\ rungLoss' \in [Ladder -> Cell]
         /\ \A x \in Ladder : Locked(x)' => Locked(x) \/ x = rung
<1> DEFINE strikes == Min({rungLoss[rung].strikes + 1, LatchCount})
           cell == [score |-> 0, strikes |-> strikes, latched |-> strikes >= LatchCount,
                    until |-> IF strikes >= LatchCount THEN 0 ELSE now + RungLockout]
<1>1. rung \in Ladder /\ rungLoss \in [Ladder -> Cell] BY DEF OpInv, LockInv
<1>2. rungLoss[rung].strikes \in Nat BY <1>1 DEF Cell
<1>3. LatchCount \in Nat /\ RungLockout \in Nat BY SelectorConstants
<1>4. strikes \in Nat
  <2> DEFINE a == rungLoss[rung].strikes + 1
  <2>1. a \in Nat BY <1>2
  <2> HIDE DEF a
  <2>2. \E x \in {a, LatchCount} : \A y \in {a, LatchCount} : x <= y
    <3>1. CASE a <= LatchCount BY <1>3, <2>1, <3>1
    <3>2. CASE LatchCount <= a BY <1>3, <2>1, <3>2
    <3> QED BY <1>3, <2>1, <3>1, <3>2
  <2>3. Min({a, LatchCount}) \in {a, LatchCount} BY <2>2 DEF Min
  <2>4. Min({a, LatchCount}) \in Nat BY <1>3, <2>1, <2>3
  <2> QED BY <2>4 DEF a
<1>5. rungLoss' \in {rungLoss, [rungLoss EXCEPT ![rung] = cell]} BY DEF Charged
<1> HIDE DEF strikes
<1>6. cell \in Cell BY <1>3, <1>4 DEF Cell
<1> HIDE DEF cell
<1>7. rungLoss' \in [Ladder -> Cell] /\ \A x \in Ladder : x # rung => rungLoss'[x] = rungLoss[x]
  BY <1>1, <1>5, <1>6
<1> QED BY <1>7 DEF Locked

\* Each arm of the tick keeps the craft inside the envelope and below its locked rungs.
LEMMA TickLocks ==
  ASSUME OpInv, FreshInv, LockInv, SelTick, now' = now, hPinAt' = hPinAt
  PROVE  LockInv'
<1>1. now \in Nat BY DEF FreshInv
<1>2. pin' = pin BY TickThaws
<1>3. Lo' = Lo /\ Hi' = Hi /\ SafeFloor' = SafeFloor BY <1>2 DEF SafeFloor, ClampRung, Lo, Hi
<1>4. rung \in Ladder /\ pending \in Ladder /\ rungLoss \in [Ladder -> Cell] BY DEF OpInv, LockInv
<1>5. Lo \in Ladder /\ Hi \in Ladder /\ SafeFloor \in Ladder /\ Lo <= SafeFloor /\ Top \in Nat
  BY EnvelopeOnLadder, FloorInside, TopIsNat
<1>6. CASE UNCHANGED <<rung, pending, rungLoss>> /\ phase # "lead" /\ phase' # "lead"
  <2>1. \A r \in Ladder : (Locked(r)' <=> Locked(r)) /\ (Below(r)' <=> Below(r))
    BY <1>6 DEF Locked, Below
  <2>2. /\ rung' = rung /\ rungLoss' = rungLoss /\ phase' # "lead" BY <1>6
  <2> QED BY <1>3, <2>1, <2>2 DEF LockInv
<1>7. CASE TickBoot \/ TickGrace
  BY <1>6, <1>7 DEF TickBoot, TickGrace, lossVars
<1>8. CASE TickWaits \/ TickFrozen
  <2>1. UNCHANGED <<rung, phase, pending, rungLoss>>
    BY <1>8 DEF TickWaits, TickFrozen, selVars, opVars, lossVars
  <2>2. \A r \in Ladder : Locked(r)' => Locked(r) BY <2>1 DEF Locked
  <2> QED BY <1>2, <1>4, <2>1, <2>2, LocksKept
<1>9. CASE TickHoldsPin \/ TickFailsafeHolds \/ TickHolds
  BY <1>6, <1>9 DEF TickHoldsPin, TickFailsafeHolds, TickHolds, Cascades, Adapts, Thawed, Idle, opVars
<1>10. CASE TickLead
  <2>1. phase = "lead" /\ phase' = "idle" /\ rung' = pending /\ rungLoss' = rungLoss
    BY <1>10 DEF TickLead, lossVars
  <2>2. pending <= rung BY <2>1 DEF OpInv
  <2>3. ASSUME NEW r \in Ladder, Below(r) PROVE Below(r)'
    <3>1. rung < r \/ pending < r BY <2>3 DEF Below
    <3>2. pending < r BY <1>4, <1>5, <2>2, <3>1 DEF Ladder
    <3> QED BY <2>1, <3>2 DEF Below
  <2>4. \A r \in Ladder : Locked(r)' => Locked(r) BY <2>1 DEF Locked
  <2>5. ASSUME hPinAt = 0 PROVE Lo <= pending /\ pending <= Hi
    <3>1. Lo <= pending /\ rung <= Hi BY <2>1, <2>5 DEF LockInv
    <3> QED BY <1>4, <1>5, <2>2, <3>1 DEF Ladder
  <2>6. hPinAt = 0 => \A r \in Ladder : Locked(r)' => r > SafeFloor' /\ Below(r)'
    BY <1>3, <2>3, <2>4 DEF LockInv
  <2> QED BY <1>3, <1>4, <2>1, <2>5, <2>6 DEF LockInv
<1>11. CASE TickPinned \/ TickRepin
  <2>1. rungLoss' = rungLoss BY <1>11 DEF TickPinned, TickRepin, Snap, lossVars
  <2>2. ASSUME hPinAt = 0 PROVE FALSE
    <3>1. Lo <= rung /\ rung <= Hi BY <2>2 DEF LockInv
    <3> QED BY <1>4, <1>5, <1>11, <3>1 DEF TickPinned, TickRepin, OutOfBand, Ladder
  <2> QED BY <1>4, <2>1, <2>2 DEF LockInv
<1>12. CASE TickFailsafe \/ TickDemote
  <2>1. PICK target \in {SafeFloor, rung - 1}, losses \in {rungLoss, Charged} :
           StartDemote(target, losses)
    BY <1>12 DEF TickFailsafe, TickDemote
  <2>2. rung > SafeFloor BY <1>12 DEF TickFailsafe, TickDemote, FailsafeMoves
  <2>3. target < rung /\ target >= Lo BY <1>4, <1>5, <2>1, <2>2 DEF Ladder
  <2>4. pending' = target /\ phase' = "lead" /\ rung' = rung /\ rungLoss' \in {rungLoss, Charged}
    BY <2>1 DEF StartDemote
  <2>5. phase = "idle" BY <1>12 DEF TickFailsafe, TickDemote, Adapts, Thawed
  <2>6. /\ rungLoss' \in [Ladder -> Cell]
        /\ \A x \in Ladder : Locked(x)' => Locked(x) \/ x = rung
    BY <1>1, <2>4, ChargedLocks
  <2>7. \A x \in Ladder : Below(x) \/ x = rung => Below(x)'
    BY <2>3, <2>4, <2>5 DEF Below
  <2>8. ASSUME hPinAt = 0
        PROVE  /\ Lo <= rung /\ rung <= Hi
               /\ \A r \in Ladder : Locked(r)' => r > SafeFloor /\ Below(r)'
    BY <2>2, <2>6, <2>7, <2>8 DEF LockInv
  <2> QED BY <1>3, <2>3, <2>4, <2>6, <2>8 DEF LockInv
<1>13. CASE TickPromote
  <2>1. rung' = rung + 1 /\ phase' = "grace" /\ rungLoss' = rungLoss /\ phase = "idle"
    BY <1>13 DEF TickPromote, Cascades, Adapts, Thawed
  <2>2. ClimbOpen(rung + 1) BY <1>13 DEF TickPromote, MayPromote
  <2>3. \A r \in Ladder : Locked(r)' <=> Locked(r) BY <2>1 DEF Locked
  <2>4. ASSUME hPinAt = 0
        PROVE  /\ Lo <= rung' /\ rung' <= Hi
               /\ \A r \in Ladder : Locked(r)' => r > SafeFloor /\ Below(r)'
    <3>1. Lo <= rung /\ \A r \in Ladder : Locked(r) => r > SafeFloor BY <2>4 DEF LockInv
    <3>2. ~Conflict
      <4>1. ASSUME NEW r \in 0 .. Lo, Locked(r) PROVE FALSE
        <5>1. r \in Ladder /\ r <= Lo BY <1>5, <4>1 DEF Ladder
        <5>2. r > SafeFloor BY <3>1, <4>1, <5>1
        <5> QED BY <1>5, <5>1, <5>2 DEF Ladder
      <4> QED BY <4>1 DEF Conflict
    <3>3. rung + 1 <= Hi /\ \A r \in 0 .. rung + 1 : ~Locked(r) BY <2>2, <3>2 DEF ClimbOpen
    <3>4. ASSUME NEW r \in Ladder, Locked(r) PROVE rung + 1 < r
      BY <1>4, <1>5, <3>3, <3>4 DEF Ladder
    <3>5. Lo <= rung + 1 BY <1>4, <1>5, <3>1 DEF Ladder
    <3>6. \A r \in Ladder : Locked(r)' => r > SafeFloor /\ Below(r)'
      BY <2>1, <2>3, <3>1, <3>4 DEF Below
    <3> QED BY <2>1, <3>3, <3>5, <3>6
  <2> QED BY <1>3, <1>4, <2>1, <2>4 DEF LockInv
<1> QED BY <1>7, <1>8, <1>9, <1>10, <1>11, <1>12, <1>13 DEF SelTick

\* Every step keeps the lockout; the operator's re-pin ends the promise.
LEMMA LockStep ==
  ASSUME OpInv, FreshInv, LockInv, [Next]_adaptiveVars
  PROVE  LockInv'
<1>1. now \in Nat /\ now > 0 /\ rungLoss \in [Ladder -> Cell] BY DEF FreshInv, LockInv
<1>2. CASE UNCHANGED <<rung, phase, pending, pin, hPinAt, rungLoss, now>>
  <2>1. \A r \in Ladder : Locked(r)' => Locked(r) BY <1>2 DEF Locked
  <2> QED BY <1>1, <1>2, <2>1, LocksKept
<1>3. ASSUME NEW id, NEW shape, Report(id, shape) PROVE LockInv'
  <2>1. /\ UNCHANGED <<rung, phase, pending, pin, hPinAt, now>> /\ \E r : OnReport(r)
    BY <1>3 DEF Report, OnReport, Quiet, envVars
  <2>2. rungLoss' \in [Ladder -> Cell] /\ \A x \in Ladder : Locked(x)' => Locked(x)
    BY <1>1, <2>1, ReportKeepsLocks
  <2> QED BY <2>1, <2>2, LocksKept
<1>4. ASSUME NEW id, Replay(id) PROVE LockInv'
  BY <1>2, <1>4 DEF Replay, Quiet, envVars, selVars, opVars, lossVars
<1>5. ASSUME NEW id, NEW sat, Verdict(id, sat) PROVE LockInv'
  BY <1>2, <1>5 DEF Verdict, OnVerdict, Quiet, envVars, histVars, opVars, lossVars
<1>6. ASSUME NEW orig, Claim(orig) PROVE LockInv'
  BY <1>2, <1>6 DEF Claim, CsaFreeze, Event, opVars, lossVars
<1>7. ASSUME NEW c, Retune(c) \/ Release(c) PROVE LockInv'
  <2>1. UNCHANGED <<rung, phase, pending, pin, hPinAt, now>>
    BY <1>7 DEF Retune, Release, OnRfEnvironment, Event, histVars, selVars, opVars
  <2>2. CASE UNCHANGED rungLoss BY <1>2, <2>1, <2>2
  <2>3. CASE OnRfEnvironment(c)
    <3>1. rungLoss' = [r \in Ladder |-> NoLoss] /\ now' \in Nat
      BY <1>1, <2>1, <2>3 DEF OnRfEnvironment, ResetValues
    <3>2. rungLoss' \in [Ladder -> Cell] /\ \A r \in Ladder : ~Locked(r)' BY <3>1, NothingLocked
    <3> QED BY <2>1, <3>2, LocksKept
  <2> QED BY <1>7, <2>2, <2>3 DEF Retune, Release, selVars, lossVars
<1>8. ASSUME NEW p, Repin(p) PROVE LockInv'
  <2>1. hPinAt' = now /\ rungLoss' = rungLoss BY <1>8 DEF Repin, SetProfilePin, lossVars
  <2> QED BY <1>1, <2>1 DEF LockInv
<1>9. CASE Advance
  <2>1. now' = now + 1 /\ UNCHANGED <<rung, phase, pending, pin, hPinAt, rungLoss>>
    BY <1>9 DEF Advance, selVars, opVars, lossVars, histVars
  <2>2. ASSUME NEW r \in Ladder, Locked(r)' PROVE Locked(r)
    <3>1. rungLoss[r].until \in Nat BY <1>1 DEF Cell
    <3>2. now + 1 < rungLoss[r].until => now < rungLoss[r].until BY <1>1, <3>1
    <3> QED BY <2>1, <2>2, <3>2 DEF Locked
  <2> QED BY <1>1, <2>1, <2>2, LocksKept
<1>10. CASE Tick
  BY <1>10, TickLocks DEF Tick, histVars
<1>11. CASE UNCHANGED adaptiveVars
  BY <1>2, <1>11 DEF adaptiveVars, selVars, opVars, lossVars, histVars, envVars
<1> QED BY <1>3, <1>4, <1>5, <1>6, <1>7, <1>8, <1>9, <1>10, <1>11 DEF Next, HoldRung

\* At boot nothing was heard and nothing is locked; the craft starts at the resolved floor.
LEMMA RungInit == Init => Timers /\ StepTimer /\ DescentInv /\ LockInv
<1> SUFFICES ASSUME Init PROVE Timers /\ StepTimer /\ DescentInv /\ LockInv OBVIOUS
<1>1. /\ ticked = FALSE /\ phaseAt = 0 /\ failsafeNext = 0 /\ hPinAt = 0 /\ now = 1
      /\ phase = "boot" /\ haveReport = FALSE /\ rungLoss = [r \in Ladder |-> NoLoss]
      /\ rung = BootRung(pin)
  BY DEF Init, SelInit
<1>2. FailsafeStep \in Nat BY SelectorTimes
<1>3. Timers
  <2>1. 0 \in Nat /\ 0 <= 1 + FailsafeStep BY <1>2
  <2>2. ticked \in BOOLEAN /\ phase # "lead" /\ phase # "grace" BY <1>1
  <2> QED BY <1>1, <2>1, <2>2 DEF Timers
<1>4. StepTimer /\ DescentInv BY <1>1 DEF StepTimer, DescentInv
<1>5. rung = SafeFloor BY <1>1 DEF BootRung, SafeFloor, ClampRung, Lo, Hi
<1>6. rungLoss \in [Ladder -> Cell] BY <1>1 DEF NoLoss, Cell
<1>7. ASSUME NEW r \in Ladder PROVE ~Locked(r)
  <2>1. rungLoss[r].until = 0 /\ rungLoss[r].latched = FALSE BY <1>1 DEF NoLoss
  <2>2. ~(1 < 0) OBVIOUS
  <2> QED BY <1>1, <2>1, <2>2 DEF Locked
<1>8. LockInv BY <1>1, <1>5, <1>6, <1>7, FloorInside DEF LockInv
<1> QED BY <1>3, <1>4, <1>8

\* For every ladder, every timing, every envelope and every order of reports, replays, pins,
\* freezes and retunes: once the feedback has been silent for the longest descent the craft
\* is at the resolved floor, and until the operator moves the envelope a locked rung is
\* never in use (selector.cpp evaluate, the fail-safe and the lockout).
THEOREM RungAlwaysSound == Spec => []RungSound
<1> DEFINE RInv == OpInv /\ FreshInv /\ Timers /\ StepTimer /\ DescentInv /\ LockInv
<1>1. Init => RInv BY OpInvInit, FreshInit, RungInit
<1>2. RInv /\ [Next]_adaptiveVars => RInv'
  BY OpStep, FreshStep, TimersStep, StepTimerStep, DescentStep, LockStep
<1>3. RInv => RungSound
  <2>1. LockInv => LockoutHolds BY DEF LockInv, LockoutHolds, Below
  <2> QED BY <2>1, DescentImplies DEF RungSound
<1> QED BY <1>1, <1>2, <1>3, PTL DEF Spec
=============================================================================
