------------------------------ MODULE Selector ------------------------------
(* The craft's adaptive selector (core/src/selector.cpp): the cascade over   *)
(* the profile ladder, its sequenced transitions, the per-rung lockout, the  *)
(* flap freeze and the fail-safe.                                            *)
(*                                                                           *)
(* A rung is its index, and a profile id is the index of its rung.  Smoothed *)
(* values are abstracted to what the cascade tells apart: signal is the      *)
(* highest rung whose RSSI need is met (Weak: at or below rssi_floor_dbm),   *)
(* lossy says the loss EWMA is at demote_milli or above, and an EWMA update  *)
(* may end anywhere between the old value and the sample.  The pressure      *)
(* gauge has no caller in the program (set_pressure is only reached from     *)
(* tests), so it stays off and rule 5 never fires.                           *)
EXTENDS Integers, FiniteSets, FiniteSetsExt

CONSTANTS
  Top,              \* the highest rung of the ladder 0 .. Top
  Rate,             \* derived and clamped bitrate of each rung
  FloorProfile,     \* the table's floor_profile
  ReportTimeout, FailsafeHold, FailsafeStep,
  BitrateLead, McsGrace, PromoteDwell, DownCooldown,
  PersistScore,     \* loss_persist_score
  RungLockout, LatchCount,
  FadeTicks,
  ReentryBackoff, ReentryDwell,
  FlapCount, FlapWindow, FlapFreeze,
  VerdictTtl, ProbeTtl

Ladder == 0 .. Top
Weak == -1
Signals == Weak .. Top
NoSource == [orig |-> 0, session |-> 0]

ASSUME SelectorConstants ==
  /\ Top \in Nat /\ FloorProfile \in Ladder
  /\ Rate \in [Ladder -> Nat]
  /\ {ReportTimeout, FailsafeHold, FailsafeStep, BitrateLead, McsGrace,
      PromoteDwell, DownCooldown, PersistScore, RungLockout, LatchCount, FadeTicks,
      ReentryBackoff, ReentryDwell, FlapCount, FlapWindow, FlapFreeze,
      VerdictTtl, ProbeTtl} \subseteq Nat

\* derive_bitrate_kbps grows with the rung on every shipped ladder.
ASSUME RateMonotone == \A a, b \in Ladder : a <= b => Rate[a] <= Rate[b]

VARIABLES
  now,
  rung, phase, pending, phaseAt, lastChange, lastDemote, bitrate,
  pin,              \* [min, max] profile ids; an id above Top is absent
  source, haveReport, lastReport,
  smoothed, signal, lossy, fade,
  rungLoss,         \* per rung: score, strikes, until, latched
  observed, emergency,
  flaps, freezeUntil, demotedFrom, promotedInto,
  saturatedAt,      \* when the last verdict was Saturated, else 0
  vetoAt,           \* when the last probe evidence spoke against a climb, else 0
  csaFreeze, failsafeNext,
  environment       \* the RF tuple the state is conditioned on

opVars == <<rung, phase, pending, phaseAt, lastChange, lastDemote, bitrate>>
reportVars == <<source, haveReport>>
radioVars == <<smoothed, signal, lossy, fade>>
lossVars == <<rungLoss, observed, emergency>>
flapVars == <<flaps, freezeUntil, demotedFrom, promotedInto>>
selVars == <<opVars, pin, reportVars, lastReport, radioVars, lossVars, flapVars,
             saturatedAt, vetoAt, csaFreeze, failsafeNext, environment>>

-----------------------------------------------------------------------------
(* The operator's envelope and the resolved floor.                           *)

RungOfId(id, fallback) == IF id \in Ladder THEN id ELSE fallback
Hi == RungOfId(pin.max, Top)
Lo == IF RungOfId(pin.min, 0) > Hi THEN Hi ELSE RungOfId(pin.min, 0)
ClampRung(r) == IF r < Lo THEN Lo ELSE IF r > Hi THEN Hi ELSE r
SafeFloor == ClampRung(FloorProfile)

\* The same envelope for the pin a selector boots with.
BootRung(p) ==
  LET hi == RungOfId(p.max, Top)
      lo == IF RungOfId(p.min, 0) > hi THEN hi ELSE RungOfId(p.min, 0)
  IN IF FloorProfile < lo THEN lo ELSE IF FloorProfile > hi THEN hi ELSE FloorProfile

NoLoss == [score |-> 0, strikes |-> 0, until |-> 0, latched |-> FALSE]
Zeros == [r \in Ladder |-> 0]

SelInit(bootPin, channel) ==
  /\ rung = BootRung(bootPin) /\ phase = "boot" /\ pending = 0 /\ phaseAt = 0
  /\ lastChange = 0 /\ lastDemote = 0 /\ bitrate = 0 /\ pin = bootPin
  /\ source = NoSource /\ haveReport = FALSE /\ lastReport = 0
  /\ smoothed = FALSE /\ signal = Top /\ lossy = FALSE /\ fade = 0
  /\ rungLoss = [r \in Ladder |-> NoLoss] /\ observed = 0 /\ emergency = FALSE
  /\ flaps = {} /\ freezeUntil = 0 /\ demotedFrom = Zeros /\ promotedInto = Zeros
  /\ saturatedAt = 0 /\ vetoAt = 0 /\ csaFreeze = 0 /\ failsafeNext = 0
  /\ environment = channel

Locked(r) == rungLoss[r].latched \/ now < rungLoss[r].until

\* rung_ < adaptive_hi, for the next rung: no rung up to it is locked, unless
\* the envelope starts at or above a locked rung and overrides the lockout.
Conflict == \E r \in 0 .. Lo : Locked(r)
\* Mutant: the locked rung itself may be tried.
ClimbOpenAtLocked(next) ==
  next <= Hi /\ (Conflict \/ \A r \in 0 .. next - 1 : ~Locked(r))

ClimbOpen(next) == next <= Hi /\ (Conflict \/ \A r \in 0 .. next : ~Locked(r))

-----------------------------------------------------------------------------
(* Inputs.                                                                   *)

Between(a, b) == IF a <= b THEN a .. b ELSE b .. a

\* reset_environment_state.  A cleared RSSI average reads 0 dBm, which meets
\* the need of every rung.
ResetValues ==
  [rungLoss |-> [r \in Ladder |-> NoLoss], signal |-> Top, lossy |-> FALSE,
   fade |-> 0, smoothed |-> FALSE]

ResetRest ==
  /\ flaps' = {} /\ freezeUntil' = 0 /\ demotedFrom' = Zeros /\ promotedInto' = Zeros
  /\ failsafeNext' = 0 /\ lastDemote' = 0 /\ lastChange' = now

\* on_rf_environment: the first tuple is set at construction, a change resets.
OnRfEnvironment(c) ==
  /\ c # environment /\ environment' = c
  /\ rungLoss' = ResetValues.rungLoss /\ signal' = ResetValues.signal
  /\ lossy' = FALSE /\ fade' = 0 /\ smoothed' = FALSE
  /\ observed' = rung /\ emergency' = FALSE /\ vetoAt' = 0 /\ ResetRest
  /\ UNCHANGED <<rung, phase, pending, phaseAt, bitrate, pin, reportVars,
                 lastReport, saturatedAt, csaFreeze>>

\* What one report makes of a rung's leaky score.
Scored(rs, r) ==
  [rs EXCEPT !.score = IF r.loss # "clean"
                       THEN IF @ < PersistScore THEN @ + 1 ELSE @
                       ELSE IF @ > 0 THEN @ - 1 ELSE 0]

\* on_report: r is an accepted report with its smoothed effect: loss class,
\* full (uniq at loss_min_uniq or more), signal, fading, probe.  Its epoch is
\* beyond the last one of its identity, or the identity is new; any other
\* report returns before it changes anything.
OnReport(r) ==
  LET fresh == source # r.id
      before == IF fresh THEN ResetValues
                ELSE [rungLoss |-> rungLoss, signal |-> signal, lossy |-> lossy,
                      fade |-> fade, smoothed |-> smoothed]
      fading == before.smoothed /\ r.fading
  IN
  /\ source' = r.id /\ haveReport' = TRUE /\ lastReport' = now
  /\ vetoAt' = IF r.probe = "none" THEN (IF fresh THEN 0 ELSE vetoAt)
               ELSE IF r.probe = "veto" THEN now ELSE 0
  /\ smoothed' = TRUE
  /\ IF before.smoothed
     THEN /\ signal' \in Between(before.signal, r.signal)
          /\ lossy' \in {before.lossy, r.loss # "clean"}
     ELSE signal' = r.signal /\ lossy' = (r.loss # "clean")
  /\ fade' = IF fading THEN Min({before.fade + 1, FadeTicks}) ELSE 0
  /\ observed' = rung /\ emergency' = (r.full /\ r.loss = "acute")
  /\ LET lock == before.rungLoss[rung] IN
     rungLoss' = IF r.full /\ ~(lock.latched \/ now < lock.until)
                 THEN [before.rungLoss EXCEPT ![rung] = Scored(@, r)]
                 ELSE before.rungLoss
  /\ IF fresh THEN ResetRest
     ELSE failsafeNext' = 0 /\ UNCHANGED <<flapVars, lastDemote, lastChange>>
  /\ UNCHANGED <<rung, phase, pending, phaseAt, bitrate, pin, saturatedAt,
                 csaFreeze, environment>>

OnVerdict(saturated) ==
  /\ saturatedAt' = IF saturated THEN now ELSE 0
  /\ UNCHANGED <<opVars, pin, reportVars, lastReport, radioVars, lossVars,
                 flapVars, vetoAt, csaFreeze, failsafeNext, environment>>

SetProfilePin(p) ==
  /\ pin' = p
  /\ UNCHANGED <<opVars, reportVars, lastReport, radioVars, lossVars, flapVars,
                 saturatedAt, vetoAt, csaFreeze, failsafeNext, environment>>

\* csa_freeze only ever extends.
CsaFreeze(until) ==
  /\ csaFreeze' = Max({csaFreeze, until})
  /\ UNCHANGED <<opVars, pin, reportVars, lastReport, radioVars, lossVars,
                 flapVars, saturatedAt, vetoAt, failsafeNext, environment>>
-----------------------------------------------------------------------------
(* tick: one transition phase, or one pass of the cascade.                   *)

TickBoot ==
  /\ phase = "boot" /\ phase' = "idle" /\ lastChange' = now /\ bitrate' = Rate[rung]
  /\ UNCHANGED <<rung, pending, phaseAt, lastDemote, pin, reportVars, lastReport,
                 radioVars, lossVars, flapVars, saturatedAt, vetoAt, csaFreeze,
                 failsafeNext, environment>>

\* The demote lands: the radio follows the encoder.
TickLead ==
  /\ phase = "lead" /\ now >= phaseAt
  /\ phase' = "idle" /\ rung' = pending /\ lastChange' = now
  /\ UNCHANGED <<pending, phaseAt, lastDemote, bitrate, pin, reportVars, lastReport,
                 radioVars, lossVars, flapVars, saturatedAt, vetoAt, csaFreeze,
                 failsafeNext, environment>>

\* The promote settles: the encoder follows the radio.
TickGrace ==
  /\ phase = "grace" /\ now >= phaseAt
  /\ phase' = "idle" /\ bitrate' = Rate[rung]
  /\ UNCHANGED <<rung, pending, phaseAt, lastChange, lastDemote, pin, reportVars,
                 lastReport, radioVars, lossVars, flapVars, saturatedAt, vetoAt,
                 csaFreeze, failsafeNext, environment>>

TickWaits == phase \in {"lead", "grace"} /\ now < phaseAt /\ UNCHANGED selVars

TickFrozen == phase = "idle" /\ csaFreeze # 0 /\ now < csaFreeze /\ UNCHANGED selVars

\* From here on the freeze is over; its blackout does not count as silence.
Thawed == phase = "idle" /\ (csaFreeze = 0 \/ now >= csaFreeze)
Excused == IF haveReport /\ lastReport < csaFreeze THEN csaFreeze ELSE lastReport
Thaw == lastReport' = Excused /\ csaFreeze' = 0

ReportAge == IF haveReport THEN now - Excused ELSE 0

\* Mutant: the cascade runs on through the hold phase.
FreshThroughHold == haveReport /\ ReportAge <= ReportTimeout + FailsafeHold

Fresh == haveReport /\ ReportAge <= ReportTimeout

\* Mutant: the pin moves the radio and leaves the encoder behind.
SnapRungOnly(t) ==
  /\ rung' = t /\ lastChange' = now /\ Thaw
  /\ UNCHANGED <<phase, pending, phaseAt, lastDemote, bitrate, pin, reportVars,
                 radioVars, lossVars, flapVars, saturatedAt, vetoAt, failsafeNext,
                 environment>>

\* A re-pin moves rung and bitrate together, with no sequencing.
Snap(t) ==
  /\ rung' = t /\ lastChange' = now /\ bitrate' = Rate[t] /\ Thaw
  /\ UNCHANGED <<phase, pending, phaseAt, lastDemote, pin, reportVars, radioVars,
                 lossVars, flapVars, saturatedAt, vetoAt, failsafeNext, environment>>

OutOfBand == rung > Hi \/ (rung < Lo /\ Fresh)
TickPinned == Thawed /\ Lo = Hi /\ rung # Lo /\ Snap(Lo)
TickRepin == Thawed /\ Lo # Hi /\ OutOfBand /\ Snap(IF rung > Hi THEN Hi ELSE Lo)

Adapts == Thawed /\ Lo # Hi /\ ~OutOfBand
Idle == /\ Thaw
        /\ UNCHANGED <<opVars, pin, reportVars, radioVars, rungLoss, observed, flapVars,
                       saturatedAt, vetoAt, failsafeNext, environment>>

TickHoldsPin == Thawed /\ Lo = Hi /\ rung = Lo /\ Idle /\ UNCHANGED emergency
-----------------------------------------------------------------------------
(* The cascade.                                                              *)

\* charge_lockout of the vacated rung; the safe floor is never locked.
Charged ==
  IF rung <= SafeFloor \/ Locked(rung) THEN rungLoss
  ELSE LET strikes == Min({rungLoss[rung].strikes + 1, LatchCount}) IN
       [rungLoss EXCEPT ![rung] =
          [score |-> 0, strikes |-> strikes, latched |-> strikes >= LatchCount,
           until |-> IF strikes >= LatchCount THEN 0 ELSE now + RungLockout]]

\* note_demote_for_flap: fast re-demotes inside the window.
Redemotes ==
  LET fast == promotedInto[rung] # 0 /\ now - promotedInto[rung] < FlapWindow
  IN {t \in flaps \cup (IF fast THEN {now} ELSE {}) : now - t <= FlapWindow}

\* start_demote: the encoder moves now, the radio after bitrate_lead_ms.
StartDemote(target, losses) ==
  /\ rungLoss' = losses
  /\ IF Cardinality(Redemotes) >= FlapCount
     THEN freezeUntil' = now + FlapFreeze /\ flaps' = {}
     ELSE flaps' = Redemotes /\ UNCHANGED freezeUntil
  /\ demotedFrom' = [r \in Ladder |-> IF target < r /\ r <= rung THEN now
                                      ELSE demotedFrom[r]]
  /\ lastDemote' = now /\ pending' = target /\ phase' = "lead"
  /\ phaseAt' = now + BitrateLead /\ bitrate' = Rate[target] /\ vetoAt' = 0
  /\ Thaw
  /\ UNCHANGED <<rung, lastChange, pin, reportVars, smoothed, signal, lossy, observed,
                 promotedInto, saturatedAt, environment>>

FailsafeHeld == ReportAge < ReportTimeout + FailsafeHold

FailsafeMoves == ~FailsafeHeld /\ rung > SafeFloor /\ now >= failsafeNext
TickFailsafeHolds == Adapts /\ ~Fresh /\ ~FailsafeMoves /\ Idle /\ UNCHANGED emergency
TickFailsafe ==
  /\ Adapts /\ ~Fresh /\ FailsafeMoves
  /\ failsafeNext' = now + FailsafeStep /\ StartDemote(rung - 1, rungLoss)
  /\ UNCHANGED <<fade, emergency>>

DemoteOk == now - lastDemote >= DownCooldown
Acute == emergency /\ observed = rung
Persistent == DemoteOk /\ observed = rung /\ rungLoss[rung].score >= PersistScore
Guarded == signal = Weak \/ fade >= FadeTicks

\* Rules 1 to 4, first match wins: the target rung, what is charged, and
\* whether the fade counter is spent.  A rung at the floor has nowhere to go.
DemoteRule ==
  IF Acute THEN "acute" ELSE IF Persistent THEN "persistent"
  ELSE IF DemoteOk /\ signal = Weak THEN "floor"
  ELSE IF DemoteOk /\ fade >= FadeTicks THEN "fade" ELSE "none"

TickDemote ==
  /\ Adapts /\ Fresh /\ rung > SafeFloor /\ DemoteRule # "none"
  /\ StartDemote(IF DemoteRule = "acute" THEN SafeFloor ELSE rung - 1,
                 IF DemoteRule \in {"acute", "persistent"} THEN Charged ELSE rungLoss)
  /\ emergency' = FALSE /\ fade' = IF DemoteRule = "fade" THEN 0 ELSE fade
  /\ UNCHANGED failsafeNext

SaturatedFresh == saturatedAt # 0 /\ now - saturatedAt < VerdictTtl
ProbeVetoFresh == vetoAt # 0 /\ now - vetoAt < ProbeTtl

\* Soft reentry: a rung left recently needs the longer dwell.
Dwell(next) ==
  IF demotedFrom[next] # 0 /\ now - demotedFrom[next] < ReentryBackoff
  THEN ReentryDwell ELSE PromoteDwell

\* Rule 6: the one climb of the cascade.
MayPromote ==
  /\ ClimbOpen(rung + 1) /\ ~Guarded /\ now >= freezeUntil /\ ~lossy
  /\ signal >= rung + 1 /\ now - lastChange >= Dwell(rung + 1)
  /\ ~SaturatedFresh /\ ~ProbeVetoFresh

Cascades == Adapts /\ Fresh /\ (rung <= SafeFloor \/ DemoteRule = "none")

\* start_promote: the radio moves now, the encoder after mcs_up_grace_ms.
TickPromote ==
  /\ Cascades /\ MayPromote
  /\ rung' = rung + 1 /\ pending' = rung + 1 /\ phase' = "grace"
  /\ phaseAt' = now + McsGrace /\ lastChange' = now /\ vetoAt' = 0
  /\ promotedInto' = [promotedInto EXCEPT ![rung + 1] = now]
  /\ emergency' = FALSE /\ Thaw
  /\ UNCHANGED <<lastDemote, bitrate, pin, reportVars, radioVars, rungLoss, observed,
                 flaps, freezeUntil, demotedFrom, saturatedAt, failsafeNext, environment>>

TickHolds == Cascades /\ ~MayPromote /\ Idle /\ emergency' = FALSE

SelTick ==
  \/ TickBoot \/ TickLead \/ TickGrace \/ TickWaits \/ TickFrozen
  \/ TickPinned \/ TickRepin \/ TickHoldsPin
  \/ TickFailsafeHolds \/ TickFailsafe \/ TickDemote \/ TickPromote \/ TickHolds
-----------------------------------------------------------------------------
(* Properties of the engine.                                                 *)

\* The encoder is never asked for more than the committed rung carries: the
\* bitrate leads a demote, lags a promote and moves with a re-pin (selector.cpp
\* start_demote, start_promote, evaluate), and between transitions the two agree.
BitrateFits ==
  phase # "boot" =>
    /\ bitrate <= Rate[rung]
    /\ phase = "idle" => bitrate = Rate[rung]
=============================================================================
