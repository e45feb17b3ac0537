------------------------------ MODULE Adaptive ------------------------------
(* The adaptive part of the craft (tx_core.h, tx_node.cpp): reports pass the *)
(* report gate into the selector; a channel switch freezes it, hands the     *)
(* report authority to the claimant and later changes its RF environment;    *)
(* the operator re-pins it at any time.  Who may report comes first           *)
(* (core/include/wblink/report_gate.h): the configured originator alone, or   *)
(* the first one heard, until it falls silent or a claim transfers it.        *)
EXTENDS Selector

CONSTANT RelatchMs            \* relatch_ms: four report timeouts

VARIABLES gPreferred,         \* preferred_originator, 0 = first latcher
          gLatched,           \* [orig, session]; orig 0 = none, session 0 = unknown
          gLast               \* last_ms_
gateVars == <<gPreferred, gLatched, gLast>>

NoLatch == [orig |-> 0, session |-> 0]

GateInit(preferred) == gPreferred = preferred /\ gLatched = NoLatch /\ gLast = 0

\* latched_originator()
Reporter == IF gPreferred # 0 THEN gPreferred ELSE gLatched.orig

MayReport(id, t) ==
  IF gPreferred # 0 THEN id.orig = gPreferred
  ELSE \/ gLatched.orig \in {0, id.orig}
       \/ t - gLast > RelatchMs

\* accept; a refused report only counts.
GateAccept(id, t) ==
  /\ MayReport(id, t) /\ gLast' = t
  /\ gLatched' = IF gPreferred # 0 THEN gLatched ELSE id
  /\ UNCHANGED gPreferred

\* Mutant: the transfer leaves the silence clock where it was cleared.
ForceLatchUnseeded(orig, t) ==
  IF gPreferred # 0 \/ orig = 0 THEN UNCHANGED gateVars
  ELSE gLatched' = [orig |-> orig, session |-> 0] /\ gLast' = 0 /\ UNCHANGED gPreferred

ForceLatch(orig, t) ==
  IF gPreferred # 0 \/ orig = 0 THEN UNCHANGED gateVars
  ELSE gLatched' = [orig |-> orig, session |-> 0] /\ gLast' = t /\ UNCHANGED gPreferred

ClearLatch ==
  IF gPreferred # 0 THEN UNCHANGED gateVars
  ELSE gLatched' = NoLatch /\ gLast' = 0 /\ UNCHANGED gPreferred
-----------------------------------------------------------------------------

CONSTANTS
  Settle,       \* policy.csa.settle_s
  Setups        \* the circumstances a run covers

VARIABLES
  setup,
  events,       \* operator actions and claims left
  ticked,       \* the loop has run in this time unit: it is never later
  hReportAt,    \* when the last report was accepted
  hPinAt,       \* when the operator last moved the envelope, 0 = never
  hFreeze,      \* when the last CSA freeze ends or ended, 0 = never
  hClaim        \* who holds the authority by claim, and when last heard

envVars == <<setup, now, ticked, events>>
histVars == <<hReportAt, hPinAt, hFreeze, hClaim>>
adaptiveVars == <<selVars, gateVars, envVars, histVars>>

\* What the world does in one run: the ids that report, the reports they send,
\* the envelopes the operator sets, and whether claims and retunes happen; at
\* most `events` of those; nothing is heard after `hush`; time ends at `until`.
Setup ==
  [pin : [min : Nat, max : Nat], preferred : Nat,
   ids : SUBSET [orig : Nat \ {0}, session : Nat \ {0}], reports : SUBSET
     [loss : {"clean", "bad", "acute"}, full : BOOLEAN, signal : Signals,
      fading : BOOLEAN, probe : {"none", "ok", "veto"}],
   pins : SUBSET [min : Nat, max : Nat], claims : BOOLEAN, verdicts : BOOLEAN,
   channels : SUBSET Nat, events : Nat, hush : Nat, until : Nat]

ASSUME AdaptiveConstants == Settle \in Nat /\ RelatchMs \in Nat /\ Setups \subseteq Setup

NoClaim == [orig |-> 0, at |-> 0]

Init ==
  /\ setup \in Setups /\ events = setup.events /\ now = 1 /\ ticked = FALSE
  /\ SelInit(setup.pin, 1) /\ GateInit(setup.preferred)
  /\ hReportAt = 0 /\ hPinAt = 0 /\ hFreeze = 0 /\ hClaim = NoClaim

Quiet == UNCHANGED envVars
Event ==
  /\ events > 0 /\ now <= setup.hush
  /\ events' = events - 1 /\ UNCHANGED <<setup, now, ticked>>

\* History: the claim stands while its holder is heard and passes with the latch.
Heard(orig) ==
  hClaim' = IF orig = hClaim.orig THEN [hClaim EXCEPT !.at = now] ELSE NoClaim

\* on_air, LINK_REPORT: the gate first, then the selector.  One report a unit.
Report(id, shape) ==
  /\ hReportAt # now /\ now <= setup.hush /\ GateAccept(id, now)
  /\ OnReport([id |-> id, loss |-> shape.loss, full |-> shape.full,
               signal |-> shape.signal, fading |-> shape.fading, probe |-> shape.probe])
  /\ hReportAt' = now
  /\ Heard(id.orig) /\ Quiet /\ UNCHANGED <<hPinAt, hFreeze>>

\* A report whose epoch is not beyond the last one of its identity: the
\* selector drops it, yet it keeps its reporter's latch.
Replay(id) ==
  /\ now <= setup.hush /\ haveReport /\ source = id /\ GateAccept(id, now)
  /\ Heard(id.orig) /\ Quiet /\ UNCHANGED <<selVars, hReportAt, hPinAt, hFreeze>>

\* on_air, LINK_VERDICT: from the latched reporter only.
Verdict(id, saturated) ==
  /\ setup.verdicts /\ Reporter = id.orig /\ gLatched.session \in {0, id.session}
  /\ OnVerdict(saturated) /\ Quiet /\ UNCHANGED <<gateVars, histVars>>

\* A CSA campaign is accepted: freeze and transfer of the report authority.
Claim(orig) ==
  /\ setup.claims /\ hClaim # [orig |-> orig, at |-> now]
  /\ CsaFreeze(now + Settle) /\ ForceLatch(orig, now)
  /\ hClaim' = [orig |-> orig, at |-> now] /\ hFreeze' = now + Settle
  /\ Event /\ UNCHANGED <<hReportAt, hPinAt>>

\* The switch instant, or a local retune that keeps the claim.
Retune(c) == OnRfEnvironment(c) /\ Event /\ UNCHANGED <<gateVars, histVars>>

\* channel_set and move retune and drop the claim, and with it the authority;
\* psk_enable drops it in place.
Release(c) ==
  /\ setup.claims /\ ClearLatch /\ hClaim' = NoClaim
  /\ IF c = environment THEN UNCHANGED selVars ELSE OnRfEnvironment(c)
  /\ Event /\ UNCHANGED <<hReportAt, hPinAt, hFreeze>>

\* POST link/profile and the run direction of the SELECTOR command.
Repin(p) ==
  /\ p # pin /\ SetProfilePin(p) /\ hPinAt' = now
  /\ Event /\ UNCHANGED <<gateVars, hReportAt, hFreeze, hClaim>>

\* The freeze direction of the SELECTOR command samples the current rung.
HoldRung == setup.pins # {} /\ Repin([min |-> rung, max |-> rung])

Tick == SelTick /\ ticked' = TRUE /\ UNCHANGED <<setup, now, events, gateVars, histVars>>

Advance ==
  /\ ticked /\ now < setup.until /\ now' = now + 1 /\ ticked' = FALSE
  /\ UNCHANGED <<selVars, gateVars, setup, events, histVars>>

Next ==
  \/ \E id \in setup.ids :
       \/ \E shape \in setup.reports : Report(id, shape)
       \/ Replay(id)
       \/ \E s \in BOOLEAN : Verdict(id, s)
       \/ Claim(id.orig)
  \/ \E c \in setup.channels : Retune(c)
  \/ \E c \in setup.channels \cup {environment} : Release(c)
  \/ HoldRung
  \/ \E p \in setup.pins : Repin(p)
  \/ Tick \/ Advance

Spec == Init /\ [][Next]_adaptiveVars
-----------------------------------------------------------------------------
(* Properties.                                                               *)

\* A cascade promotion; a re-pin never enters the grace phase.
Climbs == rung' > rung /\ phase' = "grace"

\* The cascade climbs only on feedback (selector.cpp evaluate): never inside a
\* CSA freeze, and only when a report, or the end of the freeze that silenced
\* the reports, is no older than report_timeout_ms, whatever pins, retunes and
\* changes of reporter came between.
ClimbFresh ==
  [][Climbs => /\ hReportAt # 0 /\ now >= hFreeze
               /\ now - Max({hReportAt, hFreeze}) <= ReportTimeout]_adaptiveVars

\* What selector.h says of the cascade: stale feedback never promotes, so a
\* climb has a report no older than report_timeout_ms behind it.
StaleNeverClimbs ==
  [][Climbs => now - hReportAt <= ReportTimeout]_adaptiveVars

\* The longest descent from the top once the feedback falls silent: what holds the first
\* step back (the hold phase, the step timer a freeze left running, a promote in flight),
\* and for every rung its timer and the pass that notices it.
StepPace == Max({1, FailsafeStep, BitrateLead})
Slack == Max({ReportTimeout + FailsafeHold, FailsafeStep}) + McsGrace
Descent == Slack + 1 + Top * (StepPace + 1)

\* Lost feedback ends at the floor: once a report has been heard, silence
\* (counted from the last report, freeze or re-pin) that outlasts the descent
\* finds the craft at the resolved floor, whatever transition it was in.
DescentBounded ==
  (haveReport /\ csaFreeze = 0 /\ Lo # Hi /\ now - Max({lastReport, hPinAt}) > Descent)
    => rung <= SafeFloor

\* A locked rung is out of use: until it expires or the environment changes
\* the craft is below it, or already on its way down, unless the operator
\* re-pinned the envelope.
LockoutHolds ==
  (hPinAt = 0) => \A r \in Ladder : Locked(r) =>
                    rung < r \/ (phase = "lead" /\ pending < r)

\* Reports and commands name one ground (tx_node.cpp force_latch): after a
\* claim, no other ground's report is accepted until the claimant has been
\* silent for relatch_ms or the claim was released.
AuthorityHolds ==
  [][(hReportAt' # hReportAt /\ gPreferred = 0 /\ hClaim.orig # 0
      /\ source'.orig # hClaim.orig)
       => now - hClaim.at > RelatchMs]_adaptiveVars

\* Where the ladder stands: at the floor once the descent is over, never on a locked
\* rung (selector.cpp evaluate, failsafe and lockout).
RungSound == DescentBounded /\ LockoutHolds
=============================================================================
