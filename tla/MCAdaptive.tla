----------------------------- MODULE MCAdaptive -----------------------------
(* Adaptive on a ladder of three rungs, one family of circumstances at a     *)
(* time.  A time unit is one report period; the durations are small and      *)
(* distinct where their order matters.                                       *)
EXTENDS Adaptive

MCRate == [r \in Ladder |-> 2 * r + 1]

Open == [min |-> 0, max |-> Top]
One == [orig |-> 1, session |-> 1]
Two == [orig |-> 2, session |-> 1]
Shape(loss, sig) ==
  [loss |-> loss, full |-> TRUE, signal |-> sig, fading |-> FALSE, probe |-> "none"]
Clean == Shape("clean", Top)

Base == [pin |-> Open, preferred |-> 0, ids |-> {One}, reports |-> {Clean}, pins |-> {},
         claims |-> FALSE, verdicts |-> FALSE, channels |-> {}, events |-> 2,
         hush |-> 99, until |-> 12]

\* Loss: climbs, strikes, lockout and latch, flapping.
LossSetup == [Base EXCEPT !.reports = {Clean, Shape("bad", Top), Shape("acute", Top)},
                          !.until = 8]
\* Radio: weak signal, fades, reports with too few packets, a moved band.
RadioSetup ==
  [Base EXCEPT !.reports = {Clean, Shape("clean", Weak), [Clean EXCEPT !.fading = TRUE],
                            [Shape("acute", Top) EXCEPT !.full = FALSE]},
               !.channels = {1, 2}, !.events = 1, !.until = 6]
\* Operator: the envelope moves under every transition, and under a freeze;
\* then the reports stop.
PinSetup ==
  [Base EXCEPT !.pin = [min |-> 1, max |-> 9], !.claims = TRUE,
               !.pins = {Open, [min |-> 0, max |-> 1], [min |-> 2, max |-> 2]},
               !.hush = 4, !.until = 15]
\* A floor raised onto a rung that loss has locked.
ConflictSetup ==
  [Base EXCEPT !.reports = {Clean, Shape("acute", Top)}, !.pins = {[min |-> 1, max |-> 2]},
               !.events = 1, !.until = 6]
\* Silence after a climb, a claim and a change of channel.
SilentSetup == [Base EXCEPT !.claims = TRUE, !.channels = {1, 2}, !.hush = 4, !.until = 17]
\* Two grounds, one of them restarted, with verdicts and probe evidence.
GroundSetup ==
  [Base EXCEPT !.ids = {One, [One EXCEPT !.session = 2], Two}, !.claims = TRUE,
               !.events = 1, !.until = 7]
EvidenceSetup ==
  [Base EXCEPT !.ids = {One, [One EXCEPT !.session = 2]}, !.preferred = 1,
               !.verdicts = TRUE, !.reports = {Clean, [Clean EXCEPT !.probe = "veto"]},
               !.until = 6]

MCSetups == {LossSetup, RadioSetup, PinSetup, SilentSetup, GroundSetup, EvidenceSetup,
             ConflictSetup}

\* One ground whose reports stop while a claim has the selector frozen.
FreezeSetups == {[Base EXCEPT !.claims = TRUE, !.hush = 5]}
=============================================================================
