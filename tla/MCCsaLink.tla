----------------------------- MODULE MCCsaLink -----------------------------
(* One ground and one craft on two channels, in five installations.        *)
EXTENDS CsaLink
CONSTANTS g1, s1, k1, c1, c2
MCOriginators == {g1}
MCSessions == {s1}
MCKeys == {k1}
MCChannels == {c1, c2}

Plain == [quiet |-> FALSE, tsf |-> {"good"}, faults |-> FALSE,
          reports |-> FALSE, stall |-> 0, loss |-> 0, campaigns |-> 1,
          until |-> MaxNow]

MCSetups ==
  { \* copies held for the quiet gap, any TSF, late loops, one loss
    [Plain EXCEPT !.quiet = TRUE, !.tsf = {"good", "none", "garbage"},
                  !.reports = TRUE, !.stall = 1, !.loss = 1, !.until = 7],
    \* copies sent at once, late loops, past the campaign's latest end
    [Plain EXCEPT !.stall = 1],
    \* two campaigns on a lossy air
    [Plain EXCEPT !.loss = 2, !.campaigns = 2],
    \* two campaigns, held copies, nothing lost
    [Plain EXCEPT !.quiet = TRUE, !.campaigns = 2],
    \* failing retunes, stale candidates and local moves
    [Plain EXCEPT !.faults = TRUE, !.until = 7] }

\* Two campaigns as far apart as min_interval allows, which is no more than
\* the lead time: the shipping values.
MCTight == {[Plain EXCEPT !.loss = 8, !.campaigns = 2]}
=============================================================================
