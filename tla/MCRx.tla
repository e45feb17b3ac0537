-------------------------------- MODULE MCRx --------------------------------
(***************************************************************************)
(* The receive engine: one stream's window under small traffic patterns,    *)
(* the admission of streams to outputs, and one adapter's loss account.     *)
(* They share no state in the model, so a behaviour exercises one of them   *)
(* (part) while the others rest in an initial state.                        *)
(***************************************************************************)
EXTENDS RxStream, RxAdmission, RxLoss

CONSTANT Parts
VARIABLE part

P(block, eob, at) == [block |-> block, eob |-> eob, at |-> at]

\* Two-packet blocks, one packet per time unit.
Pairs(n) == [i \in 1 .. n |-> P((i + 1) \div 2, i % 2 = 0, i)]

Plain == [packets |-> Pairs(6), firstSeq |-> 1, clampPkts |-> 3, clampBlocks |-> 2,
          resync |-> 2, budgets |-> {2}, mismatch |-> {FALSE}, frame |-> FALSE,
          clockStep |-> 0, late |-> 1, until |-> 7]

\* A frame egress: FEC completion and cache repair.
Framed == [Plain EXCEPT !.frame = TRUE]

MCSetups ==
  { \* late copies, two profiles, a table mismatch at any packet
    [Plain EXCEPT !.budgets = {1, 2}, !.mismatch = {FALSE, TRUE}],
    Framed,
    \* a clock that steps back during a clamp storm
    [Plain EXCEPT !.packets = Pairs(7), !.clampPkts = 2, !.clampBlocks = 1, !.resync = 3,
                  !.clockStep = 1, !.late = 0, !.until = 8],
    \* outages longer than the clamp, recovered from by the resync
    [Plain EXCEPT !.packets = Pairs(11), !.clampPkts = 2, !.clampBlocks = 1,
                  !.budgets = {1}, !.mismatch = {FALSE, TRUE}, !.late = 0, !.until = 12],
    \* a burst that starts a storm, a late copy that ends it, and a lull
    [Plain EXCEPT !.packets = <<P(1, FALSE, 1), P(1, FALSE, 2), P(1, FALSE, 2),
                                P(1, FALSE, 2), P(1, TRUE, 12)>>,
                  !.clampPkts = 1, !.clampBlocks = 1, !.budgets = {1}, !.until = 12] }

\* A stream that crosses the wrap of its sequence number.
MCWrap ==
  {[Plain EXCEPT !.packets = Pairs(11), !.firstSeq = 14, !.budgets = {1}, !.late = 0,
                 !.until = 12]}

\* A craft that reboots and a second craft, over two outputs of one type.
T(o, n) == [orig |-> o, session |-> n, stream |-> 1, type |-> "rtp"]
MCTuples == {T(1, 1), T(1, 2), T(2, 1)}
MCOutputs == <<[id |-> 1, type |-> "rtp"], [id |-> 2, type |-> "rtp"]>>

MCInit ==
    /\ part \in Parts
    /\ StreamInit /\ (part # "stream" => setup = Framed /\ pos[1] = 1)
    /\ AdmInit /\ Init

\* The traffic and the clock of the first two end at their bounds; a sequence number can
\* always be heard.
Window == part = "stream" /\ (StreamNext \/ UNCHANGED streamVars) /\ UNCHANGED <<part, admVars, vars>>
Admission == part = "admission" /\ (AdmNext \/ UNCHANGED admVars)
             /\ UNCHANGED <<part, streamVars, vars>>
Loss == part = "loss" /\ Next /\ UNCHANGED <<part, streamVars, admVars>>

MCSpec == MCInit /\ [][Window \/ Admission \/ Loss]_<<part, streamVars, admVars, vars>>
=============================================================================
