------------------------------ MODULE RxLink --------------------------------
(***************************************************************************)
(* What RxCore (src/node/include/wblink/node/rx_core.h) keeps per link on  *)
(* top of the receive engine: the reporter's baseline of the engine's      *)
(* cumulative counters (src/core/src/reporter.cpp) and the craft's         *)
(* selector word with the tuple it was accepted from.  The engine is its   *)
(* latched video stream, with counters that start over with every latch;   *)
(* its own behaviour is in RxStream and RxAdmission.  A craft is heard     *)
(* under the session of its last boot.                                     *)
(***************************************************************************)
EXTENDS Naturals

CONSTANTS Crafts,       \* originators in the air
          Width,        \* counters and their differences are modulo 2^64 in the code
          MaxCount,     \* bound: packets counted per latch
          MaxTurns      \* bound: latches, teardowns, selections, resets, reboots

ASSUME RxLinkAssumption ==
    /\ Crafts \subseteq Nat \ {0} /\ MaxCount \in Nat /\ MaxTurns \in Nat
    /\ Width \in Nat /\ MaxCount < Width

NoCraft == 0
NoStream == [craft |-> NoCraft, session |-> 0, uniq |-> 0, lost |-> 0]
NoTuple == [craft |-> NoCraft, session |-> 0]
NoWord == [craft |-> NoCraft, session |-> 0, calibrating |-> FALSE]
Zero == [uniq |-> 0, lost |-> 0]

VARIABLES session,   \* per craft: the session it transmits with
          stream,    \* the engine's latched video stream
          wanted,    \* the originator the wants are pinned to, NoCraft for none
          base,      \* Reporter::last_: per tuple, the counters at the last report
          word,      \* remote_selector_state_
          accepted,  \* word_source_
          truth,     \* history: packets of the stream since its last report
          skewed,    \* history: the same tuple latched anew, or its craft selected again,
                     \* since the last report
          report,    \* the last report built: differences, and whether they were the truth
          turns

xlVars == <<session, stream, wanted, base, word, accepted, truth, skewed, report, turns>>

TupleKey(s) == [craft |-> s.craft, session |-> s.session]
Tuples == [craft : Crafts, session : 1..MaxTurns + 1]

XLInit ==
    /\ session = [c \in Crafts |-> 1]
    /\ stream = NoStream /\ wanted = NoCraft
    /\ base = [t \in Tuples |-> Zero]
    /\ word = NoWord /\ accepted = NoTuple
    /\ truth = Zero /\ skewed = FALSE
    /\ report = [uniq |-> 0, lost |-> 0, exact |-> TRUE, excused |-> TRUE]
    /\ turns = 0

Turn == turns < MaxTurns /\ turns' = turns + 1

-----------------------------------------------------------------------------
\* The engine, as RxCore sees it.
LatchStream(c) ==
    /\ stream = NoStream /\ wanted \in {c, NoCraft} /\ Turn
    /\ stream' = [craft |-> c, session |-> session[c], uniq |-> 0, lost |-> 0]
    /\ truth' = Zero /\ skewed' = (base[TupleKey(stream')] # Zero)
    /\ UNCHANGED <<session, wanted, base, word, accepted, report>>

Count(what) ==
    /\ stream # NoStream /\ stream.uniq + stream.lost < MaxCount
    /\ stream' = [stream EXCEPT ![what] = @ + 1]
    /\ truth' = [truth EXCEPT ![what] = @ + 1]
    /\ UNCHANGED <<session, wanted, base, word, accepted, skewed, report, turns>>

IdleTeardown ==
    /\ stream # NoStream /\ Turn
    /\ stream' = NoStream /\ truth' = Zero
    /\ UNCHANGED <<session, wanted, base, word, accepted, skewed, report>>

CraftReboots(c) ==
    /\ Turn /\ session' = [session EXCEPT ![c] = @ + 1]
    /\ UNCHANGED <<stream, wanted, base, word, accepted, truth, skewed, report>>

-----------------------------------------------------------------------------
\* RxCore::select_originator and unpin_originator; the engine keeps its stream when the
\* craft selected is the one it wants already.
LatchKept == accepted
LatchDropped == NoTuple

Select(c) ==
    /\ Turn /\ wanted' = c
    /\ IF wanted = c THEN UNCHANGED <<stream, truth>>
                     ELSE stream' = NoStream /\ truth' = Zero
    /\ base' = [t \in Tuples |-> Zero] /\ word' = NoWord /\ accepted' = LatchDropped
    /\ skewed' = (stream' # NoStream)
    /\ UNCHANGED <<session, report>>

Unpin ==
    /\ Turn /\ wanted' = NoCraft /\ stream' = NoStream /\ truth' = Zero
    /\ base' = [t \in Tuples |-> Zero] /\ word' = NoWord /\ accepted' = LatchDropped
    /\ UNCHANGED <<session, skewed, report>>

\* RxCore::reset_stats: the engine's counters and the reporter's baseline together.
BaselineKept == base
BaselineCleared == [t \in Tuples |-> Zero]

ResetStats ==
    /\ stream # NoStream /\ Turn
    /\ stream' = [stream EXCEPT !.uniq = 0, !.lost = 0] /\ base' = BaselineCleared
    /\ truth' = Zero
    /\ UNCHANGED <<session, wanted, word, accepted, skewed, report>>

\* Reporter::build: differences to the baseline, which moves.
Delta(now, then) == (now + Width - then) % Width

Build ==
    /\ stream # NoStream
    /\ LET old == base[TupleKey(stream)]
           du == Delta(stream.uniq, old.uniq)
           dl == Delta(stream.lost, old.lost)
       IN report' = [uniq |-> du, lost |-> dl, exact |-> du = truth.uniq /\ dl = truth.lost,
                     excused |-> skewed]
    /\ base' = [base EXCEPT ![TupleKey(stream)] = [uniq |-> stream.uniq, lost |-> stream.lost]]
    /\ truth' = Zero /\ skewed' = FALSE
    /\ UNCHANGED <<session, stream, wanted, word, accepted, turns>>

-----------------------------------------------------------------------------
\* on_air of a selector word: of the live stream's tuple, which is then remembered, or of
\* the remembered tuple while there is no live stream.
WordAdmitted(c) ==
    \/ stream # NoStream /\ TupleKey(stream) = [craft |-> c, session |-> session[c]]
    \/ stream = NoStream /\ accepted = [craft |-> c, session |-> session[c]]

Word(c, cal) ==
    /\ WordAdmitted(c)
    /\ word' = [craft |-> c, session |-> session[c], calibrating |-> cal]
    /\ accepted' = [craft |-> c, session |-> session[c]]
    /\ UNCHANGED <<session, stream, wanted, base, truth, skewed, report, turns>>

XLNext ==
    \/ \E c \in Crafts : LatchStream(c) \/ CraftReboots(c) \/ Select(c)
    \/ \E c \in Crafts, cal \in BOOLEAN : Word(c, cal)
    \/ \E what \in {"uniq", "lost"} : Count(what)
    \/ IdleTeardown \/ Unpin \/ ResetStats \/ Build

XLSpec == XLInit /\ [][XLNext]_xlVars

-----------------------------------------------------------------------------
\* A craft's selector word does not outlive its selection: the interlocks of a calibration
\* read the word of the craft the ground is pinned to, never of the one it left, even when
\* the one it left goes on transmitting while the new stream is not up.
WordOfSelected == word # NoWord /\ wanted # NoCraft => word.craft = wanted

\* A report is about the packets since the report before it: resetting the statistics
\* between two reports, at any point, takes nothing from the loss the craft is told of.
\* A tuple latched anew and a craft selected again are excused.
LossHonest == report.exact \/ report.excused

\* Every report is about the packets since the report before it, or since its latch.
ReportTrue == report.exact

\* What the ground tells and acts on belongs to the craft it is pinned to, and to the
\* packets since it last told (rx_core.h on_air, reset_stats, select).
ReportSound == WordOfSelected /\ LossHonest
=============================================================================
