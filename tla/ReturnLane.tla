---------------------------- MODULE ReturnLane ------------------------------
(***************************************************************************)
(* The ground's return lane (src/node/src/rx_node.cpp): reports, urgent    *)
(* returns and uplink datagrams (UplinkDataStream) wait for the craft's    *)
(* quiet gap, which an end-of-block frame heard from the craft opens, or   *)
(* for a blind fallback; reports take their epoch when the radio takes     *)
(* them and an anchored batch is sent once more in the next window.  The   *)
(* craft keeps one cursor per uplink stream (UplinkAcceptor).  Clocks are  *)
(* choices; the campaign copies of the same lane are in CsaLink.           *)
(***************************************************************************)
EXTENDS Naturals, Sequences, FiniteSets

CONSTANTS Streams,        \* uplink streams
          Control,        \* those of them of type CONTROL: the latest state wins
          TelemetryHold,  \* uplink.telemetry_hold
          Redundancy,     \* return.report_redundancy
          MaxReports,     \* bound: reports built
          MaxDatagrams,   \* bound: uplink datagrams per stream
          MaxUrgent       \* bound: urgent returns

ASSUME ReturnLaneAssumption ==
    Control \subseteq Streams /\ TelemetryHold \in Nat \ {0} /\ Redundancy \in Nat \ {0}

VARIABLES paced,    \* qg.enabled()
          gap,      \* the window: at (ret_at_us set), anchored (ret_tsf_anchored)
          fallback, \* which blind fallbacks are armed: reports, uplink
          returns,  \* held: urgent count, fresh reports, reports to repeat
          uplink,   \* per stream: next seq, held seqs
          epoch,    \* Reporter::epoch_
          aired,    \* the reports the radio took: <<epoch, report>>
          cursor,   \* craft: last accepted seq per uplink stream
          made,     \* bounds: reports built, urgent returns made
          refused   \* history: the radio refused a report of a batch that fired

rlVars == <<paced, gap, fallback, returns, uplink, epoch, aired, cursor, made, refused>>

RLInit ==
    /\ paced \in BOOLEAN
    /\ gap = [at |-> FALSE, anchored |-> FALSE]
    /\ fallback = [reports |-> FALSE, uplink |-> FALSE]
    /\ returns = [urgent |-> 0, fresh |-> << >>, again |-> << >>]
    /\ uplink = [s \in Streams |-> [seq |-> 0, held |-> << >>]]
    /\ epoch = 0 /\ aired = {}
    /\ cursor = [s \in Streams |-> 0] /\ made = [reports |-> 0, urgent |-> 0]
    /\ refused = FALSE

-----------------------------------------------------------------------------
\* The frames of s the craft hears, in order: what is not above the cursor is a duplicate.
Accepted(c, s, seqs) ==
    LET new == {seqs[i] : i \in DOMAIN seqs} \cup {c[s]}
    IN [c EXCEPT ![s] = CHOOSE q \in new : \A r \in new : r <= q]

\* UplinkDataStream::on_datagram; it drops what is over the rate budget or too long.
Datagram(s) ==
    LET q == uplink[s].seq + 1
        old == uplink[s].held
        kept == IF s \in Control THEN << >>
                ELSE IF Len(old) >= TelemetryHold THEN Tail(old) ELSE old
    IN /\ uplink[s].seq < MaxDatagrams
       /\ IF paced /\ gap.anchored
          THEN /\ uplink' = [uplink EXCEPT ![s] = [seq |-> q, held |-> Append(kept, q)]]
               /\ fallback' = [fallback EXCEPT !.uplink = TRUE]
               /\ cursor' = cursor
          ELSE /\ uplink' = [uplink EXCEPT ![s].seq = q]
               /\ cursor' \in {cursor, Accepted(cursor, s, <<q>>)}
               /\ fallback' = fallback
       /\ UNCHANGED <<paced, gap, returns, epoch, aired, made, refused>>

\* flush_uplink(): every held frame goes to the radio; the craft hears any of the streams.
FlushedUplink == [s \in Streams |-> [uplink[s] EXCEPT !.held = << >>]]
FlushHeard ==
    {[s \in Streams |-> IF s \in H THEN Accepted(cursor, s, uplink[s].held)[s] ELSE cursor[s]] :
        H \in SUBSET {s \in Streams : uplink[s].held # << >>}}

-----------------------------------------------------------------------------
\* send_report(): the epoch is stamped at the radio call and spent when the radio took
\* the frame; Took is the set of positions of the batch it took.
SpentBefore(Took, i) == Cardinality({j \in Took : j < i})
StampedBatch(batch, Took) ==
    [i \in DOMAIN batch |-> <<epoch + SpentBefore(Took, i) + 1, batch[i]>>]
TakenOf(frames, Took) == {frames[i] : i \in Took}

\* RxCore::tick's reports through inject_report.
Report ==
    /\ made.reports < MaxReports
    /\ LET r == made.reports + 1 IN
       /\ made' = [made EXCEPT !.reports = r]
       /\ IF paced
          THEN /\ returns' = [returns EXCEPT !.fresh = Append(@, r)]
               /\ fallback' = [fallback EXCEPT !.reports = TRUE]
               /\ UNCHANGED <<epoch, aired>>
          ELSE /\ \/ epoch' = epoch + 1 /\ aired' = aired \cup {<<epoch + 1, r>>}
                  \/ UNCHANGED <<epoch, aired>>
               /\ UNCHANGED <<returns, fallback>>
    /\ UNCHANGED <<paced, gap, uplink, cursor, refused>>

\* inject_return: held only while the window is anchored on the hardware clock.
Urgent ==
    /\ made.urgent < MaxUrgent /\ made' = [made EXCEPT !.urgent = @ + 1]
    /\ returns' = [returns EXCEPT !.urgent = IF paced /\ gap.anchored THEN @ + 1 ELSE @]
    /\ UNCHANGED <<paced, gap, fallback, uplink, epoch, aired, cursor, refused>>

\* A paced end of block is heard: the window is set anew, anchored if the adapter stamps
\* frames and its clock could be read.
EndOfBlock(stamped) ==
    /\ paced /\ gap' = [at |-> TRUE, anchored |-> stamped] /\ gap # gap'
    /\ UNCHANGED <<paced, fallback, returns, uplink, epoch, aired, cursor, made, refused>>

\* The lane after a batch fired.
LaneClearedAnchored == [at |-> FALSE, anchored |-> gap.anchored]
LaneCleared == [at |-> FALSE, anchored |-> FALSE]

\* The window's deadline, or the reports' fallback while no window is set: everything
\* held goes out; an anchored batch of reports is kept for the next window.
Fire ==
    /\ gap.at \/ fallback.reports
    /\ \E took \in SUBSET DOMAIN returns.fresh, tookAgain \in SUBSET DOMAIN returns.again :
         LET stamped == StampedBatch(returns.fresh, took) IN
         /\ aired' = aired \cup TakenOf(returns.again, tookAgain) \cup TakenOf(stamped, took)
         /\ epoch' = epoch + Cardinality(took)
         /\ refused' = (refused \/ took # DOMAIN returns.fresh)
         /\ returns' = [urgent |-> 0, fresh |-> << >>,
                        again |-> IF gap.at /\ Redundancy > 1 THEN stamped ELSE << >>]
    /\ uplink' = FlushedUplink /\ cursor' \in FlushHeard
    /\ gap' = LaneCleared
    /\ fallback' = [reports |-> FALSE, uplink |-> FALSE]
    /\ UNCHANGED <<paced, made>>

\* Held uplink frames whose window never fired.
UplinkFallback ==
    /\ fallback.uplink /\ fallback' = [fallback EXCEPT !.uplink = FALSE]
    /\ uplink' = FlushedUplink /\ cursor' \in FlushHeard
    /\ UNCHANGED <<paced, gap, returns, epoch, aired, made, refused>>

RLNext ==
    \/ Report \/ Urgent \/ Fire \/ UplinkFallback
    \/ \E s \in Streams : Datagram(s)
    \/ \E b \in BOOLEAN : EndOfBlock(b)

RLSpec == RLInit /\ [][RLNext]_rlVars

-----------------------------------------------------------------------------
\* Nothing waits without a clock: an urgent return, a report or an uplink frame that is
\* held has a deadline that will release it, whatever windows opened, moved or lost their
\* anchor since it was queued.
HeldHasDeadline ==
    /\ returns.urgent > 0 => gap.at
    /\ returns.fresh # << >> => gap.at \/ fallback.reports
    /\ \A s \in Streams : uplink[s].held # << >> => fallback.uplink

\* A report epoch names one report: the craft's filter drops an epoch it has seen, so
\* a second report under the same epoch is never acted on (send_report stamps what the
\* radio takes; a repeat keeps its stamp).  A radio that refused a report is excused.
EpochIdentifies ==
    ~refused => \A a, b \in aired : a[1] = b[1] => a[2] = b[2]

\* The lane neither strands nor confuses what it holds.
LaneSound == HeldHasDeadline /\ EpochIdentifies
=============================================================================
