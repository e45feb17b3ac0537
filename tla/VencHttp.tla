------------------------------ MODULE VencHttp ------------------------------
(***************************************************************************)
(* The craft's encoder actuator (VencActuator, src/io/src/venc_http.cpp)   *)
(* and the encoder it talks to.  TxCore records the wanted bitrate and     *)
(* frame rate every tick and asks for IDRs; poll() reconciles them with    *)
(* what was last acknowledged, one HTTP transaction at a time, over the    *)
(* volatile path first and the persisting one after a 404.  The encoder is *)
(* external: it serves its requests in order, may answer late, fail,       *)
(* restart, and lack the volatile path.  Clocks are choices.               *)
(***************************************************************************)
EXTENDS Naturals, Sequences

CONSTANTS Knobs,      \* 1 is the bitrate, 2 the frame rate: the order of select_pending
          Vals,       \* wanted values; 0 is the encoder's own at boot
          MaxWants,   \* bound: changes of a target and IDR requests
          MaxFaults   \* bound: errors, timeouts, restarts and needless reasserts

ASSUME VencAssumption == Knobs \subseteq Nat \ {0} /\ 0 \notin Vals

Nothing == 0
Idr == 0              \* the transaction that is not of a knob

VARIABLES act,     \* the actuator
          enc,     \* the encoder: values, live path offered
          pipe,    \* requests the encoder has not served yet
          resp,    \* the status waiting on the open connection, Nothing for none
          lied,    \* history: the encoder restarted and nobody said so
          unsure,  \* history: knobs with a request delivered and never answered
          said404, \* history: the volatile path was refused since the last reassert
          wants, faults

veVars == <<act, enc, pipe, resp, lied, unsure, said404, wants, faults>>

NoTxn == [on |-> FALSE, sent |-> FALSE, of |-> Idr, val |-> 0, persist |-> FALSE, latch |-> FALSE]

VEInit ==
    /\ act = [want |-> [k \in Knobs |-> Nothing], last |-> [k \in Knobs |-> Nothing],
              idr |-> FALSE, gate |-> FALSE, txn |-> NoTxn, fallback |-> FALSE,
              reprobe |-> FALSE, hold |-> FALSE]
    /\ enc \in [val : {[k \in Knobs |-> 0]}, live : BOOLEAN]
    /\ pipe = << >> /\ resp = Nothing /\ lied = FALSE /\ unsure = {} /\ said404 = FALSE
    /\ wants = 0 /\ faults = 0

Fault == faults < MaxFaults /\ faults' = faults + 1

-----------------------------------------------------------------------------
\* set_bitrate() and set_fps() of TxCore::tick; request_idr() of a recovery request.
Want(k, v) ==
    /\ act.want[k] # v /\ wants < MaxWants /\ wants' = wants + 1
    /\ act' = [act EXCEPT !.want[k] = v]
    /\ UNCHANGED <<enc, pipe, resp, lied, unsure, said404, faults>>

RequestIdr ==
    /\ ~act.gate /\ ~act.hold /\ ~act.idr /\ wants < MaxWants /\ wants' = wants + 1
    /\ act' = [act EXCEPT !.idr = TRUE]
    /\ UNCHANGED <<enc, pipe, resp, lied, unsure, said404, faults>>

\* select_pending() over the actuator a.
PendingOf(a) == {k \in Knobs : a.want[k] # Nothing /\ a.want[k] # a.last[k]}
Lowest(S) == CHOOSE k \in S : \A j \in S : k <= j

\* start_next_txn(): chain re-sends the refused value on the persisting path.
StartTxn(a, chain) ==
    LET probe == ~a.fallback \/ a.reprobe
        Push(k) == [on |-> TRUE, sent |-> FALSE, of |-> k, val |-> a.want[k],
                    persist |-> ~probe, latch |-> FALSE]
    IN IF chain THEN [a EXCEPT !.txn = [@ EXCEPT !.on = TRUE, !.sent = FALSE,
                                                 !.persist = TRUE, !.latch = TRUE]]
       ELSE IF a.hold THEN a
       ELSE IF PendingOf(a) # {} THEN [a EXCEPT !.txn = Push(Lowest(PendingOf(a)))]
       ELSE IF a.idr /\ ~a.gate
       THEN [a EXCEPT !.idr = FALSE, !.gate = TRUE, !.txn = [NoTxn EXCEPT !.on = TRUE]]
       ELSE a

\* What is believed of the encoder moves on an acknowledged push only.
CommitOnSend(a, ok) == [a EXCEPT !.last[a.txn.of] = a.txn.val]
Commit(a, ok) == IF ok THEN [a EXCEPT !.last[a.txn.of] = a.txn.val] ELSE a

\* finish_txn(): the actuator after the transaction ended with a status, 0 for none,
\* and the transaction poll() starts next.
FinishTxn(status) ==
    LET t == act.txn
        ok == status = 200
        closed == [act EXCEPT !.txn = [t EXCEPT !.on = FALSE]]
        done == [IF t.of = Idr THEN closed ELSE Commit(closed, ok) EXCEPT !.txn = NoTxn]
    IN IF t.of # Idr /\ ~t.persist /\ status = 404 THEN StartTxn(closed, TRUE)
       ELSE IF ~ok THEN [done EXCEPT !.hold = TRUE]
       ELSE StartTxn([done EXCEPT !.fallback = IF t.of = Idr THEN @
                                            ELSE IF ~t.persist THEN FALSE ELSE @ \/ t.latch,
                               !.reprobe = IF t.latch THEN FALSE ELSE @], FALSE)

Closed == [i \in DOMAIN pipe |-> [pipe[i] EXCEPT !.open = FALSE]]
Abandoned == {pipe[i].of : i \in {j \in DOMAIN pipe : pipe[j].open}}
             \cup IF resp # Nothing THEN {act.txn.of} ELSE {}

-----------------------------------------------------------------------------
\* poll(): idle, it starts what is pending.
PollStarts ==
    /\ ~act.txn.on /\ act' = StartTxn(act, FALSE) /\ act' # act
    /\ UNCHANGED <<enc, pipe, resp, lied, unsure, said404, wants, faults>>

\* The request is on its way.
PollSends ==
    /\ act.txn.on /\ ~act.txn.sent
    /\ act' = [act EXCEPT !.txn.sent = TRUE]
    /\ pipe' = Append(pipe, [of |-> act.txn.of, val |-> act.txn.val,
                             persist |-> act.txn.persist, open |-> TRUE])
    /\ UNCHANGED <<enc, resp, lied, unsure, said404, wants, faults>>

\* The status line is in.
PollReads ==
    /\ act.txn.on /\ resp # Nothing
    /\ act' = FinishTxn(resp) /\ resp' = Nothing
    /\ unsure' = IF resp = 200 THEN unsure \ {act.txn.of} ELSE unsure
    /\ said404' = (said404 \/ (resp = 404 /\ ~act.txn.persist))
    /\ UNCHANGED <<enc, pipe, lied, wants, faults>>

\* Refused, reset or past its deadline, at any point of the exchange.
ConnectionLost == act.txn.sent /\ resp = Nothing /\ \A i \in DOMAIN pipe : ~pipe[i].open

PollFails ==
    /\ act.txn.on
    /\ IF ConnectionLost THEN faults' = faults ELSE Fault
    /\ act' = FinishTxn(0) /\ pipe' = Closed /\ resp' = Nothing
    /\ unsure' = unsure \cup (Abandoned \ {Idr})
    /\ UNCHANGED <<enc, lied, said404, wants>>

\* invalidate(): the mode applier's notice that it restarted the encoder, or a POST
\* of venc/reassert at any other time, counted as a fault.
FallbackKept(a) == a.fallback
FallbackCleared(a) == FALSE

Invalidate ==
    /\ IF lied THEN faults' = faults ELSE Fault
    /\ act' = [act EXCEPT !.last = [k \in Knobs |-> Nothing], !.txn = NoTxn,
                          !.fallback = FallbackCleared(act), !.reprobe = FALSE, !.hold = FALSE]
    /\ pipe' = Closed /\ resp' = Nothing
    /\ unsure' = unsure \cup (Abandoned \ {Idr})
    /\ said404' = FALSE
    /\ lied' = FALSE
    /\ UNCHANGED <<enc, wants>>

\* The clocks: retry hold-off, IDR gate, re-probe window.
HoldEnds ==
    /\ act.hold /\ act' = [act EXCEPT !.hold = FALSE]
    /\ UNCHANGED <<enc, pipe, resp, lied, unsure, said404, wants, faults>>

GateEnds ==
    /\ act.gate /\ act' = [act EXCEPT !.gate = FALSE]
    /\ UNCHANGED <<enc, pipe, resp, lied, unsure, said404, wants, faults>>

ReprobeOpens ==
    /\ act.fallback /\ ~act.reprobe /\ act' = [act EXCEPT !.reprobe = TRUE]
    /\ UNCHANGED <<enc, pipe, resp, lied, unsure, said404, wants, faults>>

-----------------------------------------------------------------------------
\* The encoder serves the oldest request, or answers 500 and does nothing.
Serve(fails) ==
    /\ pipe # << >> /\ pipe' = Tail(pipe)
    /\ IF fails THEN Fault ELSE faults' = faults
    /\ LET q == Head(pipe)
           status == IF fails THEN 500
                     ELSE IF q.of = Idr \/ q.persist \/ enc.live THEN 200 ELSE 404
       IN /\ enc' = IF q.of # Idr /\ status = 200 THEN [enc EXCEPT !.val[q.of] = q.val] ELSE enc
          /\ resp' = IF q.open THEN status ELSE resp
    /\ UNCHANGED <<act, lied, unsure, said404, wants>>

\* A restart drops its values and its connections; the new one may have learnt the path.
EncoderRestarts(live) ==
    /\ Fault
    /\ enc' = [val |-> [k \in Knobs |-> 0], live |-> live]
    /\ pipe' = << >> /\ resp' = Nothing /\ lied' = TRUE
    /\ UNCHANGED <<act, unsure, said404, wants>>

VENext ==
    \/ \E k \in Knobs, v \in Vals : Want(k, v)
    \/ RequestIdr
    \/ PollStarts \/ PollSends \/ PollReads \/ PollFails
    \/ Invalidate \/ HoldEnds \/ GateEnds \/ ReprobeOpens
    \/ \E fails \in BOOLEAN : Serve(fails)
    \/ \E live \in BOOLEAN : EncoderRestarts(live)

VESpec == VEInit /\ [][VENext]_veVars

-----------------------------------------------------------------------------
\* The encoder holds what the actuator says it holds: of every knob last
\* acknowledged, unless the encoder restarted unannounced or a request to that knob
\* was delivered and never answered (write-on-change in select_pending and the
\* commit in finish_txn).
CacheHonest ==
    ~lied => \A k \in Knobs \ unsure :
        act.last[k] # Nothing =>
            \/ enc.val[k] = act.last[k]
            \/ act.txn.on /\ act.txn.of = k

\* The persisting path, which writes the encoder's flash, is used only by a craft
\* whose encoder refused the volatile one since it was last restarted by the mode
\* applier (the latch of finish_txn and invalidate()).
FlashEarned == act.txn.on /\ act.txn.persist => said404

\* The actuator's memory of the encoder is right, and it spends the encoder's flash only
\* once the volatile path answered 404 since the last reassert, a transient 404 included
\* (venc_http.cpp finish_txn, invalidate; venc.h live_fallback_).
ActuatorSound == CacheHonest /\ FlashEarned
=============================================================================
