------------------------------- MODULE CraftTx -------------------------------
(***************************************************************************)
(* The craft's transmit path: the frame framer (k source symbols, r repair  *)
(* symbols, END_OF_BLOCK on the last), the datagram framer of a UDP stream, *)
(* the quiet gap and its queue of held packets, the batching of the air     *)
(* back end, and the watchdog that ends the process when the radio stops    *)
(* completing.  One pass of run_tx is BeginPass, any number of Ingress and   *)
(* Drain, Late.  Payloads are left out; a packet is its stream, number,     *)
(* block, end mark and, for a repair symbol, the repair mark.               *)
(***************************************************************************)
EXTENDS Integers, Sequences

CONSTANTS
    IRate, PRate, ERate,   \* fec.*_rate_permille of the three frame classes
    MinR,                  \* fec.min_r
    MaxSymbols,            \* kFecMaxSymbols
    GuardK,                \* mtu_tier::kFecProtectionK
    Guard, Window, Skip,   \* QuietGapPolicy
    PollMax,               \* the wait of a pass that has nothing pending
    Agg,                   \* air.usb_tx_agg
    Period,                \* cadence of the selector word
    WedgeWindow, MinSubmits,   \* TxWedgePolicy
    ExitWindows,           \* air.wedge_exit_windows
    MaxSource,             \* source symbols of the largest frame
    MaxTime, MaxInputs, MaxEvents

ASSUME CraftTxAssumption ==
    /\ {IRate, PRate, ERate, MinR, Guard, Window, PollMax, Agg} \subseteq Nat
    /\ {MaxTime, MaxInputs, MaxEvents} \subseteq Nat
    /\ {MaxSymbols, MaxSource, GuardK, Skip, Period} \subseteq Nat \ {0}
    /\ {WedgeWindow, MinSubmits, ExitWindows} \subseteq Nat \ {0}

VARIABLES
    pass,       \* the pass: where it stands, and feed_paused
    out,        \* the clock and the stamp of the pass (now_us_it), held, staged and
                \* aired packets, hand-overs, cadences, the gap
    framer,     \* next sequence number and block of the frame stream
    datagrams,  \* the Framer of the UDP stream, with the stream's type
    radio,      \* what the transmitter does with a submission; does it report
    wedge,      \* TxWedge
    budget      \* inputs left; pauses, control frames and radio turns left

txVars == <<pass, out, framer, datagrams, radio, wedge, budget>>

TXInit ==
    /\ pass = [at |-> "top", paused |-> FALSE]
    /\ out = [now |-> 0, stamp |-> 0, held |-> <<>>, staged |-> <<>>, wire |-> <<>>, n |-> 0,
              dueAt |-> 0, pausedAt |-> 0, from |-> 0, to |-> 0,
              eobAt |-> -1, trod |-> FALSE]
    /\ framer = [seq |-> 0, block |-> 0]
    /\ datagrams \in [type : {"rtp", "audio"}, seq : {0}, block : {0}, open : {FALSE},
                      marker : {FALSE}, ts : {0}]
    /\ radio \in [does : {"air"}, reports : BOOLEAN]
    /\ radio.reports \/ datagrams.type = "audio"
    /\ wedge = [primed |-> FALSE, proven |-> FALSE, wedged |-> FALSE, run |-> 0, next |-> 0,
                sub |-> 0, done |-> 0]
    /\ budget = [inputs |-> MaxInputs, events |-> MaxEvents]

-----------------------------------------------------------------------------
(* FrameFramer *)

ClassRate(class) == CASE class = "idr" -> IRate [] class = "enhance" -> ERate [] OTHER -> PRate

CeilRate(k, rate) == (k * rate + 999) \div 1000

Larger(a, b) == IF a > b THEN a ELSE b

Smaller(a, b) == IF a < b THEN a ELSE b

\* repair_count: max(ceil(k * rate), min_r), or none when the class is bare or
\* the block would not fit the field.
RepairCount(k, class) ==
    LET r == Larger(CeilRate(k, ClassRate(class)), MinR)
    IN  IF ClassRate(class) = 0 \/ k + r > MaxSymbols THEN 0 ELSE r

\* A plausible slip: the enforced parity is taken as it comes.
EnforcedUnclamped(k, class, parity) ==
    IF parity >= 0 /\ class # "enhance" THEN parity ELSE RepairCount(k, class)

\* An enforced JSCC parity (-1: none) replaces the fixed rate, clamped; the
\* enhance class is exempt.
Enforced(k, class, parity) ==
    IF parity >= 0 /\ class # "enhance"
    THEN Smaller(parity, Larger(MaxSymbols - k, 0))
    ELSE RepairCount(k, class)

\* The floor of a jumbo frame packed into fewer than GuardK symbols: the
\* erasure depth it would have had unpacked.
Repairs(f) ==
    LET r == Enforced(f.k, f.class, f.parity)
        rate == ClassRate(f.class)
        floor == Larger(MinR, CeilRate(GuardK, rate))
    IN  IF f.jumbo /\ f.k < GuardK /\ rate # 0 /\ floor <= MaxSymbols - f.k /\ r < floor
        THEN floor ELSE r

Packet(stream, video, seq, block, eob) ==
    [stream |-> stream, video |-> video, seq |-> seq, block |-> block, eob |-> eob,
     repair |-> FALSE, n |-> 0]

Control == Packet("control", FALSE, 0, 0, FALSE)

\* What the encoder's frames can become: k source and r repair symbols.  A frame
\* of more source symbols than the field has is a block too, without repair.
Blocks ==
    {[k |-> f.k, r |-> Repairs(f)] :
        f \in [k : 1..MaxSource, class : {"idr", "p", "enhance"}, parity : -1..MaxSymbols,
               jumbo : BOOLEAN]}

\* on_frame: source symbols, then repair symbols, END_OF_BLOCK on the last.
Symbols(b) ==
    [i \in 1..(b.k + b.r) |->
        [Packet("frames", TRUE, framer.seq + i - 1, framer.block, i = b.k + b.r)
            EXCEPT !.repair = i > b.k]]

-----------------------------------------------------------------------------
(* The air back end *)

\* send_packet(s): a refused or wedged submission is gone, never retried.
Submit(o, ps) == IF radio.does = "air" THEN [o EXCEPT !.wire = @ \o ps] ELSE o

\* flush_staged resets the batch first, then submits it.
Flushed(o) == Submit([o EXCEPT !.staged = <<>>], o.staged)

\* AirBackend::inject.
Inject(o, p) == Submit([o EXCEPT !.n = @ + 1], <<[p EXCEPT !.n = o.n + 1]>>)

\* A plausible slip: an unbatched send that does not flush the batch first.
SendNowUnflushed(o, p) == Inject(o, p)

\* StagedAir::send_now: flush, then inject.
SendNow(o, p) == Inject(Flushed(o), p)

\* inject_staged: the batch goes when it is full; without batching, at once.
Stage(o, p) ==
    LET s == [o EXCEPT !.n = @ + 1, !.staged = Append(@, [p EXCEPT !.n = o.n + 1])]
    IN  IF Len(s.staged) >= Agg THEN Flushed(s) ELSE s

-----------------------------------------------------------------------------
(* The quiet gap *)

\* A plausible slip: the backlog no longer overrides the gap.
CanSendVideoInGapNever(o) == o.stamp < o.from \/ o.stamp >= o.to

CanSendVideo(o) ==
    \/ Len(o.held) >= Skip
    \/ o.stamp < o.from \/ o.stamp >= o.to

\* note_eob_sent, at the pass's stamp; eobAt is the instant of the EOB itself.
NoteEobSent(o) ==
    [o EXCEPT !.from = o.stamp + Guard, !.to = o.stamp + Guard + Window, !.eobAt = o.now]

\* The craft promised to listen now, and no backlog excuses the packet.
InPromisedGap(o) ==
    /\ o.eobAt >= 0 /\ Len(o.held) < Skip
    /\ o.now >= o.eobAt + Guard /\ o.now < o.eobAt + Guard + Window

\* The selector word owns no slot: it is put before a live video packet when due.
Prefixed(o, p) ==
    IF p.video /\ o.stamp >= o.dueAt
    THEN [SendNow(o, Control) EXCEPT
            !.dueAt = IF radio.does = "refuse" THEN @ ELSE o.stamp + Period]
    ELSE o

\* send_raw: a video EOB is flushed before it opens its listen window.
SendRaw(o, p) ==
    LET s == Stage(Prefixed(o, p), p)
    IN  IF p.video /\ p.eob THEN NoteEobSent(Flushed(s)) ELSE s

\* The inject of the loop: behind what is held, or held itself by the gap.
InjectPaced(o, p) ==
    IF o.held # <<>> \/ ~CanSendVideo(o)
    THEN [o EXCEPT !.held = Append(@, p)]
    ELSE SendRaw([o EXCEPT !.trod = @ \/ InPromisedGap(o)], p)

\* The symbols of one frame, one after the other.
InjectAll(o, ps) ==
    LET injected[i \in 0..Len(ps)] == IF i = 0 THEN o ELSE InjectPaced(injected[i - 1], ps[i])
    IN  injected[Len(ps)]

\* The flush of the held packets, as far as the gap allows.
FlushOne(o) ==
    IF CanSendVideo(o)
    THEN SendRaw([o EXCEPT !.trod = @ \/ InPromisedGap(o), !.held = Tail(@)], Head(o.held))
    ELSE o

FlushHeld(o) ==
    LET flushed[i \in 0..Len(o.held)] == IF i = 0 THEN o ELSE FlushOne(flushed[i - 1])
    IN  flushed[Len(o.held)]

-----------------------------------------------------------------------------
(* The pass *)

\* The head of the pass, which takes time: the stamp is read after the returns
\* are serviced, held video is flushed, feed_paused is sampled, and poll sleeps
\* unless something is held.
BeginPass ==
    /\ pass.at = "top" /\ out.now < MaxTime
    /\ LET o == Flushed(FlushHeld([out EXCEPT !.now = @ + 1, !.stamp = out.now + 1]))
       IN  \E dt \in {0, PollMax}, paused \in BOOLEAN :
            /\ o.held # <<>> => dt = 0
            /\ o.now + dt <= MaxTime
            /\ paused => budget.events > 0
            /\ out' = [o EXCEPT !.now = @ + dt]
            /\ pass' = [at |-> "polled", paused |-> paused]
            /\ budget' = [budget EXCEPT !.events = IF paused THEN @ - 1 ELSE @]
    /\ UNCHANGED <<framer, datagrams, radio, wedge>>

\* Framer::on_datagram.  ts 0 stands for a datagram that does not parse as RTP.
Datagram(ts, marker) ==
    LET d == datagrams
        opens == \/ d.type = "audio" \/ ~d.open \/ d.marker
                 \/ ts # 0 /\ d.ts # 0 /\ ts # d.ts
        ends == d.type = "audio" \/ ts = 0 \/ marker
        block == IF opens /\ d.open THEN d.block + 1 ELSE d.block
    IN  /\ out' = Flushed(InjectPaced(out,
                    Packet("datagrams", d.type = "rtp", d.seq, block, ends)))
        /\ datagrams' = [d EXCEPT !.seq = @ + 1, !.block = block, !.open = TRUE,
                            !.marker = IF d.type = "rtp" THEN ends ELSE @,
                            !.ts = IF d.type = "rtp" /\ ts # 0 THEN ts ELSE @]

Ingress ==
    /\ pass.at \in {"polled", "ingress"} /\ budget.inputs > 0
    /\ \/ pass.paused /\ UNCHANGED <<pass, out, datagrams, budget>>
       \/ /\ ~pass.paused
          /\ pass' = [pass EXCEPT !.at = "ingress"]
          /\ budget' = [budget EXCEPT !.inputs = @ - 1]
          /\ \E ts \in 0..2, marker \in BOOLEAN :
                /\ datagrams.type = "audio" => ts = 0
                /\ ts = 0 => ~marker
                /\ Datagram(ts, marker)
    /\ UNCHANGED <<framer, radio, wedge>>

\* One read_frame of the ring: a malformed frame and a frame that JSCC
\* enforcement discards make no block.
Drain ==
    /\ pass.at \in {"polled", "ingress", "drain"} /\ ~pass.paused /\ budget.inputs > 0
    /\ \/ UNCHANGED <<pass, out, framer, budget>>
       \/ \E b \in Blocks :
            /\ out' = Flushed(InjectAll(out, Symbols(b)))
            /\ framer' = [seq |-> framer.seq + b.k + b.r, block |-> framer.block + 1]
            /\ pass' = [pass EXCEPT !.at = "drain"]
            /\ budget' = [budget EXCEPT !.inputs = @ - 1]
    /\ UNCHANGED <<datagrams, radio, wedge>>

-----------------------------------------------------------------------------
(* TxWedge *)

Progress(o) == IF radio.reports THEN Len(o.wire) ELSE 0

\* A plausible slip: a silent window counts although nothing ever completed.
JudgeUnproven(w, sub, done) ==
    CASE done > w.done -> [w EXCEPT !.proven = TRUE, !.wedged = FALSE, !.run = 0]
      [] done = w.done /\ sub - w.sub >= MinSubmits -> [w EXCEPT !.wedged = TRUE, !.run = @ + 1]
      [] OTHER -> w

\* The verdict of one window: a completion clears, submissions without one
\* count once the radio has been seen completing, anything else holds.
Judge(w, sub, done) ==
    CASE done > w.done -> [w EXCEPT !.proven = TRUE, !.wedged = FALSE, !.run = 0]
      [] done = w.done /\ sub - w.sub >= MinSubmits /\ w.proven ->
            [w EXCEPT !.wedged = TRUE, !.run = @ + 1]
      [] OTHER -> w

\* poll, at the time of the pass's head: the first call anchors the window,
\* later ones judge it when it is over.
Polled(o) ==
    LET now == out.stamp
        anchored(w) == [w EXCEPT !.next = now + WedgeWindow, !.sub = o.n, !.done = Progress(o)]
    IN  CASE ~wedge.primed -> anchored([wedge EXCEPT !.primed = TRUE, !.proven = Progress(o) > 0])
          [] wedge.primed /\ now < wedge.next -> wedge
          [] OTHER -> anchored(Judge(wedge, o.n, Progress(o)))

\* The end of the pass: the paused word on its own timer, an echo, the last
\* flush, a heartbeat or beacon straight to the back end, the watchdog.
Late ==
    /\ pass.at \in {"polled", "ingress", "drain"}
    /\ \E ctl \in SUBSET {"echo", "beacon"} :
        /\ ctl # {} => budget.events > 0
        /\ budget' = [budget EXCEPT !.events = IF ctl # {} THEN @ - 1 ELSE @]
        /\ LET o == [out EXCEPT !.stamp = out.now]
               word == IF pass.paused /\ out.now >= out.pausedAt
                       THEN [SendNow(o, Control) EXCEPT !.pausedAt = out.now + Period]
                       ELSE o
               echoed == IF "echo" \in ctl THEN SendNow(word, Control) ELSE word
               ticked == Flushed(echoed)
               told == IF "beacon" \in ctl THEN Inject(ticked, Control) ELSE ticked
           IN  /\ out' = told
               /\ wedge' = Polled(told)
        /\ pass' = [pass EXCEPT !.at = IF wedge'.run >= ExitWindows THEN "exited" ELSE "top"]
    /\ UNCHANGED <<framer, datagrams, radio>>

\* The transmitter stops, refuses or comes back.
RadioTurns ==
    /\ pass.at = "top" /\ budget.events > 0
    /\ budget' = [budget EXCEPT !.events = @ - 1]
    /\ \E does \in {"air", "refuse", "wedge"} \ {radio.does} :
        radio' = [radio EXCEPT !.does = does]
    /\ UNCHANGED <<pass, out, framer, datagrams, wedge>>

TXNext == BeginPass \/ Ingress \/ Drain \/ Late \/ RadioTurns

TXSpec == TXInit /\ [][TXNext]_txVars

-----------------------------------------------------------------------------
\* Whatever was held by the gap, batched or sent unbatched, packets reach the
\* air in the order they were handed over, each stream in sequence order, and
\* nothing of a block follows its END_OF_BLOCK (StagedAir's flush-first rule
\* and the held queue of run_tx).
WireOrder ==
    LET w == out.wire
    IN  \A i, j \in 1..Len(w) : i < j =>
            /\ w[i].n < w[j].n
            /\ w[i].stream = w[j].stream /\ w[i].stream # "control" =>
                /\ w[i].seq < w[j].seq
                /\ w[i].eob => w[i].block # w[j].block

\* A block that carries repair symbols fits the field, whatever the rate, the
\* enforced parity and the jumbo floor ask for; a wider one goes out as source
\* only (FrameFramer's k + r <= 256: a repair row beyond it has no coefficients).
ParityFits ==
    \A i, j \in 1..Len(out.wire) :
        /\ out.wire[i].stream = "frames" /\ out.wire[j].stream = "frames"
        /\ out.wire[i].block = out.wire[j].block
        /\ out.wire[j].repair
        => out.wire[j].seq - out.wire[i].seq < MaxSymbols

\* Outside a producer call nothing is left in the batch: the poll timeout and
\* the heartbeat assume it.
NothingStaged == out.staged = <<>>

\* After the flush the backlog is below the override: the gap can hold video
\* back, never pile it up.
BacklogBounded == pass.at = "polled" => Len(out.held) < Skip

\* The process ends for a wedge only when the radio was seen completing and
\* since its last completion every counted window carried submissions.
WedgeEarned ==
    pass.at = "exited" =>
        /\ radio.reports /\ out.wire # <<>>
        /\ out.n - out.wire[Len(out.wire)].n >= ExitWindows * MinSubmits

\* The transmit path keeps order, keeps its queues bounded and ends the process
\* only for a transmitter that stopped completing.
TransmitSound == WireOrder /\ ParityFits /\ NothingStaged /\ BacklogBounded /\ WedgeEarned

\* PROTOCOL.md 7.2: after an EOB the craft keeps [EOB + guard, EOB + guard +
\* window) free of its own video unless the backlog override applies.  The
\* stamp of the pass is read before the wait, so the gap starts up to PollMax
\* before the EOB it belongs to.
ListenWindowKept == ~out.trod
=============================================================================
