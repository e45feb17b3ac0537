------------------------------ MODULE RxStream ------------------------------
(***************************************************************************)
(* One latched stream of the receive engine (core/src/rx.cpp): diversity   *)
(* dedup over several adapters, the plausible-forward clamp and its        *)
(* resync, gap declaration, in-order delivery or early (frame) delivery    *)
(* with FEC completion, deadlines, and the u32 cursor wrap.                *)
(*                                                                         *)
(* s is the code's Stream; each procedure that takes a Stream& is an       *)
(* operator from s to the new s, composed in the order of the code.  The   *)
(* sender and the air are setup's packets and the action OnData: every     *)
(* adapter hears the packets in air order, loses any of them, and hands    *)
(* them over at most MaxLate late.                                         *)
(***************************************************************************)
EXTENDS Integers, Sequences, FiniteSets, TLC, Functions, FiniteSetsExt

CONSTANTS
  Adapters,
  StreamSeqSpace,      \* 2^32 scaled down: sequence numbers are 0 .. StreamSeqSpace - 1
  StallTimeout, DwellCeiling,
  TickGap,       \* bound: the longest the loop goes without a tick
  Setups         \* the policies, traffics and airs a run covers

\* A traffic is a sequence of packets; a legitimate sender's block numbers and
\* send times never decrease.
Ordered(p) == \A i, j \in DOMAIN p :
                i < j => p[i].block <= p[j].block /\ p[i].at <= p[j].at

ASSUME RxConstants ==
  /\ {StreamSeqSpace, StallTimeout, DwellCeiling} \subseteq Nat /\ TickGap \in Nat \ {0}
  /\ \A x \in Setups :
       /\ x.packets \in Seq([block : Nat, eob : BOOLEAN, at : Nat]) /\ x.packets # << >>
       /\ Ordered(x.packets) /\ x.firstSeq \in 0 .. StreamSeqSpace - 1
       /\ {x.clampPkts, x.clampBlocks, x.resync, x.late, x.until} \subseteq Nat
       /\ x.budgets \subseteq Nat /\ (\E b \in x.budgets : \A c \in x.budgets : c <= b)
       /\ x.mismatch \subseteq BOOLEAN
       /\ x.frame \in BOOLEAN /\ x.clockStep \in {0, 1}

VARIABLES
  setup,      \* what follows, fixed for a run
  now, tickBy,
  pos,        \* per adapter, the last packet it handed over
  lastRx,     \* adapters_[a].last_rx_ms, 0 before its first packet
  s,
  \* history: deliveries per packet and the last one in order; when a packet
  \* last passed the clamp; the first and the last of the fresh packets heard since
  \* a delivery or an old copy
  got, lastOut, lastPass, freshSince, lastFresh

streamVars == <<setup, now, tickBy, pos, lastRx, s, got, lastOut, lastPass, freshSince, lastFresh>>

Packets == setup.packets          \* the sender's traffic: [block, eob, at] each
FirstSeq == setup.firstSeq        \* the sequence number of Packets[1]
ClampPkts == setup.clampPkts
FwdClampBlocks == setup.clampBlocks
ClampResync == setup.resync
Budgets == setup.budgets          \* block budgets of the sender's profiles
Mismatch == setup.mismatch        \* table_version verdicts heard
FrameMode == setup.frame          \* an early_deliver hook (frame-shm egress)
ClockStep == setup.clockStep      \* how far an injected now_ms may step back
MaxLate == setup.late             \* bound: how late an adapter hands over

Index == DOMAIN Packets
SeqOf(i) == (FirstSeq + i - 1) % StreamSeqSpace
NoStorm == 0

\* u64 subtraction of time stamps: a step back wraps to an enormous value.
Wrapped == 1000000
Elapsed(t, since) == IF t >= since THEN t - since ELSE Wrapped

Seqs(S) == {x.seq : x \in S}
Nearest(S) == CHOOSE x \in S : \A y \in S : x.seq <= y.seq
Farthest(S) == CHOOSE x \in S : \A y \in S : x.seq >= y.seq
Unheard == -1

\* try_latch: the packet that completes admission is the startup floor.
Floor(seq, block) ==
  [cursor |-> seq, maxSeq |-> seq, maxBlock |-> block, lastBlock |-> block,
   firstClamp |-> NoStorm, held |-> {}, blocks |-> {}, gaps |-> {},
   completed |-> {}, heardUpTo |-> [a \in Adapters |-> Unheard], bestEffort |-> FALSE]

-----------------------------------------------------------------------------
Plausible(cursor, candidate, k) == candidate <= cursor \/ candidate - cursor <= k

\* A stalled adapter is silent while a sibling still delivers.
Stalled(rx, a, t) ==
  /\ Elapsed(t, rx[a]) > StallTimeout
  /\ \E b \in Adapters \ {a} : rx[b] # 0 /\ Elapsed(t, rx[b]) <= StallTimeout

Live(st, rx, t) == {a \in Adapters : st.heardUpTo[a] # Unheard /\ ~Stalled(rx, a, t)}

Above(st, m) == {h \in st.held : h.seq > m}
Below(st, m) == {h \in st.held : h.seq < m}

\* gap_block: is missing number m attributed to block b?
GapOf(st, m, b) ==
  LET up == Above(st, m)
      lo == Below(st, m)
  IN IF up # {} /\ (lo = {} \/ Farthest(lo).eob)
     THEN Nearest(up).block = b
     ELSE lo # {} /\ Farthest(lo).block = b

NewGap(m, t, fec) ==
  [seq |-> m, since |-> t, lost |-> FALSE, superseded |-> FALSE, fec |-> fec]

\* Mutant: the enumeration starts above the cursor.
NoteGapsPastCursor(st, t) ==
  [st EXCEPT !.gaps = @ \cup
     {NewGap(m, t, FALSE) : m \in (st.cursor + 1 .. st.maxSeq - 1)
                                    \ (Seqs(st.held) \cup Seqs(@))}]

NoteGaps(st, t) ==
  LET span == (st.maxSeq - st.cursor) % StreamSeqSpace
      missing == (st.cursor .. st.cursor + span - 1) \ (Seqs(st.held) \cup Seqs(st.gaps))
  IN IF span > ClampPkts THEN st
     ELSE [st EXCEPT !.gaps = @ \cup
             {NewGap(m, t, \E b \in st.completed : GapOf(st, m, b)) : m \in missing}]

\* The newest FwdClampBlocks + 2 blocks of the completed ones.
Newest(S) == {b \in S : Cardinality({c \in S : c > b}) < FwdClampBlocks + 2}

MarkComplete(st, b) ==
  [st EXCEPT !.completed = Newest(@ \cup {b}),
             !.gaps = {[g EXCEPT !.fec = @ \/ GapOf(st, g.seq, b)] : g \in @}]

Superseded(st, m) ==
  ~st.bestEffort /\ Above(st, m) # {} /\ Nearest(Above(st, m)).block < st.maxBlock

Declared(st, rx, g, t) ==
  \/ Live(st, rx, t) # {} /\ \A a \in Live(st, rx, t) : st.heardUpTo[a] > g.seq
  \/ Elapsed(t, g.since) >= DwellCeiling

EvaluateGaps(st, rx, t) ==
  [st EXCEPT !.gaps =
     {IF g.fec THEN g
      ELSE [g EXCEPT !.superseded = @ \/ Superseded(st, g.seq),
                     !.lost = @ \/ Declared(st, rx, g, t)] : g \in @}]

DeadlinePassed(st, m, t) ==
  /\ Above(st, m) # {}
  /\ \E b \in st.blocks : b.id = Nearest(Above(st, m)).block /\ t >= b.deadline

\* Missing at the cursor: stop recovering it and advance.
Skipped(st, m, t) ==
  \E g \in st.gaps :
    /\ g.seq = m
    /\ \/ g.fec
       \/ g.superseded
       \/ ~st.bestEffort /\ DeadlinePassed(st, m, t)
       \/ st.bestEffort /\ g.lost

\* Where advance_cursor stops: past max_seq, at an open gap, or at the wrap.
CursorStop(st, t) ==
  CHOOSE c \in st.cursor .. StreamSeqSpace :
    /\ \/ c = StreamSeqSpace \/ c > st.maxSeq
       \/ c \notin Seqs(st.held) /\ ~Skipped(st, c, t)
    /\ \A d \in st.cursor .. c - 1 :
         d <= st.maxSeq /\ (d \in Seqs(st.held) \/ Skipped(st, d, t))

\* A wrapped cursor is a desync: a fresh floor at 0.
RefloorOnWrap(st) ==
  [Floor(0, st.lastBlock) EXCEPT !.bestEffort = st.bestEffort]

AdvanceCursor(st, t) ==
  LET stop == CursorStop(st, t)
      out == {h \in st.held : h.seq \in st.cursor .. stop - 1}
      last == IF out = {} THEN st.lastBlock ELSE Farthest(out).block
      nxt == [st EXCEPT !.cursor = stop, !.lastBlock = last,
                        !.held = @ \ out, !.gaps = {g \in @ : g.seq >= stop},
                        !.blocks = {b \in @ : out = {} \/ b.id >= last}]
  IN IF stop = StreamSeqSpace THEN RefloorOnWrap(nxt) ELSE nxt

\* Mutant: held packets behind an open gap are handed over too.
DeliversPastGap(st, t) == {h.id : h \in {k \in st.held : ~k.early}}

\* The packets the pass hands to deliver: early ones are gone already.
Delivers(st, t) ==
  {h.id : h \in {k \in st.held : k.seq \in st.cursor .. CursorStop(st, t) - 1 /\ ~k.early}}
-----------------------------------------------------------------------------
(* on_data                                                                 *)

InClamp(i) == /\ Plausible(s.cursor, SeqOf(i), ClampPkts)
              /\ Plausible(s.maxBlock, Packets[i].block, FwdClampBlocks)

\* Mutant: elapsed time of the storm without the underflow guard.
StormOverUnguarded(t) ==
  s.firstClamp # NoStorm /\ Elapsed(t, s.firstClamp) >= ClampResync
StormOver(t) == /\ s.firstClamp # NoStorm /\ t > s.firstClamp
                /\ t - s.firstClamp >= ClampResync

\* The stream before this packet: unchanged, or a fresh floor at it.
Base(i, bad) ==
  [(IF InClamp(i) THEN s ELSE Floor(SeqOf(i), Packets[i].block))
     EXCEPT !.firstClamp = NoStorm, !.bestEffort = s.bestEffort \/ bad]

\* Mutant: held copies are not consulted.
IsDuplicateBelowCursor(st, i) == SeqOf(i) < st.cursor
IsDuplicate(st, i) == SeqOf(i) < st.cursor \/ SeqOf(i) \in Seqs(st.held)

HeardOn(st, a, i) ==
  [st EXCEPT !.heardUpTo[a] = Max({@, SeqOf(i)})]

\* Mutant: a best-effort stream stops ratcheting max_block.
RatchetUnlessBestEffort(st, b) == IF st.bestEffort THEN st.maxBlock ELSE Max({st.maxBlock, b})
Ratchet(st, b) == Max({st.maxBlock, b})

\* Mutant: every packet of the block restarts its clock.
NoteBlockSlides(st, b, t, budget) ==
  {x \in st.blocks : x.id # b} \cup {[id |-> b, first |-> t, deadline |-> t + budget]}

\* The block's clock starts at its first packet; the profile of the moment
\* gives the budget.
NoteBlock(st, b, t, budget) ==
  LET first == IF \E x \in st.blocks : x.id = b
               THEN (CHOOSE x \in st.blocks : x.id = b).first ELSE t
  IN IF st.bestEffort THEN st.blocks
     ELSE {x \in st.blocks : x.id # b}
            \cup {[id |-> b, first |-> first, deadline |-> first + budget]}

\* The first copy of a packet enters the window.
Admit(st, i, t, budget) ==
  [st EXCEPT !.gaps = {g \in @ : g.seq # SeqOf(i)},
             !.maxSeq = Max({@, SeqOf(i)}),
             !.maxBlock = Ratchet(st, Packets[i].block),
             !.blocks = NoteBlock(st, Packets[i].block, t, budget),
             !.held = @ \cup {[seq |-> SeqOf(i), id |-> i, at |-> now, early |-> FrameMode,
                               block |-> Packets[i].block, eob |-> Packets[i].eob]}]

\* Run the cursor of st at t: ids of the in-order packets go to deliver, the
\* ids in early went to early_deliver before.
Settle(st, t, early) ==
  /\ s' = AdvanceCursor(st, t)
  /\ \E out \in {Delivers(st, t)} :
       /\ got' = [i \in Index |-> got[i] + Cardinality({i} \cap out)
                                         + Cardinality({i} \cap early)]
       /\ lastOut' = Max(out \cup {IF out = {} THEN lastOut ELSE 0})

NothingOut == UNCHANGED <<got, lastOut>>

\* History of progress: packets newer than any delivered one, heard since the
\* last delivery or the last old copy (which passes the clamp and ends a storm).
NewestOut == Max({0} \cup {i \in Index : got[i] > 0})
NoteProgress(heard) ==
  IF got' # got \/ heard \in 1 .. NewestOut THEN freshSince' = 0 /\ lastFresh' = 0
  ELSE IF heard > NewestOut
       THEN freshSince' = (IF freshSince = 0 THEN now ELSE freshSince) /\ lastFresh' = now
       ELSE UNCHANGED <<freshSince, lastFresh>>

\* Mutant: every rejected packet restarts the storm window.
RejectedRestarts(i, t, bad) ==
  /\ ~InClamp(i) /\ ~StormOver(t)
  /\ s' = [s EXCEPT !.firstClamp = t, !.bestEffort = @ \/ bad]
  /\ UNCHANGED lastPass /\ NothingOut

\* The paths of on_data for packet i, handed over by adapter a at time t.
Rejected(i, t, bad) ==
  /\ ~InClamp(i) /\ ~StormOver(t)
  /\ s' = [s EXCEPT !.firstClamp = IF @ = NoStorm THEN t ELSE @, !.bestEffort = @ \/ bad]
  /\ UNCHANGED lastPass /\ NothingOut

Accepted(i, t) == InClamp(i) \/ StormOver(t)

Duplicate(a, i, t, bad) ==
  /\ Accepted(i, t) /\ IsDuplicate(Base(i, bad), i)
  /\ s' = HeardOn(Base(i, bad), a, i)
  /\ lastPass' = now /\ NothingOut

\* The window with the first copy of i in it, before the cursor moves.
Ingest(base, rx, a, i, t, budget, complete) ==
  LET admitted == NoteGaps(HeardOn(Admit(base, i, t, budget), a, i), t)
  IN EvaluateGaps(IF complete THEN MarkComplete(admitted, Packets[i].block) ELSE admitted,
                  rx, t)

FirstCopy(a, i, t, budget, bad, complete) ==
  /\ Accepted(i, t) /\ ~IsDuplicate(Base(i, bad), i)
  /\ complete => FrameMode /\ Packets[i].block \notin s.completed
  /\ \E st \in {Ingest(Base(i, bad), [lastRx EXCEPT ![a] = t],
                      a, i, t, budget, complete)} :
       Settle(st, t, IF FrameMode THEN {i} ELSE {})
  /\ lastPass' = now

\* The packet that completes admission: a fresh floor, then the same path.
StreamInit ==
  /\ setup \in Setups
  /\ now = Packets[1].at /\ tickBy = now + TickGap
  /\ \E a \in Adapters, bad \in Mismatch, budget \in Budgets :
       /\ pos = [b \in Adapters |-> IF b = a THEN 1 ELSE 0]
       /\ lastRx = [b \in Adapters |-> IF b = a THEN now ELSE 0]
       /\ s = AdvanceCursor(
                Ingest([Floor(FirstSeq, Packets[1].block) EXCEPT !.bestEffort = bad],
                       lastRx, a, 1, now, budget, FALSE), now)
  /\ got = [i \in Index |-> IF i = 1 THEN 1 ELSE 0]
  /\ lastOut = (IF FrameMode THEN 0 ELSE 1) /\ lastPass = now
  /\ freshSince = 0 /\ lastFresh = 0

OnData(a, i, t) ==
  /\ i > pos[a] /\ Packets[i].at <= now /\ now <= Packets[i].at + MaxLate
  /\ pos' = [pos EXCEPT ![a] = i] /\ lastRx' = [lastRx EXCEPT ![a] = t]
  /\ \E bad \in Mismatch :
       \/ Rejected(i, t, bad)
       \/ Duplicate(a, i, t, bad)
       \/ \E budget \in Budgets, complete \in BOOLEAN :
            FirstCopy(a, i, t, budget, bad, complete)
  /\ NoteProgress(i) /\ UNCHANGED <<setup, now, tickBy>>

\* complete_frame: cache repair finished a block the reassembler has begun.
CompleteFrame(b, t) ==
  /\ FrameMode /\ b \notin s.completed
  /\ \E i \in Index : got[i] > 0 /\ Packets[i].block = b
  /\ \E st \in {EvaluateGaps(MarkComplete(s, b), lastRx, t)} : Settle(st, t, {})
  /\ NoteProgress(0) /\ UNCHANGED <<setup, now, tickBy, pos, lastRx, lastPass>>

Tick(t) ==
  /\ \E st \in {EvaluateGaps(s, lastRx, t)} : Settle(st, t, {})
  /\ NoteProgress(0)
  /\ tickBy' = now + TickGap /\ UNCHANGED <<setup, now, pos, lastRx, lastPass>>

Advance ==
  /\ now < tickBy /\ now < setup.until /\ now' = now + 1
  /\ UNCHANGED <<setup, tickBy, pos, lastRx, s, got, lastOut, lastPass, freshSince, lastFresh>>

Stamps == now - ClockStep .. now

StreamNext ==
  \/ \E t \in Stamps, a \in Adapters, i \in Index : OnData(a, i, t)
  \/ \E t \in Stamps, b \in {Packets[i].block : i \in Index} : CompleteFrame(b, t)
  \/ \E t \in Stamps : Tick(t)
  \/ Advance

StreamSpec == StreamInit /\ [][StreamNext]_streamVars
-----------------------------------------------------------------------------
\* No silent hole, no unbounded memory: everything the cursor still has to pass
\* is held or is a gap some timer will settle, never both, so advance_cursor
\* never stops at an unnoted number; nothing lies outside the window, and the
\* window never exceeds fwd_clamp_pkts.
WindowExact ==
  /\ Seqs(s.held) \cap Seqs(s.gaps) = {}
  /\ s.cursor .. s.maxSeq - 1 \subseteq Seqs(s.held) \cup Seqs(s.gaps)
  /\ Seqs(s.held) \cup Seqs(s.gaps) \subseteq s.cursor .. s.maxSeq
  /\ s.cursor <= s.maxSeq => s.maxSeq - s.cursor <= ClampPkts

\* A held packet never waits behind a gap longer than the block budget (or, on
\* a best-effort stream, the dwell ceiling) plus one tick, whatever the order
\* in which the adapters delivered its neighbours.
HeldBounded ==
  \A h \in s.held :
    now - h.at <= Max(Budgets \cup {DwellCeiling}) + TickGap + ClockStep

\* Diversity copies, late fills, resyncs and the early path never deliver a
\* packet twice.
DeliveredOnce == \A i \in Index : got[i] <= 1

\* Fresh traffic never goes on while nothing is delivered, and no old copy ends the
\* storm, for longer than the clamp storm plus the lateness of a packet it let
\* through, the budget and a tick.
NoStarvation ==
  lastFresh - freshSince <=
    ClampResync + MaxLate + Max(Budgets \cup {DwellCeiling}) + TickGap + ClockStep

\* Packets leave for a UDP egress in the order they were sent: nothing is handed
\* over behind a packet already out, across gaps, resyncs and late copies.
InOrder ==
  [][\A i \in Index : (got'[i] # got[i] /\ ~FrameMode) => i > lastOut]_streamVars

\* Traffic without a loss is never clamped: the packet right after the last one
\* delivered passes, in best-effort mode too.
NoNeedlessClamp ==
  [][\A a \in Adapters :
       (s.cursor > s.maxSeq /\ pos'[a] # pos[a] /\ pos'[a] = lastOut + 1)
         => s'.firstClamp = NoStorm]_streamVars

\* The window is flushed only after nothing passed the clamp for the whole
\* resync period: no step back of the clock fires it early.
ResyncEarned ==
  [][(\E h \in s.held : h.seq \notin Seqs(s'.held) /\ got'[h.id] = 0)
       => now - lastPass >= ClampResync - ClockStep]_streamVars

\* The window's state: exact, bounded in time, and nothing delivered twice (rx.cpp
\* ingest and advance_cursor).
WindowSound == WindowExact /\ HeldBounded /\ DeliveredOnce

\* The window's moves: deliveries in order, no clamp of the packet that is due, no
\* flush before its time (rx.cpp advance_cursor, clamp and resync).
MovesSound == InOrder /\ NoNeedlessClamp /\ ResyncEarned
=============================================================================
