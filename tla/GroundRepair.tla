---------------------------- MODULE GroundRepair ----------------------------
(***************************************************************************)
(* Frame repair on the ground (src/node/src/rx_node.cpp): symbols heard on *)
(* the air and symbols fetched from cache nodes over UDP meet in one       *)
(* reassembler, while the craft restarts, the receive engine loses its     *)
(* stream and the operator selects again.  UDP loses, delays, reorders and *)
(* duplicates; the air loses and reorders.                                 *)
(***************************************************************************)
EXTENDS CacheController

CONSTANTS MaxSession,   \* bound: sessions of the craft
          MaxRequests,  \* bound: cache requests of a behaviour
          MaxEvents     \* bound: symbols, statuses, restarts, expiries, selections

VARIABLES craft,    \* the craft's current session
          heard,    \* symbols of that session the engine has already passed on
          latched,  \* the session of the engine's stream key, 0 for none
          source,   \* FrameOut.source, 0 for none
          asm, ctl, \* the reassembler and the cache controller
          stores,   \* stores[c]: the store of cache c
          net,      \* cache datagrams in flight
          egress,   \* history: frames accepted since source was set
          events

grVars == <<craft, heard, latched, source, asm, ctl, stores, net, egress,
            events>>

GRInit ==
    /\ craft = 1 /\ heard = {} /\ latched = 0 /\ source = 0
    /\ asm = EmptyAsm /\ ctl = IdleController(1)
    /\ stores = [c \in Caches |-> EmptyStore]
    /\ net = {} /\ egress = <<>> /\ events = 0

Event == events < MaxEvents /\ events' = events + 1

\* The blocks of S, oldest first.
Ascending(S) ==
    CHOOSE q \in [1..Cardinality(S) -> S] :
        \A i, j \in 1..Cardinality(S) : i < j => q[i] < q[j]

\* write_egress() of the accepted blocks, in block order, with what each holds.
Emitted(out, o, before) ==
    LET q == Ascending(o.sent)
    IN out \o [i \in 1..Cardinality(o.sent) |->
                   [block |-> q[i], from |-> before.open[q[i]].from]]

\* A DATA symbol of the craft passes the engine once; early_deliver() resets the
\* reassembler on a new source, pushes, and reports a completed block.
AirSymbol(b, x) ==
    /\ Event
    /\ <<b, x>> \notin heard
    /\ heard' = heard \cup {<<b, x>>}
    /\ latched' = craft /\ source' = craft
    /\ \E a \in {IF source = craft THEN asm ELSE EmptyAsm},
          out \in {IF source = craft THEN egress ELSE <<>>} :
       \E o \in Push(a, b, x, craft) :
          /\ asm' = o.asm
          /\ egress' = Emitted(out, o, Insert(a, b, x, craft))
    /\ UNCHANGED <<craft, ctl, stores, net>>

\* The craft reboots; its sequence numbers and block ids start over.
CraftRestart ==
    /\ Event
    /\ craft < MaxSession
    /\ craft' = craft + 1 /\ heard' = {}
    /\ UNCHANGED <<latched, source, asm, ctl, stores, net, egress>>

\* The engine expires the stream: no key is latched, the source is remembered.
StreamExpires ==
    /\ Event
    /\ latched # 0
    /\ latched' = 0
    /\ UNCHANGED <<craft, heard, source, asm, ctl, stores, net, egress>>

\* apply_selection(): reassembler, source and controller start over.
ApplySelection ==
    /\ Event
    /\ source' = 0 /\ asm' = EmptyAsm /\ egress' = <<>>
    /\ ctl' = IdleController(ctl.next)
    /\ UNCHANGED <<craft, heard, latched, stores, net>>

\* A cache hears the craft and retains the symbol.
CacheHears(c, b, x) ==
    /\ Event
    /\ stores' = [stores EXCEPT ![c] = NoteData(@, craft, b, x)]
    /\ stores' # stores
    /\ UNCHANGED <<craft, heard, latched, source, asm, ctl, net, egress>>

\* A CACHE_STATUS arrives; a lost one is a status not sent.
CacheStatus(c) ==
    \E st \in Status(stores[c]) :
        /\ Event
        /\ ctl' = OnStatus(ctl, c, st)
        /\ UNCHANGED <<craft, heard, latched, source, asm, stores, net, egress>>

\* answer() to a request in flight: one CACHE_REPLY per symbol.
CacheAnswers(m) ==
    /\ m.kind = "request"
    /\ LET r == m.req
       IN net' = (net \ {m}) \cup
                 {[kind |-> "reply", cache |-> r.cache, id |-> r.id, block |-> r.block,
                   session |-> r.session, x |-> x] : x \in Answer(stores[r.cache], r)}
    /\ UNCHANGED <<craft, heard, latched, source, asm, ctl, stores, egress, events>>

\* The key check of service_cache_repair(): the wrapped DATA must belong to the
\* stream the engine has latched.
OfLatchedStreamAny(m) == latched # 0
OfLatchedStream(m) == latched = m.session

\* A CACHE_REPLY: key check, on_reply(), push and, on its success, the report to
\* the controller and to the engine.  keep: the datagram will arrive again.
CacheReply(m, keep) ==
    /\ m.kind = "reply"
    /\ net' = IF keep THEN net ELSE net \ {m}
    /\ LET by == IF OfLatchedStream(m) THEN Admitting(ctl, m) ELSE {}
       IN IF by = {} THEN UNCHANGED <<asm, ctl, egress>>
          ELSE \E r \in by, o \in Push(asm, m.block, m.x, m.session) :
               /\ asm' = o.asm
               /\ egress' = Emitted(egress, o, Insert(asm, m.block, m.x, m.session))
               /\ ctl' = IF PushResult(o) THEN NoteCompleted(Accept(ctl, r), m.block)
                         ELSE Accept(ctl, r)
    /\ UNCHANGED <<craft, heard, latched, source, stores, events>>

\* A pass of the ground loop one time unit later: the reassembler's tick, then
\* the controller's, which runs only while a stream is latched.
GroundTick ==
    /\ asm.open # <<>> \/ ctl.out # {}
    /\ \E o \in AsmTick(asm) :
        /\ asm' = o.asm
        /\ egress' = Emitted(egress, o, asm)
        /\ \E t \in {IF latched = 0 THEN [ctl |-> AgeController(ctl), requests |-> {}]
                     ELSE ControllerTick(AgeController(ctl), latched,
                                         Restrict(o.asm.open, Candidates(o.asm)))} :
             /\ t.ctl.next <= MaxRequests + 1
             /\ ctl' = t.ctl
             /\ net' = net \cup {[kind |-> "request", req |-> r] : r \in t.requests}
    /\ UNCHANGED <<craft, heard, latched, source, stores, events>>

GRNext ==
    \/ \E b \in Blocks, x \in Symbols \cup {Malformed} : AirSymbol(b, x)
    \/ CraftRestart
    \/ StreamExpires
    \/ ApplySelection
    \/ \E c \in Caches, b \in Blocks, x \in Symbols : CacheHears(c, b, x)
    \/ \E c \in Caches : CacheStatus(c)
    \/ \E m \in net : CacheAnswers(m)
    \/ \E m \in net, keep \in BOOLEAN : CacheReply(m, keep)
    \/ GroundTick

GRSpec == GRInit /\ [][GRNext]_grVars

-----------------------------------------------------------------------------
\* Frames reach the decoder in block order and at most once per block, however
\* air symbols, cache replies, salvage, supersession and deadlines interleave
\* (zero-reorder rule, frame_reassembler.cpp try_salvage and finalize).
EmittedInOrder ==
    \A i \in 1..Len(egress) - 1 : egress[i].block < egress[i + 1].block

\* A block never mixes symbols of two sessions of the craft, whose block ids
\* coincide: not by a late cache reply, not across a restart, an expired stream
\* or a selection (rx_node.cpp early_deliver and service_cache_repair).
OneSessionPerFrame ==
    /\ \A i \in 1..Len(egress) : Cardinality(egress[i].from) = 1
    /\ \A b \in DOMAIN asm.open : asm.open[b].from \subseteq {source, latched}
                                  /\ Cardinality(asm.open[b].from) <= 1

\* What the decoder is given: frames in order, once, each of one session of the craft.
FramesSound == EmittedInOrder /\ OneSessionPerFrame
=============================================================================
