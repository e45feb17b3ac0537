-------------------------- MODULE CacheController ---------------------------
(***************************************************************************)
(* The two ends of a repair from a cache.  A cache node's symbol store     *)
(* (src/core/src/cache_store.cpp): the newest Window blocks of one         *)
(* sender's current session.  And the ground's repair controller           *)
(* (src/core/src/cache_controller.cpp): closes the collection of           *)
(* incomplete blocks, asks caches for a bounded number of symbols, and     *)
(* checks every reply against what was asked.                              *)
(***************************************************************************)
EXTENDS Reassembler, Sequences, SequencesExt

CONSTANTS Window,        \* cfg.blocks
          HealthWindow,  \* health_window_blocks
          ReplyLimit     \* reply_limit

ASSUME StoreAssumption ==
    Window \in Nat \ {0} /\ HealthWindow \in Nat \ {0} /\ ReplyLimit \in Nat \ {0}

\* session: the key's session, 0 before the first packet.  order: the retained
\* block ids, oldest first.  sym[i]: the symbols held of block order[i].
EmptyStore == [session |-> 0, order |-> <<>>, sym |-> <<>>]

Position(st, b) == SelectInSeq(st.order, LAMBDA o : o = b)

\* note_data(): a new session clears the window, a new block evicts the oldest.
NoteData(st, session, b, x) ==
    LET s == IF st.session = session THEN st
             ELSE [EmptyStore EXCEPT !.session = session]
        i == Position(s, b)
        evict == IF Len(s.order) < Window THEN 1 ELSE 2
    IN IF i > 0 THEN [s EXCEPT !.sym[i] = @ \cup {x}]
       ELSE [s EXCEPT !.order = SubSeq(Append(@, b), evict, Len(@) + 1),
                      !.sym = SubSeq(Append(@, {x}), evict, Len(@) + 1)]

\* health_permille(): the mean share of K over the newest retained blocks.
Health(st) ==
    LET n == Min({HealthWindow, Len(st.order)})
        share(i) == (Min({Cardinality(st.sym[i]), K}) * 1000) \div K
    IN IF n = 0 THEN 0
       ELSE FoldSet(LAMBDA i, sum : share(i) + sum, 0,
                    (Len(st.order) - n + 1)..Len(st.order)) \div n

\* status(): an empty window is silence.
Status(st) ==
    IF st.order = <<>> THEN {}
    ELSE {[session |-> st.session, oldest |-> Head(st.order), health |-> Health(st)]}

\* answer(): missing sources first, then repairs the requester lacks, ascending.
Answer(st, req) ==
    LET i == Position(st, req.block)
        wanted == {x \in st.sym[i] : IF x < K THEN x \in req.missing
                                     ELSE x \notin req.have}
        n == Min({req.max, ReplyLimit, Cardinality(wanted)})
    IN IF st.session # req.session \/ i = 0 THEN {}
       ELSE ToSet(SubSeq(SetToSortSeq(wanted, <), 1, n))

-----------------------------------------------------------------------------
(* The controller *)

CONSTANTS Caches,         \* configured caches, lower numbers first
          TailGrace, LocalQuiet, MinCollect, HardClose,
          RequestTimeout, PruneAfter, StatusTimeout,
          RepairCap,      \* min(k * repair_fraction, absolute_symbol_limit)
          MaxAttempts,    \* max_cache_attempts
          HealthFloor     \* health_floor_permille

NoStatus == [session |-> 0, oldest |-> 0, health |-> 0, age |-> 0]
NewState == [closed |-> FALSE, futile |-> FALSE, attempts |-> 0, used |-> 0,
             wait |-> 0, tried |-> {}]

\* reset_link(), the request counter aside.
IdleController(next) ==
    [reg |-> [c \in Caches |-> NoStatus], blk |-> <<>>, out |-> {}, next |-> next]

OnStatus(ctl, c, st) ==
    [ctl EXCEPT !.reg[c] = [session |-> st.session, oldest |-> st.oldest,
                            health |-> st.health, age |-> 0]]

\* One time unit on the controller's clocks.
AgeController(ctl) ==
    [ctl EXCEPT
       !.reg = [c \in Caches |-> [ctl.reg[c] EXCEPT !.age = Min({@ + 1, StatusTimeout + 1})]],
       !.blk = [b \in DOMAIN ctl.blk |-> [ctl.blk[b] EXCEPT !.wait = Min({@ + 1, RequestTimeout})]],
       !.out = {[o EXCEPT !.age = Min({@ + 1, PruneAfter + 1})] : o \in ctl.out}]

Eligible(r, session, b) ==
    /\ r.session # 0 /\ r.age <= StatusTimeout
    /\ r.session = session
    /\ r.health >= HealthFloor
    /\ b >= r.oldest

\* close_due(): tail grace, quiet floored by min_collect, or hard close.
CloseDue(blk) ==
    \/ blk.eob >= TailGrace
    \/ blk.age >= MinCollect /\ blk.quiet >= LocalQuiet
    \/ blk.age >= HardClose

Better(ctl, c, d) ==
    \/ ctl.reg[c].health > ctl.reg[d].health
    \/ /\ ctl.reg[c].health = ctl.reg[d].health
       /\ \/ ctl.reg[c].age < ctl.reg[d].age
          \/ ctl.reg[c].age = ctl.reg[d].age /\ c < d

\* The caches that may be asked for block b, best first: at most one is chosen.
Chosen(ctl, st, session, b) ==
    LET able == {c \in Caches \ st.tried : Eligible(ctl.reg[c], session, b)}
    IN {c \in able : \A d \in able \ {c} : Better(ctl, c, d)}

\* What one candidate contributes to tick(): its new state and the request.
Consider(ctl, session, b, blk) ==
    LET st0 == IF b \in DOMAIN ctl.blk THEN ctl.blk[b] ELSE NewState
        st == [st0 EXCEPT !.closed = ~st0.futile /\ (@ \/ CloseDue(blk))]
        deficit == K - Cardinality(blk.held)
        room == RepairCap - st.used
        asks == /\ st.closed
                /\ st.attempts < MaxAttempts
                /\ st.attempts = 0 \/ st.wait >= RequestTimeout
                /\ room > 0
        best == Chosen(ctl, st, session, b)
        allow == Min({ReplyLimit, deficit, room})
    IN IF st0.futile \/ ~st.closed THEN [st |-> st0, req |-> {}]
       ELSE IF st.attempts = 0 /\ deficit > RepairCap
       THEN [st |-> [st EXCEPT !.futile = TRUE], req |-> {}]
       ELSE IF ~asks \/ best = {} THEN [st |-> st, req |-> {}]
       ELSE [st |-> [st EXCEPT !.attempts = @ + 1, !.used = @ + allow, !.wait = 0,
                               !.tried = @ \cup best],
             req |-> {[id |-> 0, cache |-> c, session |-> session, block |-> b, max |-> allow,
                       missing |-> Sources \ blk.held, have |-> blk.held \ Sources] :
                      c \in best}]

\* tick(): prune, then consider the candidates in ascending order; the request
\* ids follow that order.  Returns the controller and the numbered requests.
ControllerTick(ctl, session, open) ==
    LET cands == DOMAIN open
        pruned == [ctl EXCEPT !.blk = Restrict(@, DOMAIN @ \cap cands),
                              !.out = {o \in @ : o.age <= PruneAfter}]
        look == [b \in cands |-> Consider(pruned, session, b, open[b])]
        asking == {b \in cands : look[b].req # {}}
        id(b) == ctl.next + Cardinality({a \in asking : a < b})
        reqs == UNION {{[r EXCEPT !.id = id(b)] : r \in look[b].req} : b \in asking}
    IN [ctl |-> [pruned EXCEPT
                   !.blk = [b \in cands |-> look[b].st],
                   !.out = @ \cup {[req |-> r, accepted |-> 0, age |-> 0] : r \in reqs},
                   !.next = @ + Cardinality(asking)],
        requests |-> reqs]

\* on_reply(): the outstanding request that admits the symbol, if any.
Admitting(ctl, rep) ==
    {o \in ctl.out :
        /\ o.req.id = rep.id /\ o.req.cache = rep.cache /\ o.req.block = rep.block
        /\ IF rep.x < K THEN rep.x \in o.req.missing ELSE rep.x \notin o.req.have
        /\ o.accepted < o.req.max}
Accept(ctl, o) ==
    [ctl EXCEPT !.out = (@ \ {o}) \cup {[o EXCEPT !.accepted = @ + 1]}]

\* note_completed(): the block and every request for it are forgotten.
NoteCompleted(ctl, b) ==
    [ctl EXCEPT !.blk = Restrict(@, DOMAIN @ \ {b}),
                !.out = {o \in @ : o.req.block # b}]
=============================================================================
