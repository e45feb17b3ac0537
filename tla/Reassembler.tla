---------------------------- MODULE Reassembler -----------------------------
(***************************************************************************)
(* The ground's frame reassembler (src/core/src/frame_reassembler.cpp) as  *)
(* operators on its state.  A frame is a block of K source symbols and R   *)
(* Cauchy-MDS repair symbols, so any K distinct symbols rebuild it.        *)
(*                                                                         *)
(* An operator that may emit returns the set of its outcomes: the sink may *)
(* refuse a frame, and the salvage hook may or may not rebuild a picture   *)
(* from what was received.  Each outcome names the blocks whose emission   *)
(* was attempted (tried) and the accepted ones (sent).                     *)
(***************************************************************************)
EXTENDS Integers, FiniteSets, FiniteSetsExt, Functions

CONSTANTS K,         \* source symbols of a block
          R,         \* repair symbols of a block
          MaxBlock,  \* bound: block ids of a session are 1..MaxBlock
          Deadline   \* deadline_ms

ASSUME AsmAssumption ==
    K \in Nat \ {0} /\ R \in Nat /\ MaxBlock \in Nat /\ Deadline \in Nat

Blocks == 1..MaxBlock
Sources == 0..K - 1
Symbols == 0..K + R - 1
Malformed == K + R         \* a symbol that fails the geometry checks

\* known: some subheader named k.  age, quiet and eob count the time since the
\* first symbol, the last new symbol and END_OF_BLOCK (-1: not seen).  from is
\* a history: the sessions of the symbols held.
NewBlock == [known |-> FALSE, held |-> {}, age |-> 0, quiet |-> 0, eob |-> -1,
             from |-> {}]

\* reset_stream(); 0 stands for the three have_ flags being clear.
EmptyAsm == [open |-> <<>>, highest |-> 0, emitted |-> 0, finalized |-> 0]

Outcome(a, tried, sent) == [asm |-> a, tried |-> tried, sent |-> sent]

\* Blocks still in the map are incomplete: a decodable one is erased at once.
Decodable(blk) == blk.known /\ Cardinality(blk.held) >= K

\* finalize(), note_emitted() and the erase of the retired blocks.
RetireUnmarked(a, gone, sent) ==
    [a EXCEPT !.open = Restrict(a.open, DOMAIN a.open \ gone),
              !.emitted = Max(sent \cup {@})]
Retire(a, gone, sent) ==
    [a EXCEPT !.open = Restrict(a.open, DOMAIN a.open \ gone),
              !.finalized = Max(gone \cup {@}),
              !.emitted = Max(sent \cup {@})]

\* try_salvage(): never behind a newer accepted block.
Salvageable(a, b) ==
    /\ a.open[b].known /\ a.open[b].held \cap Sources # {}
    /\ b > a.emitted

\* supersede() and tick() give up the blocks of gone, oldest first.
GiveUp(a, gone) ==
    UNION {{Outcome(Retire(a, gone, sent), tried, sent) : sent \in SUBSET tried} :
           tried \in SUBSET {b \in gone : Salvageable(a, b)}}

\* The symbol joins its block; a malformed one leaves only the entry behind.
Insert(a, b, x, session) ==
    LET old == IF b \in DOMAIN a.open THEN a.open[b] ELSE NewBlock
        new == IF x = Malformed THEN old
               ELSE [old EXCEPT
                       !.known = TRUE,
                       !.held = @ \cup {x},
                       !.quiet = IF x \in old.held THEN @ ELSE 0,
                       !.eob = IF x = K + R - 1 /\ @ = -1 THEN 0 ELSE @,
                       !.from = @ \cup {session}]
    IN [a EXCEPT !.open = [o \in DOMAIN a.open \cup {b} |->
                           IF o = b THEN new ELSE a.open[o]]]

\* try_complete(): a rejected emission retires the block all the same.
Complete(o, b) ==
    IF Decodable(o.asm.open[b])
    THEN {Outcome(Retire(o.asm, {b}, acc), o.tried \cup {b}, o.sent \cup acc) :
          acc \in {{}, {b}}}
    ELSE {o}

\* push(): symbols of finalized blocks are dropped; the first valid symbol of a
\* newer block supersedes every older one (max_blocks_ahead is 0).
Push(a, b, x, session) ==
    IF b <= a.finalized THEN {Outcome(a, {}, {})}
    ELSE LET in == Insert(a, b, x, session)
         IN IF x = Malformed THEN {Outcome(in, {}, {})}
            ELSE IF b > a.highest
            THEN UNION {Complete(o, b) :
                        o \in GiveUp([in EXCEPT !.highest = b],
                                     {n \in DOMAIN in.open : n < b})}
            ELSE Complete(Outcome(in, {}, {}), b)

\* The value push() returns: some emission was attempted.
PushResult(o) == o.tried # {}

\* One time unit, then tick(): blocks past their deadline are given up.
AsmTick(a) ==
    LET older == [a EXCEPT !.open =
            [b \in DOMAIN a.open |->
               [a.open[b] EXCEPT !.age = @ + 1,
                                 !.quiet = @ + 1,
                                 !.eob = IF @ = -1 THEN -1 ELSE @ + 1]]]
    IN GiveUp(older, {b \in DOMAIN older.open : older.open[b].age >= Deadline})

\* repair_candidates(): open blocks whose k is known.
Candidates(a) == {b \in DOMAIN a.open : a.open[b].known}
=============================================================================
