--------------------------- MODULE ProbeEvidence ----------------------------
(***************************************************************************)
(* The rate probe: the craft flies every Period-th video frame at the rate *)
(* of the next profile up (TxCore::refresh_probe), the ground derives the  *)
(* same schedule from the sequence numbers and keeps a window of evidence  *)
(* about that rate (McsProbeWindow, src/core/src/mcs_probe.cpp), scoped by *)
(* RxCore::on_air to the video of the selected craft and fed per received  *)
(* copy.  A profile's number is its rate.  Copies are lost, corrupted and  *)
(* reordered by less than the gap horizon; the craft's counter does not    *)
(* wrap (the header says so of a flight).                                  *)
(***************************************************************************)
EXTENDS Naturals, FiniteSets

CONSTANTS Top,          \* profiles 1..Top
          Period, Slot, \* the probe schedule
          Span,         \* kSeenBits
          Horizon,      \* gap_horizon
          Copies,         \* copies of a frame that can be heard
          MaxSeq,       \* bound: frames the craft sends
          MaxMoves      \* bound: profile changes and session changes

ASSUME ProbeAssumption ==
    /\ Period \in Nat \ {0} /\ Slot \in 0..Period - 1
    /\ Span \in Nat \ {0} /\ Horizon \in 1..Span - 1
    /\ Top \in Nat /\ Copies \in Nat \ {0} /\ MaxSeq \in Nat /\ MaxMoves \in Nat

NoRate == 0

VARIABLES sender,     \* next seq, profile, max_profile pin, whether it probes, session
          flying,    \* copies on their way: seq, profile, rate, copies left, session
          win,       \* McsProbeWindow
          owner,     \* RxCore::probe_key_: the session of the window, 0 for none
          heardSeqs,     \* history: seqs heard by the window since its context began
          charged,   \* history: seqs charged by the gap walk since then
          moves

peVars == <<sender, flying, win, owner, heardSeqs, charged, moves>>

NoContext == [on |-> FALSE, profile |-> 0, cand |-> NoRate, confirmed |-> FALSE, succ |-> 0,
              fail |-> 0, old |-> FALSE, headed |-> FALSE, head |-> 0,
              walked |-> 0, seen |-> {}]

PEInit ==
    /\ sender \in [seq : {1}, profile : 1..Top, pin : {Top}, probes : BOOLEAN, session : {1}]
    /\ flying = {} /\ win = NoContext /\ owner = 0
    /\ heardSeqs = {} /\ charged = {} /\ moves = 0

\* probe_slot_hit and probe_up_candidate_mcs.
SlotHit(s) == s % Period = Slot
UpCandidate(p, pin) == IF p < Top /\ p + 1 <= pin THEN p + 1 ELSE NoRate

-----------------------------------------------------------------------------
\* The craft sends a frame, changes its profile, has its ceiling moved, or reboots.
Rate(s) ==
    IF sender.probes /\ SlotHit(s) /\ UpCandidate(sender.profile, sender.pin) # NoRate
    THEN UpCandidate(sender.profile, sender.pin) ELSE sender.profile

SendFrame ==
    /\ sender.seq <= MaxSeq
    /\ \A f \in flying : sender.seq - f.seq < Horizon
    /\ flying' = flying \cup {[seq |-> sender.seq, profile |-> sender.profile,
                               rate |-> Rate(sender.seq), left |-> Copies,
                               session |-> sender.session]}
    /\ sender' = [sender EXCEPT !.seq = @ + 1]
    /\ UNCHANGED <<win, owner, heardSeqs, charged, moves>>

Reprofile(p, pin) ==
    /\ <<p, pin>> # <<sender.profile, sender.pin>> /\ p <= pin
    /\ moves < MaxMoves /\ moves' = moves + 1
    /\ sender' = [sender EXCEPT !.profile = p, !.pin = pin]
    /\ UNCHANGED <<flying, win, owner, heardSeqs, charged>>

Reboot ==
    /\ flying = {} /\ moves < MaxMoves /\ moves' = moves + 1
    /\ sender' = [sender EXCEPT !.session = @ + 1]
    /\ UNCHANGED <<flying, win, owner, heardSeqs, charged>>

-----------------------------------------------------------------------------
\* reset_context(): the window of another profile or tuple is no evidence.
Context(p) == [NoContext EXCEPT !.on = TRUE, !.profile = p, !.cand = UpCandidate(p, Top)]

\* Evidence older than max_age_ms starts over.
Renewed(w) == IF w.old THEN [w EXCEPT !.succ = 0, !.fail = 0, !.old = FALSE] ELSE w

\* The seen_ bitmap over residues.
Bit(s) == s % Span
Recycled(w, s) == w.seen \ {Bit(q) : q \in w.head + 1..s}

\* advance_gap_walk(): the seqs it passes, and those of them it charges.
WalkFrom(w) == IF w.head - w.walked > Span THEN w.head - Span ELSE w.walked
Passed(w) == {q \in WalkFrom(w) + 1..w.head : w.head - q >= Horizon}
Charges(w) ==
    {q \in Passed(w) : w.cand # NoRate /\ w.confirmed /\ Bit(q) \notin w.seen /\ SlotHit(q)}
WalkedTo(w) == IF WalkFrom(w) + Horizon >= w.head THEN WalkFrom(w) ELSE w.head - Horizon
Walk(w) == [w EXCEPT !.fail = @ + Cardinality(Charges(w)), !.walked = WalkedTo(w)]

\* The arrival of seq s: the window after the sequence bookkeeping, before the walk.
Headed(w, s) ==
    IF ~w.headed THEN [w EXCEPT !.headed = TRUE, !.head = s, !.walked = s, !.seen = {Bit(s)}]
    ELSE IF s - w.head >= Span THEN [w EXCEPT !.head = s, !.walked = s, !.seen = {Bit(s)}]
    ELSE [w EXCEPT !.head = s, !.seen = Recycled(w, s) \cup {Bit(s)}]

\* The classification of an arrival: a rate-verified success, or a word on the rate flown.
JudgedEveryCopy(w, s, rate, first) ==
    IF ~SlotHit(s) THEN [w EXCEPT !.confirmed = (rate = w.profile)]
    ELSE IF w.cand # NoRate /\ rate = w.cand THEN [w EXCEPT !.succ = @ + 1] ELSE w
Judged(w, s, rate, first) ==
    IF SlotHit(s)
    THEN IF first /\ w.cand # NoRate /\ rate = w.cand
         THEN [w EXCEPT !.succ = @ + 1] ELSE w
    ELSE [w EXCEPT !.confirmed = (rate = w.profile)]

\* on_data of one copy.
HearCopy(f) ==
    LET same == owner = f.session /\ win.on /\ win.profile = f.profile
        w0 == IF same THEN Renewed(win) ELSE Context(f.profile)
        h0 == IF same THEN heardSeqs ELSE {}
        c0 == IF same THEN charged ELSE {}
        fresh == ~w0.headed \/ f.seq > w0.head
        late == ~fresh /\ (w0.head - f.seq >= Span \/ f.seq <= w0.walked)
    IN /\ owner' = f.session
       /\ heardSeqs' = IF late THEN h0 ELSE h0 \cup {f.seq}
       /\ IF fresh
          THEN \E h \in {Headed(w0, f.seq)} :
                  /\ win' = Judged(Walk(h), f.seq, f.rate, TRUE)
                  /\ charged' = c0 \cup Charges(h)
          ELSE /\ charged' = c0
               /\ win' = IF late THEN w0
                         ELSE Judged([w0 EXCEPT !.seen = @ \cup {Bit(f.seq)}], f.seq, f.rate,
                                     Bit(f.seq) \notin w0.seen)

\* on_crc_frames: the rate is known, the body is not trusted.
Corrupt(f) ==
    /\ win' = IF ~win.on \/ win.cand = NoRate \/ ~win.confirmed THEN win
              ELSE LET w == Renewed(win)
                   IN IF f.rate = w.cand THEN [w EXCEPT !.fail = @ + 1] ELSE w
    /\ UNCHANGED <<owner, heardSeqs, charged>>

CopyArrives ==
    \E f \in flying :
        /\ flying' = (flying \ {f}) \cup {[f EXCEPT !.left = @ - 1] : x \in {1} \ {f.left}}
        /\ HearCopy(f) \/ Corrupt(f)
        /\ UNCHANGED <<sender, moves>>
CopiesLost ==
    \E f \in flying :
        /\ flying' = flying \ {f} /\ UNCHANGED <<sender, win, owner, heardSeqs, charged, moves>>

WindowAges ==
    /\ win.on /\ ~win.old /\ win' = [win EXCEPT !.old = TRUE]
    /\ UNCHANGED <<sender, flying, owner, heardSeqs, charged, moves>>

PENext ==
    \/ SendFrame \/ Reboot \/ CopyArrives \/ CopiesLost \/ WindowAges
    \/ \E p, pin \in 1..Top : Reprofile(p, pin)

PESpec == PEInit /\ [][PENext]_peVars

-----------------------------------------------------------------------------
\* The bitmap over residues is what an unbounded memory would be, over its whole span and
\* across bursts of loss, reordering and jumps: a frame that was heard is never charged to
\* the candidate rate as lost, one that was not is never taken for heard, and however
\* many copies of a probe arrive it is credited once.
EvidenceExact ==
    /\ charged \cap heardSeqs = {}
    /\ win.succ <= Cardinality({q \in heardSeqs : SlotHit(q)})
    /\ win.headed => \A q \in 1..win.head :
           win.head - q < Span /\ q > win.walked => (Bit(q) \in win.seen <=> q \in heardSeqs)
=============================================================================
