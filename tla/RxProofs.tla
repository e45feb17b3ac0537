------------------------------ MODULE RxProofs ------------------------------
(***************************************************************************)
(* The receive engine for every value of its constants: the account of an  *)
(* adapter's losses, who may take a seat at an output, and the window of a *)
(* latched stream.                                                         *)
(***************************************************************************)
EXTENDS RxLoss, RxAdmission, RxStream, SequenceTheorems, FiniteSetTheorems, WellFoundedInduction,
        TLAPS

-----------------------------------------------------------------------------
(* The loss account.  Neither part of LossAccount is inductive by itself: a *)
(* fill must be known not to have been counted before, so the missing and   *)
(* the counted numbers are disjoint and lie at or below the highest heard.  *)

\* Missing numbers were never counted, and nothing counted lies ahead.
Split == /\ missing \cap counted = {}
         /\ \A c \in counted : c <= highest
         /\ ~have => counted = {}

LossInv == LossTypeOK /\ LossNeverNegative /\ CountedOnce /\ Split

\* Sets of sequence numbers are finite.
LEMMA FiniteSeqs ==
  ASSUME NEW S \in SUBSET Seq32
  PROVE  IsFiniteSet(S) /\ Cardinality(S) \in Nat
<1>1. SeqSpace - 1 \in Int BY LossConstants
<1>2. IsFiniteSet(Seq32) BY <1>1, FS_Interval DEF Seq32
<1>3. IsFiniteSet(S) BY <1>2, FS_Subset
<1> QED BY <1>3, FS_CardinalityType

\* Counting a number that was not counted yet keeps the count exact.
LEMMA CountNew ==
  ASSUME LossInv, NEW seq \in Seq32, seq \notin counted, Count(seq)
  PROVE  /\ received' = received + 1 /\ counted' = counted \cup {seq}
         /\ counted' \subseteq Seq32 /\ received' \in Nat /\ CountedOnce'
<1>1. IsFiniteSet(counted) BY FiniteSeqs DEF LossInv, LossTypeOK
<1>2. Cardinality(counted \cup {seq}) = Cardinality(counted) + 1
  BY <1>1, FS_AddElement
<1> QED BY <1>2 DEF LossInv, LossTypeOK, CountedOnce, Count

\* The account starts empty.
LEMMA InitInv == Init => LossInv
<1> SUFFICES ASSUME Init PROVE LossInv OBVIOUS
<1>1. Cardinality({}) = 0 BY FS_EmptySet
<1>3. missing = {} /\ counted = {} /\ received = 0 /\ expected = 0 BY DEF Init
<1>2. LossTypeOK
  <2>1. have \in BOOLEAN /\ highest = 0 /\ heard = 0 BY DEF Init
  <2>2. 0 \in Seq32 /\ 0 \in 0 .. MaxHeard BY LossConstants DEF Seq32
  <2> QED BY <2>1, <2>2, <1>3 DEF LossTypeOK
<1>4. LossNeverNegative /\ CountedOnce BY <1>1, <1>3 DEF LossNeverNegative, CountedOnce
<1>5. Split BY <1>3 DEF Split
<1> QED BY <1>2, <1>4, <1>5 DEF LossInv

\* The first number heard, or a resync, opens a new account past the old one.
LEMMA AnchorInv ==
  ASSUME LossInv, NEW seq \in Seq32, Anchor(seq), heard' \in 0 .. MaxHeard
  PROVE  LossInv'
<1>1. seq \notin counted
  BY LossConstants DEF Anchor, LossInv, LossTypeOK, Split, Seq32
<1>2. CountedOnce' /\ counted' = counted \cup {seq} /\ counted' \subseteq Seq32
      /\ received' = received + 1 /\ received' \in Nat
  BY <1>1, CountNew DEF Anchor
<1>3. Cardinality({}) = 0 BY FS_EmptySet
<1>4. Cardinality(missing) \in Nat BY FiniteSeqs DEF LossInv, LossTypeOK
<1>5. LossNeverNegative'
  BY <1>2, <1>3, <1>4 DEF Anchor, LossInv, LossTypeOK, LossNeverNegative
<1>6. LossTypeOK' BY <1>2 DEF Anchor, LossInv, LossTypeOK
<1>7. Split'
  BY <1>2, LossConstants DEF Anchor, LossInv, LossTypeOK, Split, Seq32
<1> QED BY <1>2, <1>5, <1>6, <1>7 DEF LossInv

\* A number ahead of the highest counts itself and marks the numbers it skipped.
LEMMA StepInv ==
  ASSUME LossInv, NEW seq \in Seq32, Step(seq), heard' \in 0 .. MaxHeard
  PROVE  LossInv'
<1> DEFINE skipped == highest + 1 .. seq - 1
<1>0. highest \in Nat /\ seq \in Nat /\ highest \in Int /\ seq \in Int /\ seq > highest
  BY LossConstants DEF Step, LossInv, LossTypeOK, Seq32
<1>1. seq \notin counted BY <1>0 DEF LossInv, LossTypeOK, Split, Seq32
<1>2. CountedOnce' /\ counted' = counted \cup {seq} /\ counted' \subseteq Seq32
      /\ received' = received + 1 /\ received' \in Nat
  BY <1>1, CountNew DEF Step
<1>3. IsFiniteSet(missing) /\ Cardinality(missing) \in Nat
  BY FiniteSeqs DEF LossInv, LossTypeOK
<1>4. highest + 1 \in Int /\ seq - 1 \in Int BY <1>0
<1>5. IsFiniteSet(skipped) /\ Cardinality(skipped) = seq - highest - 1
  <2>1. IsFiniteSet(skipped)
        /\ Cardinality(skipped) = IF highest + 1 > seq - 1 THEN 0
                                  ELSE (seq - 1) - (highest + 1) + 1
    BY <1>4, FS_Interval
  <2> QED BY <2>1, <1>0
<1>6. IsFiniteSet(missing \cap skipped) /\ Cardinality(missing \cap skipped) \in Nat
  <2>1. IsFiniteSet(missing \cap skipped) BY <1>3, FS_Intersection
  <2> QED BY <2>1, FS_CardinalityType
<1>7. Cardinality(missing \cup skipped)
        = Cardinality(missing) + Cardinality(skipped) - Cardinality(missing \cap skipped)
  BY <1>3, <1>5, FS_Union
<1>8. LossNeverNegative'
  <2>1. missing' = missing \cup skipped BY DEF Step
  <2>2. Cardinality(missing') <= Cardinality(missing) + (seq - highest - 1)
    BY <2>1, <1>3, <1>5, <1>6, <1>7, <1>0
  <2>3. Cardinality(missing') \in Int
    BY <2>1, <1>3, <1>5, <1>6, <1>7, <1>0
  <2>4. expected' = expected + (seq - highest) BY DEF Step
  <2> QED BY <2>2, <2>3, <2>4, <1>0, <1>2, <1>3
       DEF LossInv, LossTypeOK, LossNeverNegative
<1>9. LossTypeOK'
  <2>1. skipped \subseteq Seq32 BY <1>0, LossConstants DEF Seq32
  <2>2. missing' \subseteq Seq32 /\ \A m \in missing' : m < highest'
    BY <2>1, <1>0, LossConstants DEF Step, LossInv, LossTypeOK, Seq32
  <2> QED BY <2>2, <1>0, <1>2 DEF Step, LossInv, LossTypeOK
<1>10. Split'
  <2>1. \A c \in counted : c \in Int /\ c <= highest
    BY LossConstants DEF LossInv, LossTypeOK, Split, Seq32
  <2>2. skipped \cap counted = {} /\ seq \notin skipped BY <2>1, <1>0
  <2>3. seq \notin missing
    BY <1>0, LossConstants DEF LossInv, LossTypeOK, Seq32
  <2> QED BY <2>1, <2>2, <2>3, <1>0, <1>2 DEF Step, LossInv, Split
<1> QED BY <1>2, <1>8, <1>9, <1>10 DEF LossInv

\* A late number is counted only if it was missing.
LEMMA FillInv ==
  ASSUME LossInv, NEW seq \in Seq32, Fill(seq), heard' \in 0 .. MaxHeard
  PROVE  LossInv'
<1>1. seq \notin counted BY DEF Fill, LossInv, Split
<1>2. CountedOnce' /\ counted' = counted \cup {seq} /\ counted' \subseteq Seq32
      /\ received' = received + 1 /\ received' \in Nat
  BY <1>1, CountNew DEF Fill
<1>3. IsFiniteSet(missing) /\ Cardinality(missing) \in Nat
  BY FiniteSeqs DEF LossInv, LossTypeOK
<1>4. Cardinality(missing \ {seq}) = Cardinality(missing) - 1
  BY <1>3, FS_RemoveElement DEF Fill
<1>5. LossNeverNegative'
  BY <1>2, <1>3, <1>4 DEF Fill, LossInv, LossTypeOK, LossNeverNegative
<1>6. LossTypeOK' BY <1>2 DEF Fill, LossInv, LossTypeOK
<1>7. Split' BY <1>2 DEF Fill, LossInv, LossTypeOK, Split
<1> QED BY <1>2, <1>5, <1>6, <1>7 DEF LossInv

\* Every step keeps the account.
LEMMA NextInv == LossInv /\ [Next]_vars => LossInv'
<1> SUFFICES ASSUME LossInv, [Next]_vars PROVE LossInv' OBVIOUS
<1>1. ASSUME NEW seq \in Seq32, NoteAdapterSeq(seq) PROVE LossInv'
  <2>1. heard' \in 0 .. MaxHeard
    BY <1>1, LossConstants DEF NoteAdapterSeq, LossInv, LossTypeOK
  <2>2. CASE Anchor(seq) BY <2>1, <2>2, AnchorInv
  <2>3. CASE Step(seq) BY <2>1, <2>3, StepInv
  <2>4. CASE Fill(seq) BY <2>1, <2>4, FillInv
  <2>5. CASE Ignore(seq)
    BY <2>1, <2>5
       DEF Ignore, LossInv, LossTypeOK, LossNeverNegative, CountedOnce, Split
  <2> QED BY <1>1, <2>2, <2>3, <2>4, <2>5 DEF NoteAdapterSeq
<1>2. CASE ResetStats
  <2>1. Cardinality({}) = 0 BY FS_EmptySet
  <2> QED BY <1>2, <2>1
       DEF ResetStats, LossInv, LossTypeOK, LossNeverNegative, CountedOnce, Split
<1>3. CASE UNCHANGED vars
  BY <1>3 DEF vars, LossInv, LossTypeOK, LossNeverNegative, CountedOnce, Split
<1> QED BY <1>1, <1>2, <1>3 DEF Next

\* The inductive invariant of the account.
THEOREM LossInvariant == Spec => []LossInv
<1> QED BY InitInv, NextInv, PTL DEF Spec

\* prediv_lost = expected - received never underflows, for every sequence space,
\* clamp and interleaving of packets and resets.
THEOREM LossNeverUnderflows == Spec => []LossNeverNegative
<1>1. LossInv => LossNeverNegative BY DEF LossInv
<1> QED BY <1>1, LossInvariant, PTL

\* A packet adds to the received count at most once between two resets.
THEOREM ReceivedIsExact == Spec => []CountedOnce
<1>1. LossInv => CountedOnce BY DEF LossInv
<1> QED BY <1>1, LossInvariant, PTL

\* Both together: the account every LINK_REPORT is made from is sound for every sequence
\* space, clamp and history (rx.cpp note_adapter_seq, reset_stats).
THEOREM LossAccountHolds == Spec => []LossAccount
<1>1. LossInv => LossAccount BY DEF LossInv, LossAccount
<1> QED BY <1>1, LossInvariant, PTL

-----------------------------------------------------------------------------
(* Admission *)

Ids == {Outputs[i].id : i \in DOMAIN Outputs}
Seats == [tuple : Tuples, id : Ids, last : Nat]
Candidates == [tuple : Tuples, count : 1 .. AdmitN - 1, first : Nat, last : Nat]

\* The arrivals h of a candidate c at time T: its count is the run that ends them, begun at
\* c.first, and the run before it had fewer than AdmitN packets and was outlived by a window.
RunFrom(c, h) == Len(h) - c.count + 1
Run(c, h, T) ==
    /\ RunFrom(c, h) >= 1 /\ h[RunFrom(c, h)] = c.first
    /\ \A i, j \in 1 .. Len(h) : i <= j => h[i] <= h[j]
    /\ \A i \in 1 .. Len(h) : h[i] <= T
    /\ RunFrom(c, h) > 1 => \E r \in 1 .. RunFrom(c, h) - 1 :
          RunFrom(c, h) - r <= AdmitN - 1 /\ c.first - h[r] > AdmitWindow

Runs ==
    /\ \A t \in Tuples : Listed(t) = {} => arrivals[t] = << >>
    /\ \A c \in discovery : Run(c, arrivals[c.tuple], admNow)

AdmInv ==
    /\ AdmissionTypeOK /\ OneServer /\ Runs
    /\ IsFiniteSet(discovery) /\ discovery \subseteq Candidates /\ streams \subseteq Seats
    /\ arrivals \in [Tuples -> Seq(Nat)]

\* The constants of admission.
LEMMA AdmFacts ==
  /\ AdmitN \in Nat /\ AdmitWindow \in Nat /\ CacheCap \in Nat /\ MaxNow \in Nat
  /\ AdmitN > 0 /\ CacheCap > 0 /\ MaxNow > 0
BY AdmissionConstants

\* The arrivals of a candidate counted on.
LEMMA RunGrows ==
  ASSUME NEW c \in Candidates, NEW h \in Seq(Nat), NEW T \in Nat, Run(c, h, T),
         NEW d \in Candidates, d.count = c.count + 1, d.first = c.first
  PROVE  Run(d, Append(h, T), T)
<1> DEFINE g == Append(h, T)
           p == RunFrom(c, h)
<1>1. c.count \in Nat /\ Len(h) \in Nat /\ c.first \in Nat BY AdmFacts DEF Candidates
<1>2. /\ Len(g) = Len(h) + 1 /\ g[Len(h) + 1] = T /\ \A i \in 1 .. Len(h) : g[i] = h[i] /\ h[i] \in Nat
  OBVIOUS
<1>3. /\ p >= 1 /\ h[p] = c.first
      /\ \A i, j \in 1 .. Len(h) : i <= j => h[i] <= h[j]
      /\ \A i \in 1 .. Len(h) : h[i] <= T
      /\ p > 1 => \E r \in 1 .. p - 1 : p - r <= AdmitN - 1 /\ c.first - h[r] > AdmitWindow
  BY DEF Run
<1>4. p = Len(h) - c.count + 1 BY DEF RunFrom
<1>5. c.count >= 1 BY DEF Candidates
<1> HIDE DEF g, p
<1>6. RunFrom(d, g) = p
  <2>1. RunFrom(d, g) = Len(g) - d.count + 1 BY DEF RunFrom
  <2>2. d.count = c.count + 1 OBVIOUS
  <2> QED BY <1>1, <1>2, <1>4, <2>1, <2>2
<1>7. p \in 1 .. Len(h) BY <1>1, <1>3, <1>4, <1>5
<1>8. g[p] = c.first BY <1>2, <1>3, <1>7
<1>9. ASSUME NEW i \in 1 .. Len(g) PROVE g[i] <= T
  BY <1>1, <1>2, <1>3, <1>9
<1>10. ASSUME NEW i \in 1 .. Len(g), NEW j \in 1 .. Len(g), i <= j PROVE g[i] <= g[j]
  <2>1. CASE j = Len(h) + 1 BY <1>2, <1>9, <2>1
  <2>2. CASE j # Len(h) + 1
    <3>1. i \in 1 .. Len(h) /\ j \in 1 .. Len(h) BY <1>1, <1>2, <1>10, <2>2
    <3> QED BY <1>2, <1>3, <1>10, <3>1
  <2> QED BY <2>1, <2>2
<1>11. ASSUME p > 1
       PROVE  \E r \in 1 .. p - 1 : p - r <= AdmitN - 1 /\ d.first - g[r] > AdmitWindow
  <2>1. PICK r \in 1 .. p - 1 : p - r <= AdmitN - 1 /\ c.first - h[r] > AdmitWindow BY <1>3, <1>11
  <2>2. r \in 1 .. Len(h) BY <1>1, <1>7, <2>1
  <2>3. g[r] = h[r] BY <1>2, <2>2
  <2> QED BY <2>1, <2>3
<1>12. Run(d, g, T) BY <1>3, <1>6, <1>8, <1>9, <1>10, <1>11 DEF Run
<1> QED BY <1>12 DEF g

\* The arrivals of a candidate begun afresh: the first ever, or after a run that was outlived.
LEMMA RunBegins ==
  ASSUME NEW h \in Seq(Nat), NEW T \in Nat, NEW d \in Candidates, d.count = 1, d.first = T,
         \/ h = << >>
         \/ \E c \in Candidates : Run(c, h, T) /\ T - c.first > AdmitWindow
  PROVE  Run(d, Append(h, T), T)
<1> DEFINE g == Append(h, T)
<1>1. Len(h) \in Nat OBVIOUS
<1>2. /\ Len(g) = Len(h) + 1 /\ g[Len(h) + 1] = T /\ \A i \in 1 .. Len(h) : g[i] = h[i] /\ h[i] \in Nat
  OBVIOUS
<1> HIDE DEF g
<1>3. RunFrom(d, g) = Len(h) + 1 BY <1>1, <1>2 DEF RunFrom
<1>4. CASE h = << >>
  <2>1. Len(h) = 0 BY <1>4
  <2>2. RunFrom(d, g) = 1 /\ Len(g) = 1 /\ g[1] = T BY <1>2, <1>3, <2>1
  <2>3. Run(d, g, T) BY <2>2 DEF Run
  <2> QED BY <2>3 DEF g
<1>5. CASE \E c \in Candidates : Run(c, h, T) /\ T - c.first > AdmitWindow
  <2>1. PICK c \in Candidates : Run(c, h, T) /\ T - c.first > AdmitWindow BY <1>5
  <2> DEFINE p == RunFrom(c, h)
  <2>2. c.count \in Nat /\ c.count >= 1 /\ c.count <= AdmitN - 1 BY AdmFacts DEF Candidates
  <2>3. p = Len(h) - c.count + 1 BY DEF RunFrom
  <2>4. /\ p >= 1 /\ h[p] = c.first
        /\ \A i, j \in 1 .. Len(h) : i <= j => h[i] <= h[j]
        /\ \A i \in 1 .. Len(h) : h[i] <= T
    BY <2>1 DEF Run
  <2> HIDE DEF p
  <2>5. p \in 1 .. Len(h) BY <1>1, <2>2, <2>3, <2>4
  <2>6. g[p] = c.first BY <1>2, <2>4, <2>5
  <2>7. ASSUME NEW i \in 1 .. Len(g) PROVE g[i] <= T
    BY <1>1, <1>2, <2>4, <2>7
  <2>8. ASSUME NEW i \in 1 .. Len(g), NEW j \in 1 .. Len(g), i <= j PROVE g[i] <= g[j]
    <3>1. CASE j = Len(h) + 1 BY <1>2, <2>7, <3>1
    <3>2. CASE j # Len(h) + 1
      <4>1. i \in 1 .. Len(h) /\ j \in 1 .. Len(h) BY <1>1, <1>2, <2>8, <3>2
      <4> QED BY <1>2, <2>4, <2>8, <4>1
    <3> QED BY <3>1, <3>2
  <2>9. \E r \in 1 .. (Len(h) + 1) - 1 : (Len(h) + 1) - r <= AdmitN - 1 /\ T - g[r] > AdmitWindow
    <3>1. p \in 1 .. (Len(h) + 1) - 1 BY <1>1, <2>5
    <3>2. (Len(h) + 1) - p <= AdmitN - 1 BY <1>1, <2>2, <2>3, AdmFacts
    <3>3. T - g[p] > AdmitWindow BY <2>1, <2>6
    <3> QED BY <3>1, <3>2, <3>3
  <2>10. Run(d, g, T) BY <1>1, <1>2, <1>3, <2>7, <2>8, <2>9 DEF Run
  <2> QED BY <2>10 DEF g
<1> QED BY <1>4, <1>5

\* A sender that keeps sending was let in long before its arrivals fill two runs in a window.
LEMMA RunsAreShort ==
  ASSUME NEW c \in Candidates, NEW h \in Seq(Nat), NEW T \in Nat, Run(c, h, T),
         Len(h) >= 2 * AdmitN - 1
  PROVE  h[Len(h)] - h[Len(h) - 2 * AdmitN + 2] > AdmitWindow
<1> DEFINE p == RunFrom(c, h)
           n == Len(h)
           k == n - 2 * AdmitN + 2
<1>1. c.count \in Nat /\ c.count >= 1 /\ c.count <= AdmitN - 1 /\ c.first \in Nat
  BY AdmFacts DEF Candidates
<1>2. p = n - c.count + 1 /\ n \in Nat BY DEF RunFrom
<1>3. /\ h[p] = c.first /\ \A i, j \in 1 .. n : i <= j => h[i] <= h[j]
      /\ p > 1 => \E r \in 1 .. p - 1 : p - r <= AdmitN - 1 /\ c.first - h[r] > AdmitWindow
  BY DEF Run
<1>4. \A i \in 1 .. n : h[i] \in Nat OBVIOUS
<1> HIDE DEF p
<1>5. p > 1 /\ p \in 1 .. n BY <1>1, <1>2, AdmFacts
<1>6. PICK r \in 1 .. p - 1 : p - r <= AdmitN - 1 /\ c.first - h[r] > AdmitWindow BY <1>3, <1>5
<1>7. k \in 1 .. n /\ r \in 1 .. n /\ k <= r /\ n \in 1 .. n /\ p <= n
  <2>1. n >= 2 * AdmitN - 1 /\ k = n - 2 * AdmitN + 2 OBVIOUS
  <2> HIDE DEF n, k
  <2>2. k \in Int /\ k >= 1 /\ k <= n BY <1>2, <2>1, AdmFacts
  <2>3. r \in Int /\ 1 <= r /\ r <= p - 1 /\ p - r <= AdmitN - 1 BY <1>5, <1>6
  <2>4. k <= r BY <1>1, <1>2, <1>5, <2>1, <2>2, <2>3, AdmFacts
  <2> QED BY <1>2, <1>5, <2>2, <2>3, <2>4
<1>8. h[k] <= h[r] /\ h[p] <= h[n] BY <1>3, <1>5, <1>7
<1>9. h[k] \in Nat /\ h[r] \in Nat /\ h[p] \in Nat /\ h[n] \in Nat BY <1>4, <1>5, <1>7
<1> HIDE DEF k, n
<1>10. h[p] - h[r] > AdmitWindow /\ AdmitWindow \in Nat BY <1>3, <1>6, AdmFacts
<1>11. h[n] - h[k] > AdmitWindow
  <2> DEFINE hn == h[n]
             hk == h[k]
             hp == h[p]
             hr == h[r]
  <2>1. /\ hn \in Nat /\ hk \in Nat /\ hp \in Nat /\ hr \in Nat /\ AdmitWindow \in Nat
        /\ hk <= hr /\ hp <= hn /\ hp - hr > AdmitWindow
    BY <1>8, <1>9, <1>10
  <2> HIDE DEF hn, hk, hp, hr
  <2>2. hn - hk > AdmitWindow BY <2>1
  <2> QED BY <2>2 DEF hn, hk
<1> QED BY <1>11 DEF k, n

\* The room the least recently heard candidates make.
LEMMA EvictMakesRoom ==
  ASSUME AdmInv, NEW t \in Tuples, NEW left \in Evict(discovery \ Listed(t))
  PROVE  /\ left \subseteq discovery /\ IsFiniteSet(left) /\ Cardinality(left) \in Nat
         /\ \A c \in left : c.tuple # t
         /\ Cardinality(left) + 1 <= CacheCap
<1> DEFINE others == discovery \ Listed(t)
<1>1. IsFiniteSet(discovery) /\ Cardinality(discovery) <= CacheCap BY DEF AdmInv, AdmissionTypeOK
<1>2. others \in SUBSET discovery /\ \A c \in others : c.tuple # t BY DEF Listed
<1>3. /\ IsFiniteSet(others) /\ Cardinality(others) \in Nat /\ Cardinality(discovery) \in Nat
      /\ Cardinality(others) <= Cardinality(discovery)
  BY <1>1, <1>2, FS_Subset, FS_CardinalityType
<1> HIDE DEF others
<1>4. left \in Evict(others) BY DEF others
<1>5. CASE Cardinality(others) + 1 > CacheCap
  <2>1. PICK v \in others : left = others \ {v} BY <1>4, <1>5 DEF Evict
  <2>2. Cardinality(left) = Cardinality(others) - 1 /\ IsFiniteSet(left)
    BY <1>3, <2>1, FS_RemoveElement
  <2>3. Cardinality(left) \in Nat BY <2>2, FS_CardinalityType
  <2>4. Cardinality(left) + 1 <= CacheCap BY <1>1, <1>3, <2>2, <2>3, AdmFacts
  <2> QED BY <1>2, <2>1, <2>2, <2>3, <2>4
<1>6. CASE ~(Cardinality(others) + 1 > CacheCap)
  <2>1. left = others BY <1>4, <1>6 DEF Evict
  <2>2. Cardinality(others) + 1 <= CacheCap BY <1>3, <1>6, AdmFacts
  <2> QED BY <1>2, <1>3, <2>1, <2>2
<1> QED BY <1>5, <1>6

\* A packet of a candidate: counted on within its window, or begun afresh.
LEMMA TouchedFacts ==
  ASSUME AdmInv, NEW t \in Tuples
  PROVE  /\ Touched(t).tuple = t /\ Touched(t).count \in 1 .. AdmitN
         /\ Touched(t).count < AdmitN =>
               /\ Touched(t) \in Candidates
               /\ Run(Touched(t), Append(arrivals[t], admNow), admNow)
         /\ Touched(t).count >= AdmitN =>
               LET h == Append(arrivals[t], admNow)
               IN Len(h) >= AdmitN /\ admNow - h[Len(h) - AdmitN + 1] <= AdmitWindow
<1> DEFINE d == Touched(t)
           h == arrivals[t]
           g == Append(h, admNow)
<1>1. /\ discovery \subseteq Candidates /\ h \in Seq(Nat) /\ admNow \in Nat
      /\ \A x, y \in discovery : x.tuple = y.tuple => x = y
      /\ \A x \in discovery : Run(x, arrivals[x.tuple], admNow)
      /\ Listed(t) = {} => h = << >>
  BY AdmFacts DEF AdmInv, AdmissionTypeOK, Runs
<1>2. /\ Len(h) \in Nat /\ Len(g) = Len(h) + 1 /\ g[Len(h) + 1] = admNow
      /\ \A i \in 1 .. Len(h) : g[i] = h[i]
  BY <1>1
<1>3. CASE \E c \in Listed(t) : ~WindowClosed(c)
  <2>1. PICK c \in Listed(t) : ~WindowClosed(c) BY <1>3
  <2>2. c \in discovery /\ c.tuple = t /\ c \in Candidates BY <1>1, <2>1 DEF Listed
  <2>3. (CHOOSE x \in Listed(t) : TRUE) = c BY <1>1, <2>1, <2>2 DEF Listed
  <2>4. d = [c EXCEPT !.count = c.count + 1, !.last = admNow] BY <1>3, <2>3 DEF Touched
  <2>5. /\ c.count \in Nat /\ c.count >= 1 /\ c.count <= AdmitN - 1 /\ c.first \in Nat
    BY <2>2, AdmFacts DEF Candidates
  <2>6. d.tuple = t /\ d.count = c.count + 1 /\ d.first = c.first BY <2>2, <2>4 DEF Candidates
  <2>7. Run(c, h, admNow) BY <1>1, <2>2
  <2>8. ASSUME d.count < AdmitN PROVE d \in Candidates
    <3>1. c.count + 1 \in 1 .. AdmitN - 1 BY <2>5, <2>6, <2>8, AdmFacts
    <3> QED BY <1>1, <2>2, <2>4, <3>1 DEF Candidates
  <2> HIDE DEF d, g, h
  <2>9. d.count < AdmitN => Run(d, Append(h, admNow), admNow)
    BY <1>1, <2>2, <2>6, <2>7, <2>8, RunGrows
  <2>10. ASSUME d.count >= AdmitN
         PROVE  Len(g) >= AdmitN /\ admNow - g[Len(g) - AdmitN + 1] <= AdmitWindow
    <3>1. c.count = AdmitN - 1 BY <2>5, <2>6, <2>10, AdmFacts
    <3>2. RunFrom(c, h) = Len(h) - c.count + 1 BY DEF RunFrom
    <3>3. RunFrom(c, h) >= 1 /\ h[RunFrom(c, h)] = c.first BY <2>7 DEF Run
    <3> DEFINE p == RunFrom(c, h)
    <3> HIDE DEF p
    <3>4. p = Len(h) - c.count + 1 /\ p >= 1 /\ h[p] = c.first BY <3>2, <3>3 DEF p
    <3>5. Len(g) - AdmitN + 1 = Len(h) - c.count + 1 BY <1>2, <2>5, <3>1, AdmFacts
    <3>6. Len(g) - AdmitN + 1 = p BY <3>4, <3>5
    <3>7. Len(g) >= AdmitN BY <1>2, <2>5, <3>1, <3>4, AdmFacts
    <3>8. CASE AdmitN = 1
      <4> QED BY <2>5, <3>8
    <3>9. CASE AdmitN # 1
      <4>1. p \in 1 .. Len(h) BY <1>2, <2>5, <3>4
      <4>2. g[p] = c.first BY <1>2, <3>4, <4>1
      <4>3. admNow - c.first <= AdmitWindow BY <1>1, <2>1, <2>5, AdmFacts DEF WindowClosed
      <4> QED BY <3>6, <3>7, <4>2, <4>3
    <3> QED BY <3>8, <3>9
  <2>11. d.count \in 1 .. AdmitN BY <2>5, <2>6, AdmFacts
  <2> QED BY <2>6, <2>8, <2>9, <2>10, <2>11 DEF d, g, h
<1>4. CASE ~(\E c \in Listed(t) : ~WindowClosed(c))
  <2>1. d = [tuple |-> t, count |-> 1, first |-> admNow, last |-> admNow] BY <1>4 DEF Touched
  <2>2. d.tuple = t /\ d.count = 1 /\ d.first = admNow BY <2>1
  <2>3. ASSUME d.count < AdmitN PROVE d \in Candidates
    <3>1. 1 \in 1 .. AdmitN - 1 BY <2>2, <2>3, AdmFacts
    <3> QED BY <1>1, <2>1, <3>1 DEF Candidates
  <2>4. h = << >> \/ \E c \in Candidates : Run(c, h, admNow) /\ admNow - c.first > AdmitWindow
    <3>1. CASE Listed(t) = {} BY <1>1, <3>1
    <3>2. CASE Listed(t) # {}
      <4>1. PICK c \in Listed(t) : TRUE BY <3>2
      <4>2. c \in discovery /\ c.tuple = t BY DEF Listed
      <4>3. admNow - c.first > AdmitWindow BY <1>4, <4>1 DEF WindowClosed
      <4> QED BY <1>1, <4>2, <4>3
    <3> QED BY <3>1, <3>2
  <2> HIDE DEF d, g, h
  <2>5. d.count < AdmitN => Run(d, Append(h, admNow), admNow)
    BY <1>1, <2>2, <2>3, <2>4, RunBegins
  <2>6. ASSUME d.count >= AdmitN
        PROVE  Len(g) >= AdmitN /\ admNow - g[Len(g) - AdmitN + 1] <= AdmitWindow
    <3>1. AdmitN = 1 BY <2>2, <2>6, AdmFacts
    <3>2. Len(g) - AdmitN + 1 = Len(h) + 1 BY <1>2, <3>1
    <3>3. g[Len(g) - AdmitN + 1] = admNow BY <1>2, <3>2
    <3> QED BY <1>1, <1>2, <3>1, <3>3, AdmFacts
  <2>7. d.count \in 1 .. AdmitN BY <2>2, AdmFacts
  <2> QED BY <2>2, <2>3, <2>5, <2>6, <2>7 DEF d, g, h
<1> QED BY <1>3, <1>4

\* What a step may do to a subscription.
SeatsMove ==
    /\ \A x \in streams, y \in streams' : x.id = y.id => x.tuple.orig = y.tuple.orig
    /\ \A y \in streams' : ~Latched(y.tuple) =>
          LET h == Append(arrivals[y.tuple], admNow)
          IN Len(h) >= AdmitN /\ admNow - h[Len(h) - AdmitN + 1] <= AdmitWindow

\* A step that seats nobody and forgets candidates and their arrivals together.
LEMMA ForgettingKeeps ==
  ASSUME AdmInv, streams' \subseteq streams, discovery' \subseteq discovery,
         UNCHANGED admNow, pin' = pin \/ streams' = {}, pin' \in Pins \cup {NoPin},
         arrivals' = [t \in Tuples |-> IF \E c \in discovery' : c.tuple = t THEN arrivals[t] ELSE << >>]
  PROVE  AdmInv' /\ SeatsMove
<1>1. /\ AdmissionTypeOK /\ OneServer /\ Runs
      /\ IsFiniteSet(discovery) /\ discovery \subseteq Candidates /\ streams \subseteq Seats
      /\ arrivals \in [Tuples -> Seq(Nat)]
  BY DEF AdmInv
<1>2. arrivals' \in [Tuples -> Seq(Nat)]
  <2>1. << >> \in Seq(Nat) OBVIOUS
  <2> QED BY <1>1, <2>1
<1>3. /\ IsFiniteSet(discovery') /\ Cardinality(discovery') <= CacheCap
  <2>1. IsFiniteSet(discovery') /\ Cardinality(discovery') <= Cardinality(discovery)
    BY <1>1, FS_Subset
  <2>2. Cardinality(discovery') \in Nat /\ Cardinality(discovery) \in Nat
    BY <1>1, <2>1, FS_CardinalityType
  <2> QED BY <1>1, <2>1, <2>2, AdmFacts DEF AdmissionTypeOK
<1>4. AdmissionTypeOK' BY <1>1, <1>3 DEF AdmissionTypeOK
<1>5. OneServer' BY <1>1 DEF OneServer
<1>6. Runs'
  <2>1. ASSUME NEW t \in Tuples, Listed(t)' = {} PROVE arrivals'[t] = << >>
    BY <2>1 DEF Listed
  <2>2. ASSUME NEW c \in discovery' PROVE Run(c, arrivals'[c.tuple], admNow)
    <3>1. c \in discovery /\ c.tuple \in Tuples BY <1>1 DEF Candidates
    <3>2. arrivals'[c.tuple] = arrivals[c.tuple] BY <3>1
    <3> QED BY <1>1, <3>1, <3>2 DEF Runs
  <2> QED BY <2>1, <2>2 DEF Runs
<1>7. AdmInv' BY <1>1, <1>2, <1>3, <1>4, <1>5, <1>6 DEF AdmInv
<1>8. SeatsMove BY <1>1 DEF SeatsMove, Latched, OneServer
<1> QED BY <1>7, <1>8

\* A packet of a tuple nobody serves: refused, counted, or let in.
LEMMA HearUnlatchedKeeps ==
  ASSUME AdmInv, NEW t \in Tuples, HearUnlatched(t)
  PROVE  AdmInv' /\ SeatsMove
<1>1. /\ AdmissionTypeOK /\ OneServer /\ Runs
      /\ IsFiniteSet(discovery) /\ discovery \subseteq Candidates /\ streams \subseteq Seats
      /\ arrivals \in [Tuples -> Seq(Nat)]
  BY DEF AdmInv
<1>2. ~Latched(t) /\ UNCHANGED <<admNow, admTickBy, pin>> BY DEF HearUnlatched
<1>3. admNow \in Nat BY <1>1, AdmFacts DEF AdmissionTypeOK
<1>4. CASE Want(t) = {}
  <2>1. UNCHANGED <<admNow, pin, streams, discovery, arrivals>> BY <1>2, <1>4 DEF HearUnlatched
  <2>2. AdmInv' BY <1>1, <2>1 DEF AdmInv, AdmissionTypeOK, OneServer, Runs, Listed
  <2>3. SeatsMove BY <1>1, <2>1 DEF SeatsMove, Latched, OneServer
  <2> QED BY <2>2, <2>3
<1>5. CASE Want(t) # {}
  <2> DEFINE d == Touched(t)
             g == Append(arrivals[t], admNow)
  <2>1. PICK i \in Want(t), left \in Evict(discovery \ Listed(t)) :
          /\ arrivals' = [u \in Tuples |->
               IF u = t THEN IF d.count >= AdmitN THEN << >> ELSE g
               ELSE IF \E c \in left : c.tuple = u THEN arrivals[u] ELSE << >>]
          /\ IF d.count < AdmitN
             THEN discovery' = left \cup {d} /\ UNCHANGED streams
             ELSE /\ discovery' = left
                  /\ streams' = (streams \ Serving(Outputs[i].id))
                       \cup {[tuple |-> t, id |-> Outputs[i].id, last |-> admNow]}
    BY <1>5 DEF HearUnlatched
  <2>2. /\ left \subseteq discovery /\ IsFiniteSet(left) /\ Cardinality(left) \in Nat
        /\ \A c \in left : c.tuple # t
        /\ Cardinality(left) + 1 <= CacheCap
    BY EvictMakesRoom
  <2>3. /\ d.tuple = t /\ d.count \in 1 .. AdmitN
        /\ d.count < AdmitN => d \in Candidates /\ Run(d, g, admNow)
        /\ d.count >= AdmitN => Len(g) >= AdmitN /\ admNow - g[Len(g) - AdmitN + 1] <= AdmitWindow
    BY TouchedFacts
  <2>4. g \in Seq(Nat) /\ << >> \in Seq(Nat) BY <1>1, <1>3
  <2> HIDE DEF d, g
  <2>5. arrivals' \in [Tuples -> Seq(Nat)] BY <1>1, <2>1, <2>4
  <2>6. ASSUME NEW c \in left PROVE c \in Candidates /\ Run(c, arrivals'[c.tuple], admNow)
    <3>1. c \in discovery /\ c.tuple \in Tuples /\ c.tuple # t BY <1>1, <2>2 DEF Candidates
    <3>2. arrivals'[c.tuple] = arrivals[c.tuple] BY <2>1, <3>1
    <3> QED BY <1>1, <3>1, <3>2 DEF Runs
  <2>7. ASSUME NEW u \in Tuples, u # t, ~ \E c \in left : c.tuple = u PROVE arrivals'[u] = << >>
    BY <2>1, <2>7
  <2>8. CASE d.count < AdmitN
    <3>1. discovery' = left \cup {d} /\ streams' = streams BY <2>1, <2>8
    <3>2. ~(d.count >= AdmitN) /\ arrivals'[t] = g BY <2>1, <2>3, <2>8, AdmFacts
    <3>3. d \in Candidates /\ d.tuple = t /\ d \notin left BY <2>2, <2>3, <2>8
    <3>4. IsFiniteSet(discovery') /\ Cardinality(discovery') = Cardinality(left) + 1
      BY <2>2, <3>1, <3>3, FS_AddElement
    <3>5. AdmissionTypeOK'
      <4>1. \A c \in discovery' : c \in Candidates BY <2>6, <3>1, <3>3
      <4>2. \A c, e \in discovery' : c.tuple = e.tuple => c = e
        BY <1>1, <2>2, <3>1, <3>3 DEF AdmissionTypeOK
      <4>3. Cardinality(discovery') <= CacheCap BY <2>2, <3>4
      <4> QED BY <1>1, <1>2, <4>1, <4>2, <4>3 DEF AdmissionTypeOK, Candidates
    <3>6. OneServer' BY <1>1, <1>2, <3>1 DEF OneServer
    <3>7. Runs'
      <4>1. ASSUME NEW u \in Tuples, Listed(u)' = {} PROVE arrivals'[u] = << >>
        BY <2>7, <3>1, <3>3, <4>1 DEF Listed
      <4>2. ASSUME NEW c \in discovery' PROVE Run(c, arrivals'[c.tuple], admNow)
        BY <2>3, <2>6, <2>8, <3>1, <3>2, <3>3
      <4> QED BY <1>2, <4>1, <4>2 DEF Runs
    <3>8. AdmInv'
      <4>1. discovery' \subseteq Candidates BY <2>6, <3>1, <3>3
      <4> QED BY <1>1, <2>5, <3>1, <3>4, <3>5, <3>6, <3>7, <4>1 DEF AdmInv
    <3>9. SeatsMove BY <1>1, <3>1 DEF SeatsMove, Latched, OneServer
    <3> QED BY <3>8, <3>9
  <2>9. CASE ~(d.count < AdmitN)
    <3> DEFINE id == Outputs[i].id
               new == [tuple |-> t, id |-> id, last |-> admNow]
    <3>1. discovery' = left /\ streams' = (streams \ Serving(id)) \cup {new} BY <2>1, <2>9
    <3>2. d.count >= AdmitN BY <2>3, <2>9, AdmFacts
    <3>3. i \in DOMAIN Outputs /\ Open(Outputs[i], t) BY DEF Want
    <3>4. pin \in {NoPin, t.orig} /\ \A x \in Serving(id) : x.tuple.orig = t.orig BY <3>3 DEF Open
    <3>5. new \in Seats /\ new.tuple = t /\ new.id = id BY <1>3, <3>3 DEF Seats, Ids
    <3> HIDE DEF id, new
    <3>6. \A x \in streams \ Serving(id) : x.id # id /\ x.tuple # t BY <1>2 DEF Serving, Latched
    <3>7. AdmissionTypeOK'
      <4>1. \A c \in discovery' : c \in Candidates BY <2>6, <3>1
      <4>2. \A c, e \in discovery' : c.tuple = e.tuple => c = e
        BY <1>1, <2>2, <3>1 DEF AdmissionTypeOK
      <4>3. Cardinality(discovery') <= CacheCap BY <2>2, <3>1, AdmFacts
      <4> QED BY <1>1, <1>2, <4>1, <4>2, <4>3 DEF AdmissionTypeOK, Candidates
    <3>8. OneServer'
      <4>1. ASSUME NEW x \in streams', NEW y \in streams', x.id = y.id \/ x.tuple = y.tuple
            PROVE  x = y
        BY <1>1, <3>1, <3>5, <3>6, <4>1 DEF OneServer
      <4>2. ASSUME NEW x \in streams' PROVE pin' \in {NoPin, x.tuple.orig}
        BY <1>1, <1>2, <3>1, <3>4, <3>5 DEF OneServer
      <4> QED BY <4>1, <4>2 DEF OneServer
    <3>9. Runs'
      <4>1. arrivals'[t] = << >> BY <2>1, <3>2
      <4>2. ASSUME NEW u \in Tuples, Listed(u)' = {} PROVE arrivals'[u] = << >>
        BY <2>7, <3>1, <4>1, <4>2 DEF Listed
      <4>3. ASSUME NEW c \in discovery' PROVE Run(c, arrivals'[c.tuple], admNow)
        BY <2>6, <3>1
      <4> QED BY <1>2, <4>2, <4>3 DEF Runs
    <3>10. AdmInv'
      <4>1. discovery' \subseteq Candidates /\ IsFiniteSet(discovery') BY <2>2, <2>6, <3>1
      <4>2. streams' \subseteq Seats BY <1>1, <3>1, <3>5
      <4> QED BY <2>5, <3>7, <3>8, <3>9, <4>1, <4>2 DEF AdmInv
    <3>11. ASSUME NEW x \in streams, NEW y \in streams', x.id = y.id
           PROVE  x.tuple.orig = y.tuple.orig
      <4>1. CASE y = new
        <5>1. x \in Serving(id) BY <3>5, <3>11, <4>1 DEF Serving
        <5> QED BY <3>4, <3>5, <4>1, <5>1
      <4>2. CASE y # new BY <1>1, <3>1, <3>11, <4>2 DEF OneServer
      <4> QED BY <4>1, <4>2
    <3>12. ASSUME NEW y \in streams', ~Latched(y.tuple) PROVE y.tuple = t
      BY <3>1, <3>5, <3>12 DEF Latched
    <3>13. SeatsMove
      <4>1. Len(g) >= AdmitN /\ admNow - g[Len(g) - AdmitN + 1] <= AdmitWindow BY <2>3, <3>2
      <4> QED BY <3>11, <3>12, <4>1 DEF SeatsMove, g
    <3> QED BY <3>10, <3>13
  <2> QED BY <2>8, <2>9
<1> QED BY <1>4, <1>5

\* A packet of a latched tuple moves nothing but the time it was heard.
LEMMA HearLatchedKeeps ==
  ASSUME AdmInv, NEW t \in Tuples, HearLatched(t)
  PROVE  AdmInv' /\ SeatsMove
<1>1. /\ AdmissionTypeOK /\ OneServer /\ Runs
      /\ IsFiniteSet(discovery) /\ discovery \subseteq Candidates /\ streams \subseteq Seats
      /\ arrivals \in [Tuples -> Seq(Nat)]
  BY DEF AdmInv
<1> DEFINE Heard(x) == IF x.tuple = t THEN [x EXCEPT !.last = admNow] ELSE x
<1>2. /\ streams' = {Heard(x) : x \in streams}
      /\ UNCHANGED <<admNow, admTickBy, pin, discovery, arrivals>>
  BY DEF HearLatched
<1>3. admNow \in Nat BY <1>1, AdmFacts DEF AdmissionTypeOK
<1>4. ASSUME NEW x \in streams
      PROVE  Heard(x) \in Seats /\ Heard(x).tuple = x.tuple /\ Heard(x).id = x.id
  <2>1. x \in Seats BY <1>1
  <2> QED BY <1>3, <2>1 DEF Seats
<1> HIDE DEF Heard
<1>5. streams' \subseteq Seats BY <1>2, <1>4
<1>6. OneServer'
  <2>1. ASSUME NEW x \in streams', NEW y \in streams', x.id = y.id \/ x.tuple = y.tuple
        PROVE  x = y
    <3>1. PICK a \in streams : x = Heard(a) BY <1>2
    <3>2. PICK b \in streams : y = Heard(b) BY <1>2
    <3>3. a = b BY <1>1, <1>4, <2>1, <3>1, <3>2 DEF OneServer
    <3> QED BY <3>1, <3>2, <3>3
  <2>2. ASSUME NEW x \in streams' PROVE pin' \in {NoPin, x.tuple.orig}
    <3>1. PICK a \in streams : x = Heard(a) BY <1>2
    <3> QED BY <1>1, <1>2, <1>4, <3>1 DEF OneServer
  <2> QED BY <2>1, <2>2 DEF OneServer
<1>7. AdmInv'
  <2>1. AdmissionTypeOK' BY <1>1, <1>2 DEF AdmissionTypeOK
  <2>2. Runs' BY <1>1, <1>2 DEF Runs, Listed
  <2> QED BY <1>1, <1>2, <1>5, <1>6, <2>1, <2>2 DEF AdmInv
<1>8. ASSUME NEW y \in streams' PROVE \E a \in streams : y.tuple = a.tuple /\ y.id = a.id
  BY <1>2, <1>4
<1>9. SeatsMove BY <1>1, <1>8 DEF SeatsMove, Latched, OneServer
<1> QED BY <1>7, <1>9

\* Time passes.
LEMMA AdvanceKeeps == ASSUME AdmInv, AdmAdvance PROVE AdmInv' /\ SeatsMove
<1>1. /\ AdmissionTypeOK /\ OneServer /\ Runs
      /\ IsFiniteSet(discovery) /\ discovery \subseteq Candidates /\ streams \subseteq Seats
      /\ arrivals \in [Tuples -> Seq(Nat)]
  BY DEF AdmInv
<1>2. admNow' = admNow + 1 /\ admNow < MaxNow /\ UNCHANGED <<pin, streams, discovery, arrivals>>
  BY DEF AdmAdvance
<1>3. admNow \in 1 .. MaxNow /\ admNow' \in 1 .. MaxNow
  BY <1>1, <1>2, AdmFacts DEF AdmissionTypeOK
<1>4. ASSUME NEW c \in discovery PROVE Run(c, arrivals[c.tuple], admNow')
  <2> DEFINE h == arrivals[c.tuple]
  <2>1. h \in Seq(Nat) /\ Run(c, h, admNow) BY <1>1 DEF Runs, Candidates
  <2> HIDE DEF h
  <2>2. \A k \in 1 .. Len(h) : h[k] \in Nat BY <2>1
  <2>3. \A k \in 1 .. Len(h) : h[k] <= admNow BY <2>1 DEF Run
  <2>4. \A k \in 1 .. Len(h) : h[k] <= admNow' BY <1>2, <1>3, <2>2, <2>3, AdmFacts
  <2>5. Run(c, h, admNow') BY <2>1, <2>4 DEF Run
  <2> QED BY <2>5 DEF h
<1>5. Runs' BY <1>1, <1>2, <1>4 DEF Runs, Listed
<1>6. AdmInv'
  <2>1. AdmissionTypeOK' BY <1>1, <1>2, <1>3 DEF AdmissionTypeOK
  <2>2. OneServer' BY <1>1, <1>2 DEF OneServer
  <2> QED BY <1>1, <1>2, <1>5, <2>1, <2>2 DEF AdmInv
<1>7. SeatsMove BY <1>1, <1>2 DEF SeatsMove, Latched, OneServer
<1> QED BY <1>6, <1>7

\* Every step of admission.
LEMMA AdmStep == AdmInv /\ [AdmNext]_admVars => AdmInv' /\ [SeatsMove]_admVars
<1> SUFFICES ASSUME AdmInv, [AdmNext]_admVars PROVE AdmInv' /\ [SeatsMove]_admVars
  OBVIOUS
<1>1. ASSUME NEW t \in Tuples, HearUnlatched(t) PROVE AdmInv' /\ SeatsMove
  BY <1>1, HearUnlatchedKeeps
<1>2. ASSUME NEW t \in Tuples, HearLatched(t) PROVE AdmInv' /\ SeatsMove
  BY <1>2, HearLatchedKeeps
<1>3. pin \in Pins \cup {NoPin} BY DEF AdmInv, AdmissionTypeOK
<1>4. CASE AdmTick
  <2>1. streams' \subseteq streams /\ discovery' \subseteq discovery /\ UNCHANGED <<admNow, pin>>
    BY <1>4 DEF AdmTick
  <2>2. arrivals' = [t \in Tuples |-> IF \E c \in discovery' : c.tuple = t THEN arrivals[t] ELSE << >>]
    BY <1>4 DEF AdmTick
  <2> QED BY <1>3, <2>1, <2>2, ForgettingKeeps
<1>5. ASSUME streams' = {}, discovery' = {}, arrivals' = NoArrivals, UNCHANGED admNow,
             pin' \in Pins \cup {NoPin}
      PROVE  AdmInv' /\ SeatsMove
  <2>1. arrivals' = [t \in Tuples |-> IF \E c \in discovery' : c.tuple = t THEN arrivals[t] ELSE << >>]
    BY <1>5 DEF NoArrivals
  <2> QED BY <1>5, <2>1, ForgettingKeeps
<1>6. CASE Unpin BY <1>5, <1>6 DEF Unpin
<1>7. ASSUME NEW o \in Pins, Select(o) PROVE AdmInv' /\ SeatsMove BY <1>5, <1>7 DEF Select
<1>8. CASE AdmAdvance BY <1>8, AdvanceKeeps
<1>9. CASE UNCHANGED admVars
  BY <1>9 DEF admVars, AdmInv, AdmissionTypeOK, OneServer, Runs, Listed
<1> QED BY <1>1, <1>2, <1>4, <1>6, <1>7, <1>8, <1>9 DEF AdmNext

\* Before the first packet.
LEMMA AdmStart == AdmInit => AdmInv
<1> SUFFICES ASSUME AdmInit PROVE AdmInv OBVIOUS
<1>1. /\ admNow = 1 /\ pin = NoPin /\ streams = {} /\ discovery = {} /\ arrivals = NoArrivals
  BY DEF AdmInit
<1>2. IsFiniteSet({}) /\ Cardinality({}) = 0 BY FS_EmptySet
<1>3. arrivals \in [Tuples -> Seq(Nat)] /\ \A t \in Tuples : arrivals[t] = << >>
  <2>1. << >> \in Seq(Nat) OBVIOUS
  <2> QED BY <1>1, <2>1 DEF NoArrivals
<1>4. AdmissionTypeOK BY <1>1, <1>2, AdmFacts DEF AdmissionTypeOK
<1>5. OneServer BY <1>1 DEF OneServer
<1>6. Runs BY <1>1, <1>3 DEF Runs
<1> QED BY <1>1, <1>2, <1>3, <1>4, <1>5, <1>6 DEF AdmInv

\* The runs bound what a sender that keeps sending can be made to wait.
LEMMA GrantFollows == AdmInv => AdmissionGranted
<1> SUFFICES ASSUME AdmInv, NEW t \in Tuples, Len(arrivals[t]) >= 2 * AdmitN - 1
             PROVE  arrivals[t][Len(arrivals[t])]
                      - arrivals[t][Len(arrivals[t]) - 2 * AdmitN + 2] > AdmitWindow
  BY DEF AdmissionGranted
<1>1. arrivals[t] \in Seq(Nat) /\ admNow \in Nat /\ discovery \subseteq Candidates
  BY AdmFacts DEF AdmInv, AdmissionTypeOK
<1>2. Listed(t) # {}
  <2>1. SUFFICES ASSUME Listed(t) = {} PROVE FALSE OBVIOUS
  <2>2. arrivals[t] = << >> BY <2>1 DEF AdmInv, Runs
  <2>3. Len(arrivals[t]) = 0 BY <2>2
  <2> QED BY <2>3, AdmFacts
<1>3. PICK c \in discovery : c.tuple = t BY <1>2 DEF Listed
<1>4. Run(c, arrivals[t], admNow) BY <1>3 DEF AdmInv, Runs
<1> HIDE DEF AdmInv
<1> QED BY <1>1, <1>3, <1>4, RunsAreShort

\* Admission for every set of senders, wants and pins, every threshold, window and cap: a
\* seat is exclusive, earned by AdmitN packets within one window, kept by its originator
\* until a teardown, and granted to whoever sends 2 * AdmitN - 1 packets within a window
\* (rx.cpp try_latch, tick, select_originator and unpin_originator).
THEOREM AdmissionAlwaysSound == AdmSpec => AdmissionSound
<1>1. AdmInv => AdmissionTypeOK /\ OneServer BY DEF AdmInv
<1>2. [SeatsMove]_admVars =>
        [\A x \in streams, y \in streams' : x.id = y.id => x.tuple.orig = y.tuple.orig]_admVars
  BY DEF SeatsMove
<1>3. [SeatsMove]_admVars =>
        [\A y \in streams' : ~Latched(y.tuple) =>
           LET h == Append(arrivals[y.tuple], admNow)
           IN Len(h) >= AdmitN /\ admNow - h[Len(h) - AdmitN + 1] <= AdmitWindow]_admVars
  BY DEF SeatsMove
<1>4. AdmSpec => []AdmInv /\ [][SeatsMove]_admVars BY AdmStart, AdmStep, PTL DEF AdmSpec
<1> QED BY <1>1, <1>2, <1>3, <1>4, GrantFollows, PTL DEF AdmissionSound, IncumbentHolds, AdmissionEarned

-----------------------------------------------------------------------------
(* The stream's window.  Every procedure of the stream is described once, by  *)
(* what it leaves of the window (a Fields lemma); the window without a hole    *)
(* (Window) is inductive by itself.  Bounds in time and single delivery need   *)
(* more: what is held is what was sent (Genuine), the clocks of gaps and       *)
(* blocks are no younger than the packets behind them (Clocks), and what was   *)
(* delivered lies below the cursor or is an early copy (Counted).  Progress    *)
(* is a wait that a held packet or a running storm bounds (Waiting).           *)

\* The state of one stream.
HeldPackets == [seq : Nat, id : Nat, at : Nat, early : BOOLEAN, block : Nat, eob : BOOLEAN]
GapNotes == [seq : Nat, since : Int, lost : BOOLEAN, superseded : BOOLEAN, fec : BOOLEAN]
BlockClocks == [id : Nat, first : Int, deadline : Int]
StreamStates ==
  [cursor : Nat, maxSeq : Nat, maxBlock : Nat, lastBlock : Nat, firstClamp : Int,
   held : SUBSET HeldPackets, blocks : SUBSET BlockClocks, gaps : SUBSET GapNotes,
   completed : SUBSET Nat, heardUpTo : [Adapters -> Int], bestEffort : BOOLEAN]

\* What a setup guarantees of the traffic.
LEMMA SetupFacts ==
  ASSUME setup \in Setups
  PROVE  /\ Packets \in Seq([block : Nat, eob : BOOLEAN, at : Nat]) /\ 1 \in Index
         /\ Index = 1 .. Len(Packets) /\ Len(Packets) \in Nat
         /\ \A i \in Index : /\ Packets[i] \in [block : Nat, eob : BOOLEAN, at : Nat]
                             /\ Packets[i].block \in Nat /\ Packets[i].at \in Nat
                             /\ Packets[i].eob \in BOOLEAN
         /\ FirstSeq \in 0 .. StreamSeqSpace - 1 /\ StreamSeqSpace \in Nat /\ StreamSeqSpace > 0
         /\ \A i \in Index : SeqOf(i) \in 0 .. StreamSeqSpace - 1
         /\ SeqOf(1) = FirstSeq
         /\ ClampPkts \in Nat /\ FwdClampBlocks \in Nat /\ ClampResync \in Nat
         /\ Budgets \subseteq Nat /\ Mismatch \subseteq BOOLEAN /\ FrameMode \in BOOLEAN
         /\ ClockStep \in {0, 1} /\ TickGap \in Nat
<1>1. /\ Packets \in Seq([block : Nat, eob : BOOLEAN, at : Nat]) /\ Packets # << >>
      /\ FirstSeq \in 0 .. StreamSeqSpace - 1 /\ StreamSeqSpace \in Nat
      /\ ClampPkts \in Nat /\ FwdClampBlocks \in Nat /\ ClampResync \in Nat
      /\ Budgets \subseteq Nat /\ Mismatch \subseteq BOOLEAN /\ FrameMode \in BOOLEAN
      /\ ClockStep \in {0, 1} /\ TickGap \in Nat
  BY RxConstants DEF Packets, FirstSeq, ClampPkts, FwdClampBlocks, ClampResync, Budgets, Mismatch,
                     FrameMode, ClockStep
<1>2. Len(Packets) \in Nat /\ Index = 1 .. Len(Packets) BY <1>1 DEF Index
<1>3. 1 \in Index BY <1>1, <1>2
<1>4. ASSUME NEW i \in Index
      PROVE  /\ Packets[i] \in [block : Nat, eob : BOOLEAN, at : Nat]
             /\ Packets[i].block \in Nat /\ Packets[i].at \in Nat /\ Packets[i].eob \in BOOLEAN
  <2>1. i \in 1 .. Len(Packets) BY <1>2
  <2>2. Packets[i] \in [block : Nat, eob : BOOLEAN, at : Nat] BY <1>1, <2>1, ElementOfSeq
  <2> QED BY <2>2
<1>5. ASSUME NEW i \in Index PROVE SeqOf(i) \in 0 .. StreamSeqSpace - 1
  <2>1. FirstSeq + i - 1 \in Int /\ StreamSeqSpace \in Nat \ {0} BY <1>1, <1>2
  <2> QED BY <2>1 DEF SeqOf
<1>6. SeqOf(1) = FirstSeq BY <1>1 DEF SeqOf
<1> QED BY <1>1, <1>2, <1>3, <1>4, <1>5, <1>6

\* The largest of two.
LEMMA MaxTwo ==
  ASSUME NEW a \in Int, NEW b \in Int
  PROVE  /\ Max({a, b}) \in {a, b} /\ Max({a, b}) >= a /\ Max({a, b}) >= b
<1>1. \E x \in {a, b} : \A y \in {a, b} : x >= y
  <2>1. CASE a >= b BY <2>1
  <2>2. CASE b >= a BY <2>2
  <2> QED BY <2>1, <2>2
<1> QED BY <1>1 DEF Max

\* A set of naturals that is not empty has a least element.
LEMMA LeastNat ==
  ASSUME NEW S \in SUBSET Nat, S # {}
  PROVE  \E x \in S : \A y \in S : x <= y
<1>1. PICK x \in S : \A y \in S : ~(<<y, x>> \in OpToRel(<, Nat))
  BY NatLessThanWellFounded, WFMin
<1>2. x \in Nat /\ \A y \in S : y \in Nat /\ ~(y < x) BY <1>1 DEF OpToRel
<1> QED BY <1>2

\* A bounded one has a greatest.
LEMMA GreatestNat ==
  ASSUME NEW S \in SUBSET Nat, S # {}, NEW n \in Nat, \A x \in S : x <= n
  PROVE  \E x \in S : \A y \in S : x >= y
<1> DEFINE D == {d \in Nat : n - d \in S}
<1>1. D # {}
  <2>1. PICK x \in S : TRUE OBVIOUS
  <2>2. x \in Nat /\ x <= n BY <2>1
  <2>3. n - x \in Nat /\ n - (n - x) = x BY <2>2
  <2>4. n - x \in D BY <2>1, <2>3
  <2> QED BY <2>4
<1>2. PICK d \in D : \A e \in D : d <= e
  <2>1. D \in SUBSET Nat OBVIOUS
  <2> HIDE DEF D
  <2> QED BY <1>1, <2>1, LeastNat
<1>3. ASSUME NEW y \in S PROVE n - d >= y
  <2>1. y \in Nat /\ y <= n OBVIOUS
  <2>2. n - y \in Nat /\ n - (n - y) = y BY <2>1
  <2>3. n - y \in D BY <2>2
  <2>4. d <= n - y /\ d \in Nat BY <1>2, <2>3
  <2> QED BY <2>1, <2>4
<1>4. n - d \in S BY <1>2
<1> QED BY <1>3, <1>4

\* The nearest and the farthest of a set of held packets.
LEMMA Extremes ==
  ASSUME NEW S \in SUBSET HeldPackets, S # {}
  PROVE  /\ Nearest(S) \in S /\ \A y \in S : Nearest(S).seq <= y.seq
         /\ \A n \in Nat : (\A y \in S : y.seq <= n) =>
              Farthest(S) \in S /\ \A y \in S : y.seq <= Farthest(S).seq
<1> DEFINE Q == {x.seq : x \in S}
<1>1. Q \in SUBSET Nat /\ Q # {} BY DEF HeldPackets
<1>2. \E x \in S : \A y \in S : x.seq <= y.seq
  <2>1. PICK q \in Q : \A y \in Q : q <= y
    <3> HIDE DEF Q
    <3> QED BY <1>1, LeastNat
  <2> QED BY <2>1
<1>3. ASSUME NEW n \in Nat, \A y \in S : y.seq <= n
      PROVE  \E x \in S : \A y \in S : x.seq >= y.seq
  <2>1. \A q \in Q : q <= n BY <1>3
  <2>2. PICK q \in Q : \A y \in Q : q >= y
    <3> HIDE DEF Q
    <3> QED BY <1>1, <2>1, GreatestNat
  <2> QED BY <2>2
<1>4. Nearest(S) \in S /\ \A y \in S : Nearest(S).seq <= y.seq BY <1>2 DEF Nearest
<1>5. ASSUME NEW n \in Nat, \A y \in S : y.seq <= n
      PROVE  Farthest(S) \in S /\ \A y \in S : Farthest(S).seq >= y.seq
  BY <1>3, <1>5 DEF Farthest
<1>6. \A y \in S : y.seq \in Nat BY DEF HeldPackets
<1>7. ASSUME NEW n \in Nat, \A y \in S : y.seq <= n
      PROVE  Farthest(S) \in S /\ \A y \in S : y.seq <= Farthest(S).seq
  <2>1. Farthest(S) \in S /\ \A y \in S : Farthest(S).seq >= y.seq BY <1>5, <1>7
  <2>2. Farthest(S).seq \in Nat BY <1>6, <2>1
  <2> QED BY <1>6, <2>1, <2>2
<1> QED BY <1>4, <1>7

\* The startup floor of a stream.
LEMMA FloorFields ==
  ASSUME NEW seq \in Nat, NEW block \in Nat
  PROVE  /\ Floor(seq, block) \in StreamStates
         /\ Floor(seq, block).cursor = seq /\ Floor(seq, block).maxSeq = seq
         /\ Floor(seq, block).maxBlock = block /\ Floor(seq, block).lastBlock = block
         /\ Floor(seq, block).firstClamp = 0
         /\ Floor(seq, block).held = {} /\ Floor(seq, block).gaps = {}
         /\ Floor(seq, block).blocks = {}
<1>1. [a \in Adapters |-> Unheard] \in [Adapters -> Int] BY DEF Unheard
<1> DEFINE hu == [a \in Adapters |-> Unheard]
<1>2. hu \in [Adapters -> Int] BY <1>1
<1>3. Floor(seq, block) =
        [cursor |-> seq, maxSeq |-> seq, maxBlock |-> block, lastBlock |-> block,
         firstClamp |-> 0, held |-> {}, blocks |-> {}, gaps |-> {},
         completed |-> {}, heardUpTo |-> hu, bestEffort |-> FALSE]
  BY DEF Floor, NoStorm
<1> HIDE DEF hu
<1>4. {} \in SUBSET HeldPackets /\ {} \in SUBSET BlockClocks /\ {} \in SUBSET GapNotes
      /\ {} \in SUBSET Nat /\ FALSE \in BOOLEAN /\ 0 \in Int
  OBVIOUS
<1>5. Floor(seq, block) \in StreamStates BY <1>2, <1>3, <1>4 DEF StreamStates
<1> QED BY <1>3, <1>5

\* The packet as the window holds it.
Copy(i) == [seq |-> SeqOf(i), id |-> i, at |-> now, early |-> FrameMode,
            block |-> Packets[i].block, eob |-> Packets[i].eob]

\* The first copy of a packet, before the gaps are noted.
Admitted(r, st, i, t, budget) ==
  /\ r \in StreamStates /\ r.cursor = st.cursor
  /\ r.maxSeq = Max({st.maxSeq, SeqOf(i)}) /\ r.maxBlock = Max({st.maxBlock, Packets[i].block})
  /\ \A g : g \in r.gaps <=> (g \in st.gaps /\ g.seq # SeqOf(i))
  /\ r.held = st.held \cup {Copy(i)}
  /\ r.blocks = NoteBlock(st, Packets[i].block, t, budget)
  /\ r.bestEffort = st.bestEffort /\ r.firstClamp = st.firstClamp

\* That is what Admit makes of a stream.
LEMMA AdmitFields ==
  ASSUME setup \in Setups, now \in Nat, NEW st \in StreamStates, NEW i \in Index, NEW t \in Int,
         NEW budget \in Budgets
  PROVE  Admitted(Admit(st, i, t, budget), st, i, t, budget)
<1> DEFINE g == {x \in st.gaps : x.seq # SeqOf(i)}
           m == Max({st.maxSeq, SeqOf(i)})
           mb == Max({st.maxBlock, Packets[i].block})
           b == NoteBlock(st, Packets[i].block, t, budget)
           p == [seq |-> SeqOf(i), id |-> i, at |-> now, early |-> FrameMode,
                 block |-> Packets[i].block, eob |-> Packets[i].eob]
           h == st.held \cup {p}
<1>1. /\ SeqOf(i) \in Nat /\ i \in Nat /\ Packets[i].block \in Nat /\ Packets[i].eob \in BOOLEAN
      /\ FrameMode \in BOOLEAN /\ budget \in Nat
  BY SetupFacts
<1>2. /\ st.maxSeq \in Nat /\ st.maxBlock \in Nat /\ st.held \in SUBSET HeldPackets
      /\ st.gaps \in SUBSET GapNotes /\ st.blocks \in SUBSET BlockClocks
  BY DEF StreamStates
<1>3. m \in Nat /\ mb \in Nat
  <2>1. st.maxSeq \in Int /\ SeqOf(i) \in Int /\ st.maxBlock \in Int /\ Packets[i].block \in Int
    BY <1>1, <1>2
  <2>2. m \in {st.maxSeq, SeqOf(i)} /\ mb \in {st.maxBlock, Packets[i].block} BY <2>1, MaxTwo
  <2> QED BY <1>1, <1>2, <2>2
<1>4. g \in SUBSET GapNotes BY <1>2
<1>5. p \in HeldPackets
  <2> DEFINE q == SeqOf(i)
             bl == Packets[i].block
             eo == Packets[i].eob
             fr == FrameMode
  <2>1. q \in Nat /\ bl \in Nat /\ eo \in BOOLEAN /\ fr \in BOOLEAN /\ i \in Nat /\ now \in Nat BY <1>1
  <2>2. p = [seq |-> q, id |-> i, at |-> now, early |-> fr, block |-> bl, eob |-> eo] OBVIOUS
  <2> HIDE DEF q, bl, eo, fr, p
  <2> QED BY <2>1, <2>2 DEF HeldPackets
<1>6. h \in SUBSET HeldPackets
  <2> HIDE DEF p
  <2> QED BY <1>2, <1>5
<1>7. b \in SUBSET BlockClocks
  <2> DEFINE bl == Packets[i].block
             first == IF \E x \in st.blocks : x.id = bl
                      THEN (CHOOSE x \in st.blocks : x.id = bl).first ELSE t
             clock == [id |-> bl, first |-> first, deadline |-> first + budget]
  <2>1. first \in Int
    <3>1. CASE \E x \in st.blocks : x.id = bl
      <4>1. (CHOOSE x \in st.blocks : x.id = bl) \in BlockClocks BY <1>2, <3>1
      <4>2. (CHOOSE x \in st.blocks : x.id = bl).first \in Int BY <4>1 DEF BlockClocks
      <4> QED BY <3>1, <4>2
    <3>2. CASE ~\E x \in st.blocks : x.id = bl BY <3>2
    <3> QED BY <3>1, <3>2
  <2>2. b = IF st.bestEffort THEN st.blocks ELSE {x \in st.blocks : x.id # bl} \cup {clock}
    BY DEF NoteBlock
  <2> HIDE DEF first, b
  <2>3. clock \in BlockClocks BY <1>1, <2>1 DEF BlockClocks
  <2> HIDE DEF clock, bl
  <2> QED BY <1>2, <2>2, <2>3
<1>8. Admit(st, i, t, budget) =
        [st EXCEPT !.gaps = g, !.maxSeq = m, !.maxBlock = mb, !.blocks = b, !.held = h]
  BY DEF Admit, Ratchet
<1> HIDE DEF g, m, mb, b, p, h
<1> DEFINE r == [st EXCEPT !.gaps = g, !.maxSeq = m, !.maxBlock = mb, !.blocks = b, !.held = h]
<1>9. r \in StreamStates
  BY <1>3, <1>4, <1>6, <1>7 DEF StreamStates
<1>10. /\ r.cursor = st.cursor /\ r.maxSeq = m /\ r.maxBlock = mb /\ r.gaps = g /\ r.held = h
       /\ r.blocks = b /\ r.bestEffort = st.bestEffort /\ r.firstClamp = st.firstClamp
  BY DEF StreamStates
<1>11. \A x : x \in g <=> (x \in st.gaps /\ x.seq # SeqOf(i)) BY DEF g
<1> QED BY <1>8, <1>9, <1>10, <1>11 DEF m, mb, b, p, h, Copy, Admitted

\* Everything of a stream but its gaps and what it heard.
SameWindow(r, st) ==
  /\ r.cursor = st.cursor /\ r.maxSeq = st.maxSeq /\ r.maxBlock = st.maxBlock
  /\ r.held = st.held /\ r.blocks = st.blocks /\ r.bestEffort = st.bestEffort
  /\ r.lastBlock = st.lastBlock

\* Hearing a packet on an adapter.
LEMMA HeardOnFields ==
  ASSUME setup \in Setups, NEW st \in StreamStates, NEW i \in Index, NEW a \in Adapters
  PROVE  LET r == HeardOn(st, a, i) IN
         /\ r \in StreamStates /\ SameWindow(r, st) /\ r.gaps = st.gaps
         /\ r.firstClamp = st.firstClamp
<1> DEFINE v == Max({st.heardUpTo[a], SeqOf(i)})
           hu == [st.heardUpTo EXCEPT ![a] = v]
<1>1. st.heardUpTo \in [Adapters -> Int] /\ SeqOf(i) \in Int BY SetupFacts DEF StreamStates
<1>2. st.heardUpTo[a] \in Int BY <1>1
<1>3. v \in Int
  <2>1. v \in {st.heardUpTo[a], SeqOf(i)} BY <1>1, <1>2, MaxTwo
  <2> QED BY <1>1, <1>2, <2>1
<1>4. HeardOn(st, a, i) = [st EXCEPT !.heardUpTo = hu]
  BY DEF HeardOn
<1> HIDE DEF v
<1>5. hu \in [Adapters -> Int] BY <1>1, <1>3
<1> HIDE DEF hu
<1>6. [st EXCEPT !.heardUpTo = hu] \in StreamStates BY <1>5 DEF StreamStates
<1>7. LET r == [st EXCEPT !.heardUpTo = hu] IN
        SameWindow(r, st) /\ r.gaps = st.gaps /\ r.firstClamp = st.firstClamp
  BY DEF StreamStates, SameWindow
<1> QED BY <1>4, <1>6, <1>7

\* Declaring the missing numbers.
LEMMA NoteGapsFields ==
  ASSUME setup \in Setups, NEW st \in StreamStates, NEW t \in Int,
         st.cursor <= st.maxSeq, st.maxSeq < StreamSeqSpace, st.maxSeq - st.cursor <= ClampPkts
  PROVE  LET r == NoteGaps(st, t) IN
         /\ r \in StreamStates /\ SameWindow(r, st) /\ r.firstClamp = st.firstClamp
         /\ \A g \in r.gaps :
              \/ g \in st.gaps
              \/ /\ g.since = t /\ g.seq \in st.cursor .. st.maxSeq - 1
                 /\ g.seq \notin Seqs(st.held) \cup Seqs(st.gaps)
         /\ st.gaps \subseteq r.gaps
         /\ st.cursor .. st.maxSeq - 1 \subseteq Seqs(st.held) \cup Seqs(r.gaps)
<1> DEFINE span == (st.maxSeq - st.cursor) % StreamSeqSpace
           holes == (st.cursor .. st.maxSeq - 1) \ (Seqs(st.held) \cup Seqs(st.gaps))
           fec(m) == \E b \in st.completed : GapOf(st, m, b)
           new == {NewGap(m, t, fec(m)) : m \in holes}
           gaps == st.gaps \cup new
<1>1. /\ st.cursor \in Nat /\ st.maxSeq \in Nat /\ ClampPkts \in Nat /\ StreamSeqSpace \in Nat
      /\ StreamSeqSpace > 0 /\ st.gaps \in SUBSET GapNotes
  BY SetupFacts DEF StreamStates
<1>2. span = st.maxSeq - st.cursor BY <1>1
<1>3. st.cursor + span - 1 = st.maxSeq - 1 BY <1>1, <1>2
<1>4. NoteGaps(st, t) = [st EXCEPT !.gaps = gaps]
  <2>1. ~(span > ClampPkts) BY <1>1, <1>2
  <2> QED BY <1>3, <2>1 DEF NoteGaps
<1>5. ASSUME NEW m \in holes
      PROVE  /\ NewGap(m, t, fec(m)) \in GapNotes /\ NewGap(m, t, fec(m)).seq = m
             /\ NewGap(m, t, fec(m)).since = t
  <2> DEFINE f == fec(m)
  <2>1. f \in BOOLEAN OBVIOUS
  <2>2. m \in Nat BY <1>1
  <2> HIDE DEF f, fec
  <2>3. NewGap(m, t, f) \in GapNotes /\ NewGap(m, t, f).seq = m /\ NewGap(m, t, f).since = t
    BY <2>1, <2>2 DEF NewGap, GapNotes
  <2> QED BY <2>3 DEF f
<1> HIDE DEF fec, span
<1>6. gaps \in SUBSET GapNotes BY <1>1, <1>5
<1>7. \A g \in gaps : g \in st.gaps \/ (g.since = t /\ g.seq \in holes) BY <1>5
<1>8. st.gaps \subseteq gaps OBVIOUS
<1>9. holes \subseteq Seqs(gaps)
  <2> SUFFICES ASSUME NEW m \in holes PROVE m \in Seqs(gaps) OBVIOUS
  <2>1. NewGap(m, t, fec(m)) \in gaps OBVIOUS
  <2> QED BY <1>5, <2>1 DEF Seqs
<1>10. Seqs(st.gaps) \subseteq Seqs(gaps) BY <1>8 DEF Seqs
<1>11. st.cursor .. st.maxSeq - 1 \subseteq Seqs(st.held) \cup Seqs(gaps) BY <1>9, <1>10
<1>12. \A g \in gaps :
         \/ g \in st.gaps
         \/ /\ g.since = t /\ g.seq \in st.cursor .. st.maxSeq - 1
            /\ g.seq \notin Seqs(st.held) \cup Seqs(st.gaps)
  BY <1>7
<1> HIDE DEF gaps
<1>13. [st EXCEPT !.gaps = gaps] \in StreamStates BY <1>6 DEF StreamStates
<1>14. LET r == [st EXCEPT !.gaps = gaps] IN
         SameWindow(r, st) /\ r.gaps = gaps /\ r.firstClamp = st.firstClamp
  BY DEF StreamStates, SameWindow
<1> QED BY <1>4, <1>8, <1>11, <1>12, <1>13, <1>14

\* The same gaps, whatever was found out about them.
SameGaps(r, st) ==
  /\ \A g \in r.gaps : \E x \in st.gaps : x.seq = g.seq /\ x.since = g.since
  /\ \A x \in st.gaps : \E g \in r.gaps : g.seq = x.seq

\* A block completed by repair.
LEMMA MarkCompleteFields ==
  ASSUME NEW st \in StreamStates, NEW b \in Nat
  PROVE  LET r == MarkComplete(st, b) IN
         /\ r \in StreamStates /\ SameWindow(r, st) /\ r.firstClamp = st.firstClamp
         /\ SameGaps(r, st)
<1> DEFINE co == Newest(st.completed \cup {b})
           new(g) == [g EXCEPT !.fec = @ \/ GapOf(st, g.seq, b)]
           gaps == {new(g) : g \in st.gaps}
<1>1. st.completed \in SUBSET Nat /\ st.gaps \in SUBSET GapNotes BY DEF StreamStates
<1>2. co \in SUBSET Nat BY <1>1 DEF Newest
<1>3. MarkComplete(st, b) = [st EXCEPT !.completed = co, !.gaps = gaps] BY DEF MarkComplete
<1>4. ASSUME NEW g \in st.gaps
      PROVE  new(g) \in GapNotes /\ new(g).seq = g.seq /\ new(g).since = g.since
  <2> DEFINE f == g.fec \/ GapOf(st, g.seq, b)
  <2>1. g \in GapNotes BY <1>1
  <2>2. f \in BOOLEAN OBVIOUS
  <2>3. new(g) = [g EXCEPT !.fec = f] OBVIOUS
  <2> HIDE DEF f, new
  <2>4. [g EXCEPT !.fec = f] \in GapNotes BY <2>1, <2>2 DEF GapNotes
  <2>5. [g EXCEPT !.fec = f].seq = g.seq /\ [g EXCEPT !.fec = f].since = g.since
    BY <2>1 DEF GapNotes
  <2> QED BY <2>3, <2>4, <2>5
<1> HIDE DEF co, new
<1>5. gaps \in SUBSET GapNotes BY <1>4
<1>6. /\ \A g \in gaps : \E x \in st.gaps : x.seq = g.seq /\ x.since = g.since
      /\ \A x \in st.gaps : \E g \in gaps : g.seq = x.seq
  BY <1>4
<1> HIDE DEF gaps
<1>7. [st EXCEPT !.completed = co, !.gaps = gaps] \in StreamStates BY <1>2, <1>5 DEF StreamStates
<1>8. LET r == [st EXCEPT !.completed = co, !.gaps = gaps] IN
        SameWindow(r, st) /\ r.gaps = gaps /\ r.firstClamp = st.firstClamp
  BY DEF StreamStates, SameWindow
<1> QED BY <1>3, <1>6, <1>7, <1>8 DEF SameGaps

\* What a pass over the gaps finds out.
LEMMA EvaluateFields ==
  ASSUME NEW st \in StreamStates, NEW rx, NEW t
  PROVE  LET r == EvaluateGaps(st, rx, t) IN
         /\ r \in StreamStates /\ SameWindow(r, st) /\ r.firstClamp = st.firstClamp
         /\ SameGaps(r, st)
         /\ \A g \in r.gaps : \/ g.fec
                              \/ /\ Superseded(st, g.seq) => g.superseded
                                 /\ Elapsed(t, g.since) >= DwellCeiling => g.lost
<1> DEFINE found(g) == [g EXCEPT !.superseded = @ \/ Superseded(st, g.seq),
                                 !.lost = @ \/ Declared(st, rx, g, t)]
           new(g) == IF g.fec THEN g ELSE found(g)
           gaps == {new(g) : g \in st.gaps}
<1>1. st.gaps \in SUBSET GapNotes BY DEF StreamStates
<1>2. EvaluateGaps(st, rx, t) = [st EXCEPT !.gaps = gaps] BY DEF EvaluateGaps
<1>3. ASSUME NEW g \in st.gaps
      PROVE  /\ new(g) \in GapNotes /\ new(g).seq = g.seq /\ new(g).since = g.since
             /\ \/ new(g).fec
                \/ /\ Superseded(st, g.seq) => new(g).superseded
                   /\ Elapsed(t, g.since) >= DwellCeiling => new(g).lost
  <2> DEFINE su == g.superseded \/ Superseded(st, g.seq)
             lo == g.lost \/ Declared(st, rx, g, t)
  <2>1. g \in GapNotes BY <1>1
  <2>2. su \in BOOLEAN /\ lo \in BOOLEAN OBVIOUS
  <2>3. found(g) = [g EXCEPT !.superseded = su, !.lost = lo] OBVIOUS
  <2>4. Superseded(st, g.seq) => su OBVIOUS
  <2>5. Elapsed(t, g.since) >= DwellCeiling => lo BY DEF Declared
  <2>6. new(g) = IF g.fec THEN g ELSE found(g) OBVIOUS
  <2> HIDE DEF su, lo, found, new
  <2>7. [g EXCEPT !.superseded = su, !.lost = lo] \in GapNotes BY <2>1, <2>2 DEF GapNotes
  <2>8. LET r == [g EXCEPT !.superseded = su, !.lost = lo] IN
          r.seq = g.seq /\ r.since = g.since
    BY <2>1 DEF GapNotes
  <2>9. LET r == [g EXCEPT !.superseded = su, !.lost = lo] IN
          (r.superseded <=> su) /\ (r.lost <=> lo)
    BY <2>1, <2>2 DEF GapNotes
  <2>10. CASE g.fec
    <3>1. new(g) = g BY <2>6, <2>10
    <3> QED BY <2>1, <2>10, <3>1
  <2>11. CASE ~g.fec
    <3>1. new(g) = [g EXCEPT !.superseded = su, !.lost = lo] BY <2>3, <2>6, <2>11
    <3> QED BY <2>4, <2>5, <2>7, <2>8, <2>9, <3>1
  <2> QED BY <2>10, <2>11
<1> HIDE DEF new
<1>4. gaps \in SUBSET GapNotes BY <1>3
<1>5. /\ \A g \in gaps : \E x \in st.gaps : x.seq = g.seq /\ x.since = g.since
      /\ \A x \in st.gaps : \E g \in gaps : g.seq = x.seq
  BY <1>3
<1>6. \A g \in gaps : \/ g.fec
                      \/ /\ Superseded(st, g.seq) => g.superseded
                         /\ Elapsed(t, g.since) >= DwellCeiling => g.lost
  <2> SUFFICES ASSUME NEW x \in st.gaps
               PROVE  \/ new(x).fec
                      \/ /\ Superseded(st, new(x).seq) => new(x).superseded
                         /\ Elapsed(t, new(x).since) >= DwellCeiling => new(x).lost
    OBVIOUS
  <2>1. new(x).seq = x.seq /\ new(x).since = x.since BY <1>3
  <2> QED BY <1>3, <2>1
<1> HIDE DEF gaps
<1>7. [st EXCEPT !.gaps = gaps] \in StreamStates BY <1>4 DEF StreamStates
<1>8. LET r == [st EXCEPT !.gaps = gaps] IN
        SameWindow(r, st) /\ r.gaps = gaps /\ r.firstClamp = st.firstClamp
  BY DEF StreamStates, SameWindow
<1> QED BY <1>2, <1>5, <1>6, <1>7, <1>8 DEF SameGaps

\* Where the cursor stops, and that it does.
LEMMA StopFacts ==
  ASSUME setup \in Setups, NEW st \in StreamStates, st.cursor < StreamSeqSpace, NEW t
  PROVE  LET c == CursorStop(st, t) IN
         /\ c \in st.cursor .. StreamSeqSpace
         /\ \/ c = StreamSeqSpace \/ c > st.maxSeq
            \/ c \notin Seqs(st.held) /\ ~Skipped(st, c, t)
         /\ \A d \in st.cursor .. c - 1 :
              d <= st.maxSeq /\ (d \in Seqs(st.held) \/ Skipped(st, d, t))
<1> DEFINE Stops(c) == \/ c = StreamSeqSpace \/ c > st.maxSeq
                       \/ c \notin Seqs(st.held) /\ ~Skipped(st, c, t)
           Passed(c) == \A d \in st.cursor .. c - 1 :
                          d <= st.maxSeq /\ (d \in Seqs(st.held) \/ Skipped(st, d, t))
           S == {c \in st.cursor .. StreamSeqSpace : Stops(c)}
<1>1. st.cursor \in Nat /\ st.maxSeq \in Nat /\ StreamSeqSpace \in Nat BY SetupFacts DEF StreamStates
<1>2. StreamSeqSpace \in S BY <1>1
<1>3. S \in SUBSET Nat /\ S # {} BY <1>1, <1>2
<1>4. PICK c \in S : \A d \in S : c <= d BY <1>3, LeastNat
<1>5. Passed(c)
  <2> SUFFICES ASSUME NEW d \in st.cursor .. c - 1
               PROVE  d <= st.maxSeq /\ (d \in Seqs(st.held) \/ Skipped(st, d, t))
    OBVIOUS
  <2>1. d \in st.cursor .. StreamSeqSpace /\ d < c BY <1>1, <1>4
  <2>2. d \notin S BY <1>3, <1>4, <2>1
  <2>3. ~Stops(d) BY <2>1, <2>2
  <2> QED BY <1>1, <2>1, <2>3
<1>6. c \in st.cursor .. StreamSeqSpace /\ Stops(c) /\ Passed(c) BY <1>4, <1>5
<1>7. CursorStop(st, t) = CHOOSE x \in st.cursor .. StreamSeqSpace : Stops(x) /\ Passed(x)
  BY DEF CursorStop
<1> HIDE DEF Stops, Passed
<1>8. LET x == CursorStop(st, t) IN
        x \in st.cursor .. StreamSeqSpace /\ Stops(x) /\ Passed(x)
  BY <1>6, <1>7
<1> QED BY <1>8 DEF Stops, Passed

\* The cursor runs: what it passes leaves the window, and nothing else does.
LEMMA AdvanceFields ==
  ASSUME setup \in Setups, NEW st \in StreamStates, st.cursor < StreamSeqSpace, NEW t
  PROVE  LET r == AdvanceCursor(st, t)
             stop == CursorStop(st, t)
         IN /\ r \in StreamStates /\ r.bestEffort = st.bestEffort
            /\ stop = StreamSeqSpace =>
                 /\ r.cursor = 0 /\ r.maxSeq = 0 /\ r.held = {} /\ r.gaps = {} /\ r.blocks = {}
                 /\ r.firstClamp = 0
            /\ stop # StreamSeqSpace =>
                 /\ r.cursor = stop /\ r.maxSeq = st.maxSeq /\ r.maxBlock = st.maxBlock
                 /\ r.held = {h \in st.held : h.seq \notin st.cursor .. stop - 1}
                 /\ r.gaps = {g \in st.gaps : g.seq >= stop}
                 /\ r.blocks \subseteq st.blocks
                 /\ \A b \in st.blocks \ r.blocks :
                      \E o \in st.held : o.seq \in st.cursor .. stop - 1 /\ b.id < o.block
                 /\ r.firstClamp = st.firstClamp
<1> DEFINE stop == CursorStop(st, t)
           out == {h \in st.held : h.seq \in st.cursor .. stop - 1}
           last == IF out = {} THEN st.lastBlock ELSE Farthest(out).block
           held == st.held \ out
           gaps == {g \in st.gaps : g.seq >= stop}
           blocks == {b \in st.blocks : out = {} \/ b.id >= last}
           nxt == [st EXCEPT !.cursor = stop, !.lastBlock = last, !.held = held, !.gaps = gaps,
                             !.blocks = blocks]
<1>1. stop \in st.cursor .. StreamSeqSpace BY StopFacts
<1>2. /\ st.cursor \in Nat /\ st.lastBlock \in Nat /\ StreamSeqSpace \in Nat
      /\ st.held \in SUBSET HeldPackets /\ st.gaps \in SUBSET GapNotes
      /\ st.blocks \in SUBSET BlockClocks
  BY SetupFacts DEF StreamStates
<1>3. stop \in Nat BY <1>1, <1>2
<1>4. out # {} => Farthest(out) \in out
  <2> SUFFICES ASSUME out # {} PROVE Farthest(out) \in out OBVIOUS
  <2>1. out \in SUBSET HeldPackets BY <1>2
  <2>2. \A y \in out : y.seq <= stop BY <1>2, <1>3 DEF HeldPackets
  <2> HIDE DEF out, stop
  <2> QED BY <1>3, <2>1, <2>2, Extremes
<1>5. last \in Nat
  <2>1. CASE out = {} BY <1>2, <2>1
  <2>2. CASE out # {}
    <3>1. Farthest(out) \in HeldPackets BY <1>2, <1>4, <2>2
    <3>2. Farthest(out).block \in Nat BY <3>1 DEF HeldPackets
    <3> QED BY <2>2, <3>2
  <2> QED BY <2>1, <2>2
<1>6. held \in SUBSET HeldPackets /\ gaps \in SUBSET GapNotes /\ blocks \in SUBSET BlockClocks
  BY <1>2
<1>7. AdvanceCursor(st, t) = IF stop = StreamSeqSpace THEN RefloorOnWrap(nxt) ELSE nxt
  BY DEF AdvanceCursor
<1>8. held = {h \in st.held : h.seq \notin st.cursor .. stop - 1} OBVIOUS
<1>9. /\ blocks \subseteq st.blocks
      /\ \A b \in st.blocks \ blocks :
           \E o \in st.held : o.seq \in st.cursor .. stop - 1 /\ b.id < o.block
  <2> SUFFICES ASSUME NEW b \in st.blocks \ blocks
               PROVE  \E o \in st.held : o.seq \in st.cursor .. stop - 1 /\ b.id < o.block
    OBVIOUS
  <2>1. out # {} /\ ~(b.id >= last) OBVIOUS
  <2>2. last = Farthest(out).block BY <2>1
  <2>3. Farthest(out) \in st.held /\ Farthest(out).seq \in st.cursor .. stop - 1 BY <1>4, <2>1
  <2>4. b.id \in Nat BY <1>2 DEF BlockClocks
  <2>5. b.id < last BY <1>5, <2>1, <2>4
  <2> QED BY <2>2, <2>3, <2>5
<1> HIDE DEF stop, out, last, held, gaps, blocks
<1>10. nxt \in StreamStates BY <1>3, <1>5, <1>6 DEF StreamStates
<1>11. /\ nxt.cursor = stop /\ nxt.maxSeq = st.maxSeq /\ nxt.maxBlock = st.maxBlock
       /\ nxt.held = held /\ nxt.gaps = gaps /\ nxt.blocks = blocks
       /\ nxt.firstClamp = st.firstClamp /\ nxt.lastBlock = last
  BY DEF StreamStates
<1>12. nxt.bestEffort = st.bestEffort BY DEF StreamStates
<1>13. CASE stop # StreamSeqSpace
  <2>1. AdvanceCursor(st, t) = nxt BY <1>7, <1>13
  <2> HIDE DEF nxt
  <2> QED BY <1>8, <1>9, <1>10, <1>11, <1>12, <1>13, <2>1 DEF stop, gaps
<1>14. CASE stop = StreamSeqSpace
  <2> DEFINE f == Floor(0, nxt.lastBlock)
             be == nxt.bestEffort
             r == [f EXCEPT !.bestEffort = be]
  <2>1. AdvanceCursor(st, t) = r BY <1>7, <1>14 DEF RefloorOnWrap
  <2>2. be \in BOOLEAN /\ nxt.lastBlock \in Nat BY <1>5, <1>10, <1>11 DEF StreamStates
  <2>3. /\ f \in StreamStates /\ f.cursor = 0 /\ f.maxSeq = 0 /\ f.held = {} /\ f.gaps = {}
        /\ f.blocks = {} /\ f.firstClamp = 0
    <3> DEFINE lb == nxt.lastBlock
               z == 0
    <3>1. lb \in Nat /\ f = Floor(z, lb) /\ z \in Nat BY <2>2
    <3> HIDE DEF lb, f, nxt, z
    <3>2. /\ f \in StreamStates /\ f.cursor = z /\ f.maxSeq = z /\ f.held = {} /\ f.gaps = {}
          /\ f.blocks = {} /\ f.firstClamp = 0
      BY <3>1, FloorFields
    <3> QED BY <3>2 DEF z
  <2>4. be = st.bestEffort BY <1>12
  <2> HIDE DEF f, be, nxt
  <2>5. r \in StreamStates BY <2>2, <2>3 DEF StreamStates
  <2>6. /\ r.cursor = 0 /\ r.maxSeq = 0 /\ r.held = {} /\ r.gaps = {} /\ r.blocks = {}
        /\ r.firstClamp = 0
    BY <2>3 DEF StreamStates
  <2>7. r.bestEffort = st.bestEffort BY <2>3, <2>4 DEF StreamStates
  <2> HIDE DEF r
  <2> QED BY <1>14, <2>1, <2>5, <2>6, <2>7 DEF stop
<1> QED BY <1>13, <1>14

\* The window without a hole: everything from the cursor to the highest number is
\* held or noted as a gap, nothing else is, and the window fits the clamp.
Window(st) ==
  /\ st.cursor < StreamSeqSpace /\ st.maxSeq < StreamSeqSpace /\ st.cursor <= st.maxSeq + 1
  /\ st.maxSeq - st.cursor <= ClampPkts
  /\ \A h \in st.held : st.cursor <= h.seq /\ h.seq <= st.maxSeq
  /\ \A g \in st.gaps : st.cursor <= g.seq /\ g.seq < st.maxSeq
  /\ \A h \in st.held, g \in st.gaps : h.seq # g.seq
  /\ \A m \in st.cursor .. st.maxSeq - 1 :
       (\E h \in st.held : h.seq = m) \/ (\E g \in st.gaps : g.seq = m)

\* The first copy of a packet in the window, up to the pass of the cursor.
Ingested(r, st, i, t, budget) ==
  /\ r \in StreamStates /\ Window(r) /\ r.cursor = st.cursor
  /\ r.maxSeq = Max({st.maxSeq, SeqOf(i)}) /\ r.maxBlock = Max({st.maxBlock, Packets[i].block})
  /\ r.held = st.held \cup {Copy(i)}
  /\ r.blocks = NoteBlock(st, Packets[i].block, t, budget)
  /\ r.bestEffort = st.bestEffort /\ r.firstClamp = st.firstClamp
  /\ \A g \in r.gaps :
       \/ \E x \in st.gaps : x.seq = g.seq /\ x.since = g.since
       \/ g.since = t /\ g.seq >= st.maxSeq

\* That is what Ingest makes of a stream the packet is new to.
LEMMA IngestFields ==
  ASSUME setup \in Setups, now \in Nat, NEW st \in StreamStates, Window(st), NEW rx,
         NEW a \in Adapters, NEW i \in Index, NEW t \in Int, NEW budget \in Budgets,
         NEW complete \in BOOLEAN, ~IsDuplicate(st, i), SeqOf(i) - st.cursor <= ClampPkts
  PROVE  Ingested(Ingest(st, rx, a, i, t, budget, complete), st, i, t, budget)
<1> DEFINE ad == Admit(st, i, t, budget)
           hd == HeardOn(ad, a, i)
           ng == NoteGaps(hd, t)
           mc == IF complete THEN MarkComplete(ng, Packets[i].block) ELSE ng
           r == EvaluateGaps(mc, rx, t)
           p == Copy(i)
           q == SeqOf(i)
<1>1. Ingest(st, rx, a, i, t, budget, complete) = r BY DEF Ingest
<1>2. /\ st.cursor \in Nat /\ st.maxSeq \in Nat /\ q \in Nat /\ q < StreamSeqSpace
      /\ StreamSeqSpace \in Nat /\ ClampPkts \in Nat /\ Packets[i].block \in Nat
      /\ st.held \in SUBSET HeldPackets /\ st.gaps \in SUBSET GapNotes
  <2>1. /\ q \in 0 .. StreamSeqSpace - 1 /\ StreamSeqSpace \in Nat /\ ClampPkts \in Nat
        /\ Packets[i].block \in Nat
    BY SetupFacts
  <2> HIDE DEF q
  <2>2. q \in Nat /\ q < StreamSeqSpace BY <2>1
  <2> QED BY <2>1, <2>2 DEF StreamStates
<1>3. q >= st.cursor /\ \A h \in st.held : h.seq # q
  BY <1>2 DEF IsDuplicate, Seqs
<1>4. /\ ad \in StreamStates /\ ad.cursor = st.cursor
      /\ ad.maxSeq = Max({st.maxSeq, q}) /\ ad.maxBlock = Max({st.maxBlock, Packets[i].block})
      /\ (\A g : g \in ad.gaps <=> (g \in st.gaps /\ g.seq # q)) /\ ad.held = st.held \cup {p}
      /\ ad.blocks = NoteBlock(st, Packets[i].block, t, budget)
      /\ ad.bestEffort = st.bestEffort /\ ad.firstClamp = st.firstClamp
  <2>1. Admitted(ad, st, i, t, budget) BY AdmitFields
  <2> HIDE DEF ad
  <2> QED BY <2>1 DEF Admitted
<1>5. p.seq = q BY DEF Copy
<1> HIDE DEF ad, p, q
<1>6. /\ hd \in StreamStates /\ SameWindow(hd, ad) /\ hd.gaps = ad.gaps
      /\ hd.firstClamp = ad.firstClamp
  BY <1>4, HeardOnFields
<1> HIDE DEF hd
<1> DEFINE m == Max({st.maxSeq, q})
<1>7. m \in {st.maxSeq, q} /\ m >= st.maxSeq /\ m >= q
  <2>1. st.maxSeq \in Int /\ q \in Int BY <1>2
  <2> QED BY <2>1, MaxTwo
<1> HIDE DEF m
<1>8. m \in Nat /\ st.cursor <= m /\ m < StreamSeqSpace /\ m - st.cursor <= ClampPkts
  <2>1. st.maxSeq < StreamSeqSpace /\ st.maxSeq - st.cursor <= ClampPkts BY DEF Window
  <2>2. q - st.cursor <= ClampPkts BY DEF q
  <2>3. CASE m = st.maxSeq BY <1>2, <1>3, <1>7, <2>1, <2>3
  <2>4. CASE m = q BY <1>2, <1>3, <1>7, <2>2, <2>4
  <2> QED BY <1>7, <2>3, <2>4
<1>9. hd.maxSeq = m /\ hd.cursor = st.cursor BY <1>4, <1>6 DEF SameWindow, m
<1>10. /\ ng \in StreamStates /\ SameWindow(ng, hd) /\ ng.firstClamp = hd.firstClamp
       /\ \A g \in ng.gaps :
            \/ g \in hd.gaps
            \/ /\ g.since = t /\ g.seq \in hd.cursor .. hd.maxSeq - 1
               /\ g.seq \notin Seqs(hd.held) \cup Seqs(hd.gaps)
       /\ hd.gaps \subseteq ng.gaps
       /\ hd.cursor .. hd.maxSeq - 1 \subseteq Seqs(hd.held) \cup Seqs(ng.gaps)
  <2>1. hd.cursor <= hd.maxSeq /\ hd.maxSeq < StreamSeqSpace /\ hd.maxSeq - hd.cursor <= ClampPkts
    BY <1>8, <1>9
  <2> QED BY <1>6, <2>1, NoteGapsFields
<1> HIDE DEF ng
<1>11. /\ mc \in StreamStates /\ SameWindow(mc, ng) /\ mc.firstClamp = ng.firstClamp
       /\ SameGaps(mc, ng)
  <2>1. CASE complete
    <3>1. mc = MarkComplete(ng, Packets[i].block) BY <2>1
    <3> QED BY <1>2, <1>10, <3>1, MarkCompleteFields
  <2>2. CASE ~complete
    <3>1. mc = ng BY <2>2
    <3> QED BY <1>10, <3>1 DEF SameWindow, SameGaps
  <2> QED BY <2>1, <2>2
<1> HIDE DEF mc
<1>12. /\ r \in StreamStates /\ SameWindow(r, mc) /\ r.firstClamp = mc.firstClamp
       /\ SameGaps(r, mc)
  BY <1>11, EvaluateFields
<1> HIDE DEF r
<1>13. /\ r.cursor = st.cursor /\ r.maxSeq = m /\ r.maxBlock = Max({st.maxBlock, Packets[i].block})
       /\ r.held = st.held \cup {p} /\ r.blocks = NoteBlock(st, Packets[i].block, t, budget)
       /\ r.bestEffort = st.bestEffort /\ r.firstClamp = st.firstClamp
  BY <1>4, <1>6, <1>10, <1>11, <1>12 DEF SameWindow, m
<1>14. /\ \A g \in r.gaps : \E x \in ng.gaps : x.seq = g.seq /\ x.since = g.since
       /\ \A x \in ng.gaps : \E g \in r.gaps : g.seq = x.seq
  <2>1. /\ \A g \in r.gaps : \E x \in mc.gaps : x.seq = g.seq /\ x.since = g.since
        /\ \A x \in mc.gaps : \E g \in r.gaps : g.seq = x.seq
    BY <1>12 DEF SameGaps
  <2>2. /\ \A g \in mc.gaps : \E x \in ng.gaps : x.seq = g.seq /\ x.since = g.since
        /\ \A x \in ng.gaps : \E g \in mc.gaps : g.seq = x.seq
    BY <1>11 DEF SameGaps
  <2> QED BY <2>1, <2>2
<1>15. hd.held = st.held \cup {p} /\ \A g : g \in hd.gaps <=> (g \in st.gaps /\ g.seq # q)
  BY <1>4, <1>6 DEF SameWindow
<1>16. \A x \in ng.gaps :
         \/ x \in st.gaps /\ x.seq # q
         \/ /\ x.since = t /\ x.seq \in st.cursor .. m - 1 /\ x.seq # q
            /\ \A h \in st.held : h.seq # x.seq
            /\ \A y \in st.gaps : y.seq # x.seq
  <2> SUFFICES ASSUME NEW x \in ng.gaps, ~(x \in st.gaps /\ x.seq # q)
               PROVE  /\ x.since = t /\ x.seq \in st.cursor .. m - 1 /\ x.seq # q
                      /\ \A h \in st.held : h.seq # x.seq
                      /\ \A y \in st.gaps : y.seq # x.seq
    OBVIOUS
  <2>1. /\ x.since = t /\ x.seq \in st.cursor .. m - 1
        /\ x.seq \notin Seqs(hd.held) /\ x.seq \notin Seqs(hd.gaps)
    BY <1>9, <1>10, <1>15
  <2>2. p \in hd.held /\ st.held \subseteq hd.held BY <1>15
  <2>3. x.seq # q /\ \A h \in st.held : h.seq # x.seq BY <1>5, <2>1, <2>2 DEF Seqs
  <2>4. \A y \in st.gaps : y.seq # x.seq BY <1>15, <2>1, <2>3 DEF Seqs
  <2> QED BY <2>1, <2>3, <2>4
<1>17. \A x \in ng.gaps : x \in st.gaps \/ (x.since = t /\ x.seq >= st.maxSeq)
  <2> SUFFICES ASSUME NEW x \in ng.gaps, x \notin st.gaps
               PROVE  x.since = t /\ x.seq >= st.maxSeq
    OBVIOUS
  <2>1. /\ x.since = t /\ x.seq \in st.cursor .. m - 1
        /\ \A h \in st.held : h.seq # x.seq /\ \A y \in st.gaps : y.seq # x.seq
    BY <1>16
  <2>1a. \A y \in st.gaps : y.seq # x.seq BY <1>16
  <2>2. x.seq \notin st.cursor .. st.maxSeq - 1 BY <2>1, <2>1a DEF Window
  <2>3. x.seq \in Int /\ x.seq >= st.cursor BY <1>2, <1>8, <2>1
  <2> QED BY <1>2, <2>1, <2>2, <2>3
<1>18. Window(r)
  <2>1. \A h \in st.held : st.cursor <= h.seq /\ h.seq <= m
    <3>1. \A h \in st.held : h.seq \in Nat BY <1>2 DEF HeldPackets
    <3>2. \A h \in st.held : st.cursor <= h.seq /\ h.seq <= st.maxSeq BY DEF Window
    <3> QED BY <1>2, <1>7, <1>8, <3>1, <3>2
  <2>2. \A h \in r.held : r.cursor <= h.seq /\ h.seq <= r.maxSeq
    BY <1>3, <1>5, <1>7, <1>13, <2>1
  <2>3. \A x \in ng.gaps : st.cursor <= x.seq /\ x.seq < m
    <3>1. \A x \in st.gaps : x.seq \in Nat BY <1>2 DEF GapNotes
    <3>2. \A x \in st.gaps : st.cursor <= x.seq /\ x.seq < st.maxSeq BY DEF Window
    <3> TAKE x \in ng.gaps
    <3>3. CASE x \in st.gaps
      <4>1. x.seq \in Nat /\ st.cursor <= x.seq /\ x.seq < st.maxSeq BY <3>1, <3>2, <3>3
      <4> QED BY <1>2, <1>7, <1>8, <4>1
    <3>4. CASE x.seq \in st.cursor .. m - 1 BY <1>2, <1>8, <3>4
    <3> QED BY <1>16, <3>3, <3>4
  <2>4. \A g \in r.gaps : r.cursor <= g.seq /\ g.seq < r.maxSeq BY <1>13, <1>14, <2>3
  <2>5. \A h \in st.held, x \in ng.gaps : h.seq # x.seq
    <3>1. \A h \in st.held, x \in st.gaps : h.seq # x.seq BY DEF Window
    <3> QED BY <1>16, <3>1
  <2>6. \A x \in ng.gaps : x.seq # q BY <1>16
  <2>7. \A h \in r.held, g \in r.gaps : h.seq # g.seq BY <1>5, <1>13, <1>14, <2>5, <2>6
  <2>8. ASSUME NEW k \in r.cursor .. r.maxSeq - 1
        PROVE  (\E h \in r.held : h.seq = k) \/ (\E g \in r.gaps : g.seq = k)
    <3>1. k \in Seqs(hd.held) \cup Seqs(ng.gaps) BY <1>9, <1>10, <1>13
    <3>2. (\E h \in hd.held : h.seq = k) \/ (\E x \in ng.gaps : x.seq = k) BY <3>1 DEF Seqs
    <3> QED BY <1>13, <1>14, <1>15, <3>2
  <2>9. r.cursor < StreamSeqSpace /\ r.cursor <= r.maxSeq + 1
    BY <1>2, <1>8, <1>13
  <2> QED BY <1>8, <1>13, <2>2, <2>4, <2>7, <2>8, <2>9 DEF Window
<1>19. \A g \in r.gaps :
         \/ \E x \in st.gaps : x.seq = g.seq /\ x.since = g.since
         \/ g.since = t /\ g.seq >= st.maxSeq
  BY <1>14, <1>17
<1> QED BY <1>1, <1>12, <1>13, <1>18, <1>19 DEF m, p, q, Ingested

\* The pass of the cursor leaves the window without a hole.
LEMMA AdvanceKeepsWindow ==
  ASSUME setup \in Setups, NEW st \in StreamStates, Window(st), NEW t
  PROVE  Window(AdvanceCursor(st, t)) /\ CursorStop(st, t) <= st.maxSeq + 1
<1> DEFINE r == AdvanceCursor(st, t)
           stop == CursorStop(st, t)
<1>1. /\ st.cursor \in Nat /\ st.maxSeq \in Nat /\ StreamSeqSpace \in Nat /\ StreamSeqSpace > 0
      /\ ClampPkts \in Nat
      /\ st.held \in SUBSET HeldPackets /\ st.gaps \in SUBSET GapNotes
  BY SetupFacts DEF StreamStates
<1>2. /\ st.cursor < StreamSeqSpace /\ st.maxSeq < StreamSeqSpace /\ st.cursor <= st.maxSeq + 1
      /\ st.maxSeq - st.cursor <= ClampPkts
      /\ \A h \in st.held : st.cursor <= h.seq /\ h.seq <= st.maxSeq
      /\ \A g \in st.gaps : st.cursor <= g.seq /\ g.seq < st.maxSeq
      /\ \A h \in st.held, g \in st.gaps : h.seq # g.seq
      /\ \A m \in st.cursor .. st.maxSeq - 1 :
           (\E h \in st.held : h.seq = m) \/ (\E g \in st.gaps : g.seq = m)
  BY DEF Window
<1>3. stop \in st.cursor .. StreamSeqSpace /\ \A d \in st.cursor .. stop - 1 : d <= st.maxSeq
  BY <1>2, StopFacts
<1>4. /\ stop = StreamSeqSpace =>
           r.cursor = 0 /\ r.maxSeq = 0 /\ r.held = {} /\ r.gaps = {}
      /\ stop # StreamSeqSpace =>
           /\ r.cursor = stop /\ r.maxSeq = st.maxSeq
           /\ r.held = {h \in st.held : h.seq \notin st.cursor .. stop - 1}
           /\ r.gaps = {g \in st.gaps : g.seq >= stop}
  BY <1>2, AdvanceFields
<1> HIDE DEF r, stop
<1>5. stop <= st.maxSeq + 1
  <2>1. CASE stop = st.cursor BY <1>1, <1>2, <2>1
  <2>2. CASE stop # st.cursor
    <3>1. stop - 1 \in st.cursor .. stop - 1 BY <1>1, <1>3, <2>2
    <3>2. stop - 1 <= st.maxSeq BY <1>3, <3>1
    <3> QED BY <1>1, <1>3, <3>2
  <2> QED BY <2>1, <2>2
<1>6. CASE stop = StreamSeqSpace
  <2>1. r.cursor = 0 /\ r.maxSeq = 0 /\ r.held = {} /\ r.gaps = {} BY <1>4, <1>6
  <2> QED BY <1>1, <1>5, <2>1 DEF Window, r, stop
<1>7. CASE stop # StreamSeqSpace
  <2>1. /\ r.cursor = stop /\ r.maxSeq = st.maxSeq
        /\ r.held = {h \in st.held : h.seq \notin st.cursor .. stop - 1}
        /\ r.gaps = {g \in st.gaps : g.seq >= stop}
    BY <1>4, <1>7
  <2>2. stop \in Nat /\ stop < StreamSeqSpace /\ st.cursor <= stop BY <1>1, <1>3, <1>7
  <2>3. \A h \in r.held : r.cursor <= h.seq /\ h.seq <= r.maxSeq
    <3> TAKE h \in r.held
    <3>1. h \in st.held /\ h.seq \notin st.cursor .. stop - 1 BY <2>1
    <3>2. h.seq \in Nat /\ st.cursor <= h.seq /\ h.seq <= st.maxSeq
      BY <1>1, <1>2, <3>1 DEF HeldPackets
    <3> QED BY <1>1, <2>1, <2>2, <3>1, <3>2
  <2>4. \A g \in r.gaps : r.cursor <= g.seq /\ g.seq < r.maxSeq
    <3>1. \A g \in st.gaps : g.seq \in Nat BY <1>1 DEF GapNotes
    <3> QED BY <1>2, <2>1, <2>2, <3>1
  <2>5. \A h \in r.held, g \in r.gaps : h.seq # g.seq BY <1>2, <2>1
  <2>6. \A m \in r.cursor .. r.maxSeq - 1 :
          (\E h \in r.held : h.seq = m) \/ (\E g \in r.gaps : g.seq = m)
    <3> TAKE m \in r.cursor .. r.maxSeq - 1
    <3>1. m \in st.cursor .. st.maxSeq - 1 /\ m >= stop /\ m \notin st.cursor .. stop - 1
      BY <1>1, <2>1, <2>2
    <3>2. (\E h \in st.held : h.seq = m) \/ (\E g \in st.gaps : g.seq = m) BY <1>2, <3>1
    <3> QED BY <2>1, <3>1, <3>2
  <2>7. /\ r.cursor < StreamSeqSpace /\ r.maxSeq < StreamSeqSpace /\ r.cursor <= r.maxSeq + 1
        /\ r.maxSeq - r.cursor <= ClampPkts
    BY <1>1, <1>2, <1>5, <2>1, <2>2
  <2> QED BY <1>5, <2>3, <2>4, <2>5, <2>6, <2>7 DEF Window, r, stop
<1> QED BY <1>6, <1>7

\* The stream a packet meets: the one there is, or a fresh floor at it.
BaseOf(b, i) ==
  /\ b \in StreamStates /\ Window(b) /\ b.firstClamp = 0
  /\ InClamp(i) => /\ b.cursor = s.cursor /\ b.maxSeq = s.maxSeq /\ b.maxBlock = s.maxBlock
                   /\ b.held = s.held /\ b.gaps = s.gaps /\ b.blocks = s.blocks
  /\ ~InClamp(i) => /\ b.cursor = SeqOf(i) /\ b.maxSeq = SeqOf(i)
                    /\ b.maxBlock = Packets[i].block
                    /\ b.held = {} /\ b.gaps = {} /\ b.blocks = {} /\ ~IsDuplicate(b, i)
  /\ ~b.bestEffort => ~s.bestEffort
  /\ ~IsDuplicate(b, i) => SeqOf(i) - b.cursor <= ClampPkts

\* A fresh floor is a window without a hole.
LEMMA FloorWindow ==
  ASSUME setup \in Setups, NEW i \in Index, NEW f \in StreamStates,
         f.cursor = SeqOf(i), f.maxSeq = SeqOf(i), f.held = {}, f.gaps = {}
  PROVE  /\ Window(f) /\ ~IsDuplicate(f, i) /\ SeqOf(i) - f.cursor <= ClampPkts
<1> DEFINE q == SeqOf(i)
<1>1. q \in 0 .. StreamSeqSpace - 1 /\ ClampPkts \in Nat /\ StreamSeqSpace \in Nat BY SetupFacts
<1>2. f.cursor = q /\ f.maxSeq = q OBVIOUS
<1> HIDE DEF q
<1>3. Window(f) BY <1>1, <1>2 DEF Window
<1>4. ~(q < f.cursor) /\ q - f.cursor <= ClampPkts BY <1>1, <1>2
<1>5. q \notin Seqs(f.held) BY DEF Seqs
<1> QED BY <1>3, <1>4, <1>5 DEF q, IsDuplicate

\* That is what Base makes of the stream.
LEMMA BaseFields ==
  ASSUME setup \in Setups, s \in StreamStates, Window(s), NEW i \in Index, NEW bad \in BOOLEAN
  PROVE  BaseOf(Base(i, bad), i)
<1> DEFINE be == s.bestEffort \/ bad
           q == SeqOf(i)
           bl == Packets[i].block
           f == IF InClamp(i) THEN s ELSE Floor(q, bl)
           b == [f EXCEPT !.firstClamp = 0, !.bestEffort = be]
<1>1. Base(i, bad) = b BY DEF Base, NoStorm
<1>2. q \in Nat /\ bl \in Nat /\ ClampPkts \in Nat BY SetupFacts
<1>3. ~be => ~s.bestEffort OBVIOUS
<1>b. be \in BOOLEAN OBVIOUS
<1> HIDE DEF be, b
<1>4. CASE InClamp(i)
  <2>1. b = [s EXCEPT !.firstClamp = 0, !.bestEffort = be] BY <1>4 DEF b
  <2>2. b \in StreamStates
    <3> DEFINE z == 0
    <3>1. z \in Int /\ b = [s EXCEPT !.firstClamp = z, !.bestEffort = be] BY <2>1
    <3> HIDE DEF z
    <3> QED BY <1>b, <3>1 DEF StreamStates
  <2>3. /\ b.cursor = s.cursor /\ b.maxSeq = s.maxSeq /\ b.maxBlock = s.maxBlock
        /\ b.held = s.held /\ b.gaps = s.gaps /\ b.blocks = s.blocks /\ b.firstClamp = 0
    BY <2>1 DEF StreamStates
  <2>4. ~b.bestEffort => ~s.bestEffort
    <3>1. b.bestEffort = be BY <2>1 DEF StreamStates
    <3> QED BY <1>3, <3>1
  <2>5. Window(b) BY <2>3 DEF Window
  <2>6. ~IsDuplicate(b, i) => q - b.cursor <= ClampPkts
    <3> SUFFICES ASSUME ~IsDuplicate(b, i) PROVE q - b.cursor <= ClampPkts OBVIOUS
    <3>1. ~(q < b.cursor) BY DEF IsDuplicate
    <3>2. q <= s.cursor \/ q - s.cursor <= ClampPkts BY <1>4 DEF InClamp, Plausible
    <3>3. s.cursor \in Nat BY DEF StreamStates
    <3> HIDE DEF q
    <3> QED BY <1>2, <2>3, <3>1, <3>2, <3>3
  <2> QED BY <1>1, <1>4, <2>2, <2>3, <2>4, <2>5, <2>6 DEF BaseOf
<1>5. CASE ~InClamp(i)
  <2> DEFINE g == Floor(q, bl)
  <2>0. b = [g EXCEPT !.firstClamp = 0, !.bestEffort = be] BY <1>5 DEF b
  <2>1. /\ g \in StreamStates /\ g.cursor = q /\ g.maxSeq = q /\ g.maxBlock = bl
        /\ g.held = {} /\ g.gaps = {} /\ g.blocks = {}
    <3> HIDE DEF q, bl
    <3> QED BY <1>2, FloorFields
  <2> HIDE DEF g
  <2>2. b \in StreamStates
    <3> DEFINE z == 0
    <3>1. z \in Int /\ b = [g EXCEPT !.firstClamp = z, !.bestEffort = be] BY <2>0
    <3> HIDE DEF z
    <3> QED BY <1>b, <2>1, <3>1 DEF StreamStates
  <2>3. /\ b.cursor = g.cursor /\ b.maxSeq = g.maxSeq /\ b.maxBlock = g.maxBlock
        /\ b.held = g.held /\ b.gaps = g.gaps /\ b.blocks = g.blocks /\ b.firstClamp = 0
    BY <2>0, <2>1 DEF StreamStates
  <2>4. ~b.bestEffort => ~s.bestEffort
    <3>1. b.bestEffort = be BY <2>0, <2>1 DEF StreamStates
    <3> QED BY <1>3, <3>1
  <2>5. Window(b) /\ ~IsDuplicate(b, i) /\ q - b.cursor <= ClampPkts
    BY <2>1, <2>2, <2>3, FloorWindow
  <2> QED BY <1>1, <1>5, <2>1, <2>2, <2>3, <2>4, <2>5 DEF BaseOf
<1> QED BY <1>4, <1>5

\* The invariant of the window alone.
StreamInv == setup \in Setups /\ now \in Nat /\ s \in StreamStates /\ Window(s)

\* The first packet's window.
LEMMA FirstWindow ==
  ASSUME StreamInit
  PROVE  \E st, a, bad, budget :
           /\ setup \in Setups /\ now \in Nat /\ budget \in Budgets
           /\ \E b \in StreamStates :
                /\ Window(b) /\ Ingested(st, b, 1, now, budget) /\ b.cursor = SeqOf(1)
                /\ b.maxSeq = SeqOf(1) /\ b.maxBlock = Packets[1].block /\ b.firstClamp = 0
                /\ b.held = {} /\ b.gaps = {} /\ b.blocks = {}
           /\ s = AdvanceCursor(st, now)
<1>1. setup \in Setups /\ now = Packets[1].at BY DEF StreamInit
<1>2. /\ Packets[1].at \in Nat /\ Packets[1].block \in Nat /\ 1 \in Index /\ SeqOf(1) = FirstSeq
      /\ Mismatch \subseteq BOOLEAN /\ SeqOf(1) \in 0 .. StreamSeqSpace - 1
  BY <1>1, SetupFacts
<1>3. now \in Nat /\ now \in Int BY <1>1, <1>2
<1>4. PICK a \in Adapters, bad \in Mismatch, budget \in Budgets :
        s = AdvanceCursor(
              Ingest([Floor(FirstSeq, Packets[1].block) EXCEPT !.bestEffort = bad],
                     lastRx, a, 1, now, budget, FALSE), now)
  BY DEF StreamInit
<1> DEFINE q == SeqOf(1)
           bl == Packets[1].block
           f == Floor(q, bl)
           b == [f EXCEPT !.bestEffort = bad]
           st == Ingest(b, lastRx, a, 1, now, budget, FALSE)
<1>5. /\ f \in StreamStates /\ f.cursor = q /\ f.maxSeq = q /\ f.maxBlock = bl
      /\ f.held = {} /\ f.gaps = {} /\ f.blocks = {} /\ f.firstClamp = 0
  <2>1. q \in Nat /\ bl \in Nat BY <1>2
  <2> HIDE DEF q, bl
  <2> QED BY <2>1, FloorFields
<1>6. s = AdvanceCursor(st, now) BY <1>2, <1>4
<1> HIDE DEF f
<1>7. b \in StreamStates
  <2>1. bad \in BOOLEAN BY <1>2, <1>4
  <2> QED BY <1>5, <2>1 DEF StreamStates
<1>8. /\ b.cursor = q /\ b.maxSeq = q /\ b.maxBlock = bl /\ b.firstClamp = 0
      /\ b.held = {} /\ b.gaps = {} /\ b.blocks = {}
  BY <1>5 DEF StreamStates
<1> HIDE DEF b
<1>9. Window(b) /\ ~IsDuplicate(b, 1) /\ SeqOf(1) - b.cursor <= ClampPkts
  BY <1>1, <1>2, <1>7, <1>8, FloorWindow
<1>10. Ingested(st, b, 1, now, budget)
  <2>1. FALSE \in BOOLEAN /\ budget \in Budgets /\ a \in Adapters BY <1>4
  <2> QED BY <1>1, <1>2, <1>3, <1>7, <1>9, <2>1, IngestFields
<1> HIDE DEF st
<1> QED BY <1>1, <1>3, <1>4, <1>6, <1>7, <1>8, <1>9, <1>10

\* What a step makes of the stream: a packet heard out of the clamp, a copy, a first
\* copy, a pass over the gaps, or nothing.
LEMMA StreamSteps ==
  ASSUME StreamInv, StreamNext
  PROVE  /\ setup' = setup /\ now' \in Nat
         /\ \/ \E i \in Index, t \in Stamps, bad \in Mismatch : Rejected(i, t, bad)
            \/ \E a \in Adapters, i \in Index, t \in Stamps, bad \in Mismatch : Duplicate(a, i, t, bad)
            \/ \E a \in Adapters, i \in Index, t \in Stamps, bad \in Mismatch, budget \in Budgets,
                  complete \in BOOLEAN : FirstCopy(a, i, t, budget, bad, complete)
            \/ \E b \in Nat, t \in Stamps :
                 Settle(EvaluateGaps(MarkComplete(s, b), lastRx, t), t, {})
            \/ \E t \in Stamps : Settle(EvaluateGaps(s, lastRx, t), t, {})
            \/ UNCHANGED <<s, got, lastOut, lastPass>>
<1>1. setup \in Setups /\ now \in Nat BY DEF StreamInv
<1>2. CASE \E t \in Stamps, a \in Adapters, i \in Index : OnData(a, i, t)
  <2> PICK t \in Stamps, a \in Adapters, i \in Index : OnData(a, i, t) BY <1>2
  <2>1. setup' = setup /\ now' = now BY DEF OnData
  <2> QED BY <1>1, <2>1 DEF OnData
<1>3. CASE \E t \in Stamps, b \in {Packets[i].block : i \in Index} : CompleteFrame(b, t)
  <2> PICK t \in Stamps, b \in {Packets[i].block : i \in Index} : CompleteFrame(b, t) BY <1>3
  <2>1. setup' = setup /\ now' = now /\ Settle(EvaluateGaps(MarkComplete(s, b), lastRx, t), t, {})
    BY DEF CompleteFrame
  <2>2. b \in Nat BY <1>1, SetupFacts
  <2> QED BY <1>1, <2>1, <2>2
<1>4. CASE \E t \in Stamps : Tick(t)
  <2> PICK t \in Stamps : Tick(t) BY <1>4
  <2>1. setup' = setup /\ now' = now /\ Settle(EvaluateGaps(s, lastRx, t), t, {})
    BY DEF Tick
  <2> QED BY <1>1, <2>1
<1>5. CASE Advance
  <2>1. setup' = setup /\ now' = now + 1 /\ UNCHANGED <<s, got, lastOut, lastPass>>
    BY <1>5 DEF Advance
  <2> QED BY <1>1, <2>1
<1> QED BY <1>2, <1>3, <1>4, <1>5 DEF StreamNext

\* A pass over the gaps leaves the window as it was.
LEMMA SameKeepsWindow ==
  ASSUME NEW st \in StreamStates, NEW r \in StreamStates, Window(st), SameWindow(r, st), SameGaps(r, st)
  PROVE  Window(r)
BY DEF Window, SameWindow, SameGaps

\* Everything the cursor still has to pass is held or is a gap, never both, and the
\* window never exceeds the clamp (RxStream!WindowExact), on every traffic, air, policy
\* and number space, across resyncs and wraps: what rx.cpp note_gaps, ingest and
\* advance_cursor keep between them.
THEOREM WindowAlwaysExact == StreamSpec => []WindowExact
<1>1. StreamInit => StreamInv
  <2> SUFFICES ASSUME StreamInit PROVE StreamInv OBVIOUS
  <2>1. PICK st, a, bad, budget :
           /\ setup \in Setups /\ now \in Nat
           /\ \E b \in StreamStates : Ingested(st, b, 1, now, budget)
           /\ s = AdvanceCursor(st, now)
    BY FirstWindow
  <2>2. st \in StreamStates /\ Window(st) BY <2>1 DEF Ingested
  <2>3. st.cursor < StreamSeqSpace BY <2>2 DEF Window
  <2>4. s \in StreamStates BY <2>1, <2>2, <2>3, AdvanceFields
  <2>5. Window(s) BY <2>1, <2>2, AdvanceKeepsWindow
  <2> QED BY <2>1, <2>4, <2>5 DEF StreamInv
<1>2. StreamInv /\ [StreamNext]_streamVars => StreamInv'
  <2> SUFFICES ASSUME StreamInv, [StreamNext]_streamVars PROVE StreamInv' OBVIOUS
  <2>0. setup \in Setups /\ now \in Nat /\ s \in StreamStates /\ Window(s) BY DEF StreamInv
  <2>a. ASSUME NEW st \in StreamStates, Window(st), NEW t, NEW e, Settle(st, t, e)
        PROVE  s' \in StreamStates /\ Window(s')
    <3>1. s' = AdvanceCursor(st, t) BY <2>a DEF Settle
    <3>2. st.cursor < StreamSeqSpace BY <2>a DEF Window
    <3>3. s' \in StreamStates BY <2>0, <3>1, <3>2, AdvanceFields
    <3> QED BY <2>0, <2>a, <3>1, <3>3, AdvanceKeepsWindow
  <2>1. CASE StreamNext
    <3>1. setup' = setup /\ now' \in Nat BY <2>1, StreamSteps
    <3>t. \A t \in Stamps : t \in Int BY <2>0, SetupFacts DEF Stamps
    <3>m. Mismatch \subseteq BOOLEAN BY <2>0, SetupFacts
    <3>2. ASSUME NEW i \in Index, NEW t \in Stamps, NEW bad \in Mismatch, Rejected(i, t, bad)
          PROVE  s' \in StreamStates /\ Window(s')
      <4> DEFINE fc == IF s.firstClamp = NoStorm THEN t ELSE s.firstClamp
                 be == s.bestEffort \/ bad
      <4>1. s' = [s EXCEPT !.firstClamp = fc, !.bestEffort = be] BY <3>2 DEF Rejected
      <4>2. fc \in Int BY <2>0, <3>t DEF StreamStates
      <4>3. be \in BOOLEAN OBVIOUS
      <4> HIDE DEF fc, be
      <4>4. s' \in StreamStates BY <2>0, <4>1, <4>2, <4>3 DEF StreamStates
      <4>5. /\ s'.cursor = s.cursor /\ s'.maxSeq = s.maxSeq /\ s'.held = s.held
            /\ s'.gaps = s.gaps
        BY <2>0, <4>1 DEF StreamStates
      <4> QED BY <2>0, <4>4, <4>5 DEF Window
    <3>3. ASSUME NEW a \in Adapters, NEW i \in Index, NEW t \in Stamps, NEW bad \in Mismatch,
                 Duplicate(a, i, t, bad)
          PROVE  s' \in StreamStates /\ Window(s')
      <4> DEFINE b == Base(i, bad)
      <4>1. s' = HeardOn(b, a, i) BY <3>3 DEF Duplicate
      <4>2. BaseOf(b, i) BY <2>0, <3>m, BaseFields
      <4> HIDE DEF b
      <4>3. b \in StreamStates /\ Window(b) BY <4>2 DEF BaseOf
      <4>4. s' \in StreamStates /\ SameWindow(s', b) /\ s'.gaps = b.gaps
        BY <2>0, <4>1, <4>3, HeardOnFields
      <4> QED BY <4>3, <4>4 DEF Window, SameWindow
    <3>4. ASSUME NEW a \in Adapters, NEW i \in Index, NEW t \in Stamps, NEW bad \in Mismatch,
                 NEW budget \in Budgets, NEW complete \in BOOLEAN,
                 FirstCopy(a, i, t, budget, bad, complete)
          PROVE  s' \in StreamStates /\ Window(s')
      <4> DEFINE b == Base(i, bad)
                 rx == [lastRx EXCEPT ![a] = t]
                 st == Ingest(b, rx, a, i, t, budget, complete)
      <4>1. ~IsDuplicate(b, i) /\ \E e : Settle(st, t, e) BY <3>4 DEF FirstCopy
      <4>2. BaseOf(b, i) BY <2>0, <3>m, BaseFields
      <4> HIDE DEF b, rx
      <4>3. b \in StreamStates /\ Window(b) /\ SeqOf(i) - b.cursor <= ClampPkts
        BY <4>1, <4>2 DEF BaseOf
      <4>4. Ingested(st, b, i, t, budget) BY <2>0, <3>t, <4>1, <4>3, IngestFields
      <4> HIDE DEF st
      <4> QED BY <2>a, <4>1, <4>4 DEF Ingested
    <3>5. ASSUME NEW st \in StreamStates, Window(st), NEW t \in Stamps,
                 Settle(EvaluateGaps(st, lastRx, t), t, {})
          PROVE  s' \in StreamStates /\ Window(s')
      <4> DEFINE r == EvaluateGaps(st, lastRx, t)
                 rx == lastRx
      <4>1. r \in StreamStates /\ SameWindow(r, st) /\ SameGaps(r, st)
        <5>1. r = EvaluateGaps(st, rx, t) OBVIOUS
        <5> HIDE DEF rx, r
        <5> QED BY <5>1, EvaluateFields
      <4>2. Settle(r, t, {}) BY <3>5
      <4> HIDE DEF r
      <4>3. Window(r) BY <3>5, <4>1, SameKeepsWindow
      <4> QED BY <2>a, <4>1, <4>2, <4>3
    <3>6. ASSUME NEW b \in Nat, NEW t \in Stamps,
                 Settle(EvaluateGaps(MarkComplete(s, b), lastRx, t), t, {})
          PROVE  s' \in StreamStates /\ Window(s')
      <4> DEFINE st == MarkComplete(s, b)
      <4>1. st \in StreamStates /\ SameWindow(st, s) /\ SameGaps(st, s)
        BY <2>0, MarkCompleteFields
      <4>2. Settle(EvaluateGaps(st, lastRx, t), t, {}) BY <3>6
      <4> HIDE DEF st
      <4>3. Window(st) BY <2>0, <4>1, SameKeepsWindow
      <4> QED BY <3>5, <4>1, <4>2, <4>3
    <3>7. s' \in StreamStates /\ Window(s')
      <4>1. s' = s => s' \in StreamStates /\ Window(s') BY <2>0
      <4> QED BY <2>0, <2>1, <3>2, <3>3, <3>4, <3>5, <3>6, <4>1, StreamSteps
    <3>8. Window(s)' BY <3>1, <3>7 DEF Window, ClampPkts
    <3> QED BY <2>0, <3>1, <3>7, <3>8 DEF StreamInv
  <2>2. CASE UNCHANGED streamVars
    BY <2>2 DEF StreamInv, streamVars, Window, ClampPkts
  <2> QED BY <2>1, <2>2
<1>3. StreamInv => WindowExact
  <2> SUFFICES ASSUME StreamInv PROVE WindowExact OBVIOUS
  <2>1. /\ s.cursor \in Nat /\ s.maxSeq \in Nat /\ s.held \in SUBSET HeldPackets
        /\ s.gaps \in SUBSET GapNotes
    BY DEF StreamInv, StreamStates
  <2>2. /\ s.maxSeq - s.cursor <= ClampPkts
        /\ \A h \in s.held : s.cursor <= h.seq /\ h.seq <= s.maxSeq
        /\ \A g \in s.gaps : s.cursor <= g.seq /\ g.seq < s.maxSeq
        /\ \A h \in s.held, g \in s.gaps : h.seq # g.seq
        /\ \A m \in s.cursor .. s.maxSeq - 1 :
             (\E h \in s.held : h.seq = m) \/ (\E g \in s.gaps : g.seq = m)
    BY DEF StreamInv, Window
  <2>3. \A h \in s.held : h.seq \in s.cursor .. s.maxSeq BY <2>1, <2>2 DEF HeldPackets
  <2>4. \A g \in s.gaps : g.seq \in s.cursor .. s.maxSeq BY <2>1, <2>2 DEF GapNotes
  <2>5. Seqs(s.held) \cap Seqs(s.gaps) = {} BY <2>2 DEF Seqs
  <2>6. s.cursor .. s.maxSeq - 1 \subseteq Seqs(s.held) \cup Seqs(s.gaps) BY <2>2 DEF Seqs
  <2>7. Seqs(s.held) \cup Seqs(s.gaps) \subseteq s.cursor .. s.maxSeq BY <2>3, <2>4 DEF Seqs
  <2> QED BY <2>2, <2>5, <2>6, <2>7 DEF WindowExact
<1> QED BY <1>1, <1>2, <1>3, PTL DEF StreamSpec

\* A stream that ends before its sequence numbers wrap: a u32 number takes weeks of
\* traffic to come round.  Across the wrap NoStarvation is false (the run rx_wrap).
NoWrap == \A x \in Setups : x.firstSeq + Len(x.packets) < StreamSeqSpace

\* Until the wrap, numbers and blocks follow the order of sending.
LEMMA Numbers ==
  ASSUME NoWrap, setup \in Setups
  PROVE  /\ \A i \in Index : /\ i \in Nat /\ SeqOf(i) = FirstSeq + i - 1 /\ SeqOf(i) \in Nat
                             /\ SeqOf(i) + 1 < StreamSeqSpace /\ FirstSeq <= SeqOf(i)
         /\ \A i, j \in Index : SeqOf(i) = SeqOf(j) => i = j
         /\ \A i, j \in Index : SeqOf(i) < SeqOf(j) => i < j
         /\ \A i, j \in Index : i < j => SeqOf(i) < SeqOf(j)
         /\ \A i, j \in Index : SeqOf(i) <= SeqOf(j) => Packets[i].block <= Packets[j].block
<1> DEFINE n == Len(Packets)
           f == FirstSeq
<1>1. /\ n \in Nat /\ Index = 1 .. n /\ f \in Nat /\ StreamSeqSpace \in Nat
  BY SetupFacts
<1>2. f + n < StreamSeqSpace BY DEF NoWrap, Packets, FirstSeq
<1>3. \A i, j \in Index : i < j => Packets[i].block <= Packets[j].block
  BY RxConstants DEF Ordered, Packets, Index
<1>4. \A i \in Index : Packets[i].block \in Nat BY SetupFacts
<1>5. \A i \in Index : SeqOf(i) = (f + i - 1) % StreamSeqSpace BY DEF SeqOf
<1> HIDE DEF n, f
<1>6. ASSUME NEW i \in Index
      PROVE  i \in Nat /\ SeqOf(i) = f + i - 1 /\ SeqOf(i) + 1 < StreamSeqSpace /\ i >= 1
  <2> DEFINE k == f + i - 1
  <2>1. i \in Nat /\ i >= 1 /\ k \in Nat /\ k + 1 < StreamSeqSpace BY <1>1, <1>2
  <2>2. SeqOf(i) = k % StreamSeqSpace BY <1>5
  <2> HIDE DEF k
  <2>3. k % StreamSeqSpace = k BY <1>1, <2>1
  <2> QED BY <2>1, <2>2, <2>3 DEF k
<1>7. \A i, j \in Index : (SeqOf(i) = SeqOf(j) => i = j) /\ (SeqOf(i) < SeqOf(j) => i < j)
                          /\ (i < j => SeqOf(i) < SeqOf(j))
  BY <1>1, <1>6
<1>8. ASSUME NEW i \in Index, NEW j \in Index, SeqOf(i) <= SeqOf(j)
      PROVE  Packets[i].block <= Packets[j].block
  <2>1. i = j \/ i < j BY <1>1, <1>6, <1>8
  <2> QED BY <1>3, <1>4, <2>1
<1>9. \A i \in Index : SeqOf(i) \in Nat /\ f <= SeqOf(i) BY <1>1, <1>6
<1> QED BY <1>6, <1>7, <1>8, <1>9 DEF f

\* The longest any policy lets a packet wait.
Longest == Max(Budgets \cup {DwellCeiling})

\* It is the longest.
LEMMA LongestFacts ==
  ASSUME setup \in Setups
  PROVE  /\ Longest \in Nat /\ DwellCeiling \in Nat /\ DwellCeiling <= Longest
         /\ \A b \in Budgets : b \in Nat /\ b <= Longest
<1> DEFINE S == Budgets \cup {DwellCeiling}
<1>1. S \subseteq Nat /\ DwellCeiling \in Nat /\ DwellCeiling \in S /\ Budgets \subseteq S
  BY SetupFacts, RxConstants
<1>2. PICK b \in Budgets : \A c \in Budgets : c <= b BY RxConstants DEF Budgets
<1>3. b \in Nat /\ b \in S BY <1>1, <1>2
<1>4. \E x \in S : \A y \in S : x >= y
  <2>1. CASE b >= DwellCeiling
    <3>1. \A y \in S : b >= y BY <1>1, <1>2, <1>3, <2>1
    <3> QED BY <1>3, <3>1
  <2>2. CASE DwellCeiling >= b
    <3>1. \A y \in Budgets : y \in Nat /\ y <= b BY <1>1, <1>2
    <3>2. \A y \in S : DwellCeiling >= y BY <1>1, <1>3, <2>2, <3>1
    <3> QED BY <1>1, <3>2
  <2> QED BY <1>1, <1>3, <2>1, <2>2
<1>5. Longest \in S /\ \A y \in S : Longest >= y BY <1>4 DEF Longest, Max
<1> HIDE DEF S
<1>6. Longest \in Nat /\ \A y \in S : y \in Nat /\ y <= Longest BY <1>1, <1>5
<1> QED BY <1>1, <1>6

\* What is held is what was sent, and the highest number has the highest block.
Genuine(st) ==
  /\ \A h \in st.held : /\ h.id \in Index /\ h.seq = SeqOf(h.id)
                        /\ h.block = Packets[h.id].block /\ (h.early <=> FrameMode)
  /\ \E j \in Index : st.maxSeq = SeqOf(j) /\ st.maxBlock = Packets[j].block

\* The clocks of gaps and blocks started no later than the packets behind them came.
Clocks(st) ==
  /\ \A g \in st.gaps : g.since <= now
  /\ \A g \in st.gaps, h \in st.held : h.seq > g.seq => g.since <= h.at
  /\ ~st.bestEffort =>
       /\ \A b \in st.blocks : b.first <= now /\ b.deadline <= b.first + Longest
       /\ \A h \in st.held : \E b \in st.blocks : b.id = h.block
       /\ \A h \in st.held, b \in st.blocks : b.id = h.block => b.first <= h.at

\* A pass over the gaps keeps both.
LEMMA SameKeepsClocks ==
  ASSUME NEW st \in StreamStates, NEW r \in StreamStates, SameWindow(r, st), SameGaps(r, st),
         Genuine(st), Clocks(st)
  PROVE  Genuine(r) /\ Clocks(r)
<1>1. Genuine(r) BY DEF Genuine, SameWindow
<1>2. /\ r.held = st.held /\ r.blocks = st.blocks /\ r.bestEffort = st.bestEffort
      /\ \A g \in r.gaps : \E x \in st.gaps : x.seq = g.seq /\ x.since = g.since
  BY DEF SameWindow, SameGaps
<1>3. \A g \in r.gaps : g.since <= now BY <1>2 DEF Clocks
<1>4. \A g \in r.gaps, h \in r.held : h.seq > g.seq => g.since <= h.at BY <1>2 DEF Clocks
<1> QED BY <1>1, <1>2, <1>3, <1>4 DEF Clocks

\* So does the fresh floor of a resync, which lies above everything it drops.
LEMMA BaseKeepsClocks ==
  ASSUME NoWrap, setup \in Setups, s \in StreamStates, Window(s), Genuine(s), Clocks(s),
         NEW i \in Index, NEW b, BaseOf(b, i)
  PROVE  /\ Genuine(b) /\ Clocks(b) /\ s.cursor <= b.cursor /\ b.held \subseteq s.held
         /\ \A h \in s.held : h \in b.held \/ h.seq < b.cursor
<1>1. CASE InClamp(i)
  <2>1. /\ b.cursor = s.cursor /\ b.maxSeq = s.maxSeq /\ b.maxBlock = s.maxBlock
        /\ b.held = s.held /\ b.gaps = s.gaps /\ b.blocks = s.blocks
        /\ ~b.bestEffort => ~s.bestEffort
    BY <1>1 DEF BaseOf
  <2>2. s.cursor \in Nat BY DEF StreamStates
  <2>3. Genuine(b) BY <2>1 DEF Genuine
  <2>4. Clocks(b) BY <2>1 DEF Clocks
  <2> QED BY <2>1, <2>2, <2>3, <2>4
<1>2. CASE ~InClamp(i)
  <2>1. /\ b.cursor = SeqOf(i) /\ b.maxSeq = SeqOf(i) /\ b.maxBlock = Packets[i].block
        /\ b.held = {} /\ b.gaps = {} /\ b.blocks = {}
    BY <1>2 DEF BaseOf
  <2>2. Genuine(b) BY <2>1 DEF Genuine
  <2>3. Clocks(b) BY <2>1 DEF Clocks
  <2>4. PICK j \in Index : s.maxSeq = SeqOf(j) /\ s.maxBlock = Packets[j].block BY DEF Genuine
  <2>5. /\ s.cursor \in Nat /\ s.maxSeq \in Nat /\ s.maxBlock \in Nat /\ SeqOf(i) \in Nat
        /\ ClampPkts \in Nat /\ FwdClampBlocks \in Nat /\ Packets[i].block \in Nat
    <3>1. s.cursor \in Nat /\ s.maxSeq \in Nat /\ s.maxBlock \in Nat BY DEF StreamStates
    <3>2. ClampPkts \in Nat /\ FwdClampBlocks \in Nat /\ Packets[i].block \in Nat BY SetupFacts
    <3>3. SeqOf(i) \in Nat BY Numbers
    <3> QED BY <3>1, <3>2, <3>3
  <2>6. s.maxSeq < SeqOf(i)
    <3>1. CASE ~Plausible(s.cursor, SeqOf(i), ClampPkts)
      <4>1. s.maxSeq - s.cursor <= ClampPkts BY DEF Window
      <4>2. ~(SeqOf(i) <= s.cursor) /\ ~(SeqOf(i) - s.cursor <= ClampPkts) BY <3>1 DEF Plausible
      <4> QED BY <2>5, <4>1, <4>2
    <3>2. CASE ~Plausible(s.maxBlock, Packets[i].block, FwdClampBlocks)
      <4>1. ~(Packets[i].block <= s.maxBlock) BY <3>2 DEF Plausible
      <4>2. ~(SeqOf(i) <= SeqOf(j)) BY <2>4, <4>1, Numbers
      <4> QED BY <2>4, <2>5, <4>2
    <3> QED BY <1>2, <3>1, <3>2 DEF InClamp
  <2>7. s.cursor <= s.maxSeq + 1 /\ \A h \in s.held : h.seq <= s.maxSeq BY DEF Window
  <2>8. \A h \in s.held : h.seq \in Nat BY DEF StreamStates, HeldPackets
  <2>9. \A h \in s.held : h.seq < b.cursor BY <2>1, <2>5, <2>6, <2>7, <2>8
  <2>10. s.cursor <= b.cursor BY <2>1, <2>5, <2>6, <2>7
  <2> QED BY <2>1, <2>2, <2>3, <2>9, <2>10
<1> QED BY <1>1, <1>2

\* So does the first copy of a packet.
LEMMA IngestKeepsClocks ==
  ASSUME NoWrap, setup \in Setups, now \in Nat, NEW b \in StreamStates, Window(b), Genuine(b),
         Clocks(b), NEW i \in Index, NEW t \in Int, t <= now, NEW budget \in Budgets, NEW r,
         Ingested(r, b, i, t, budget)
  PROVE  Genuine(r) /\ Clocks(r)
<1> DEFINE p == Copy(i)
           bl == Packets[i].block
           q == SeqOf(i)
<1>1. /\ r \in StreamStates /\ r.held = b.held \cup {p}
      /\ r.maxSeq = Max({b.maxSeq, q}) /\ r.maxBlock = Max({b.maxBlock, bl})
      /\ r.blocks = NoteBlock(b, bl, t, budget) /\ r.bestEffort = b.bestEffort
      /\ \A g \in r.gaps : \/ \E x \in b.gaps : x.seq = g.seq /\ x.since = g.since
                           \/ g.since = t /\ g.seq >= b.maxSeq
  BY DEF Ingested
<1>2. p.id = i /\ p.seq = q /\ p.at = now /\ p.block = bl BY DEF Copy
<1>3. p.early <=> FrameMode BY DEF Copy
<1>4. q \in Nat /\ bl \in Nat /\ b.maxSeq \in Nat /\ b.maxBlock \in Nat
  <2>1. q \in Nat BY Numbers
  <2>2. bl \in Nat BY SetupFacts
  <2> QED BY <2>1, <2>2 DEF StreamStates
<1>5. PICK j \in Index : b.maxSeq = SeqOf(j) /\ b.maxBlock = Packets[j].block BY DEF Genuine
<1>6. /\ (b.maxSeq <= q => b.maxBlock <= bl) /\ (q <= b.maxSeq => bl <= b.maxBlock)
  BY <1>5, Numbers
<1> HIDE DEF p, bl, q
<1>7. \E k \in Index : r.maxSeq = SeqOf(k) /\ r.maxBlock = Packets[k].block
  <2>1. /\ r.maxSeq \in {b.maxSeq, q} /\ r.maxSeq >= b.maxSeq /\ r.maxSeq >= q
        /\ r.maxBlock \in {b.maxBlock, bl} /\ r.maxBlock >= b.maxBlock /\ r.maxBlock >= bl
    <3>1. q \in Int /\ bl \in Int /\ b.maxSeq \in Int /\ b.maxBlock \in Int BY <1>4
    <3> QED BY <1>1, <3>1, MaxTwo
  <2>2. CASE b.maxSeq <= q
    <3>1. r.maxSeq = q /\ r.maxBlock = bl BY <1>4, <1>6, <2>1, <2>2
    <3> QED BY <3>1 DEF q, bl
  <2>3. CASE q <= b.maxSeq
    <3>1. r.maxSeq = b.maxSeq /\ r.maxBlock = b.maxBlock BY <1>4, <1>6, <2>1, <2>3
    <3> QED BY <1>5, <3>1
  <2> QED BY <1>4, <2>2, <2>3
<1>8. Genuine(r)
  <2>1. \A h \in b.held : /\ h.id \in Index /\ h.seq = SeqOf(h.id)
                          /\ h.block = Packets[h.id].block /\ (h.early <=> FrameMode)
    BY DEF Genuine
  <2>2. /\ p.id \in Index /\ p.seq = SeqOf(p.id) /\ p.block = Packets[p.id].block
    BY <1>2 DEF q, bl
  <2> QED BY <1>1, <1>3, <1>7, <2>1, <2>2 DEF Genuine
<1>9. \A x \in b.gaps : x.seq \in Nat /\ x.since \in Int /\ x.since <= now
  BY DEF StreamStates, GapNotes, Clocks
<1>10. \A h \in b.held : h.seq \in Nat /\ h.at \in Nat /\ h.seq <= b.maxSeq
  BY DEF StreamStates, HeldPackets, Window
<1>11. \A g \in r.gaps : g.seq \in Nat BY <1>1 DEF StreamStates, GapNotes
<1>12. \A g \in r.gaps : g.since <= now BY <1>1, <1>9
<1>13. ASSUME NEW g \in r.gaps, NEW h \in r.held, h.seq > g.seq PROVE g.since <= h.at
  <2>1. CASE h = p BY <1>2, <1>12, <2>1
  <2>2. CASE h \in b.held
    <3>1. CASE \E x \in b.gaps : x.seq = g.seq /\ x.since = g.since
      BY <1>13, <2>2, <3>1 DEF Clocks
    <3>2. CASE g.seq >= b.maxSeq BY <1>4, <1>10, <1>11, <1>13, <2>2, <3>2
    <3> QED BY <1>1, <3>1, <3>2
  <2> QED BY <1>1, <2>1, <2>2
<1>14. ASSUME ~r.bestEffort
       PROVE  /\ \A x \in r.blocks : x.first <= now /\ x.deadline <= x.first + Longest
              /\ \A h \in r.held : \E x \in r.blocks : x.id = h.block
              /\ \A h \in r.held, x \in r.blocks : x.id = h.block => x.first <= h.at
  <2> DEFINE first == IF \E x \in b.blocks : x.id = bl
                      THEN (CHOOSE x \in b.blocks : x.id = bl).first ELSE t
             clock == [id |-> bl, first |-> first, deadline |-> first + budget]
  <2>0. ~b.bestEffort BY <1>1, <1>14
  <2>1. r.blocks = {x \in b.blocks : x.id # bl} \cup {clock} BY <1>1, <2>0 DEF NoteBlock
  <2>2. clock.id = bl /\ clock.first = first /\ clock.deadline = first + budget OBVIOUS
  <2>3. /\ \A x \in b.blocks : x.first <= now /\ x.deadline <= x.first + Longest
        /\ \A h \in b.held : \E x \in b.blocks : x.id = h.block
        /\ \A h \in b.held, x \in b.blocks : x.id = h.block => x.first <= h.at
    BY <2>0 DEF Clocks
  <2>4. \A x \in b.blocks : x.first \in Int BY DEF StreamStates, BlockClocks
  <2>5. \/ \E x \in b.blocks : x.id = bl /\ first = x.first
        \/ first = t /\ \A x \in b.blocks : x.id # bl
    <3>1. CASE \E x \in b.blocks : x.id = bl
      <4>1. (CHOOSE x \in b.blocks : x.id = bl) \in b.blocks
            /\ (CHOOSE x \in b.blocks : x.id = bl).id = bl
        BY <3>1
      <4> QED BY <3>1, <4>1
    <3>2. CASE ~\E x \in b.blocks : x.id = bl BY <3>2
    <3> QED BY <3>1, <3>2
  <2> HIDE DEF first, clock
  <2>6. first \in Int /\ first <= now BY <2>3, <2>4, <2>5
  <2>7. \A h \in b.held : h.block = bl => first <= h.at BY <2>3, <2>5
  <2>8. clock.deadline <= clock.first + Longest
    <3>1. budget \in Nat /\ Longest \in Nat /\ budget <= Longest BY LongestFacts
    <3> QED BY <2>2, <2>6, <3>1
  <2>9. \A x \in r.blocks : x.first <= now /\ x.deadline <= x.first + Longest
    BY <2>1, <2>2, <2>3, <2>6, <2>8
  <2>10. \A h \in r.held : \E x \in r.blocks : x.id = h.block
    <3> TAKE h \in r.held
    <3>1. CASE h.block = bl BY <2>1, <2>2, <3>1
    <3>2. CASE h.block # bl
      <4>1. h \in b.held BY <1>1, <1>2, <3>2
      <4>2. PICK x \in b.blocks : x.id = h.block BY <2>3, <4>1
      <4> QED BY <2>1, <3>2, <4>2
    <3> QED BY <3>1, <3>2
  <2>11. ASSUME NEW h \in r.held, NEW x \in r.blocks, x.id = h.block PROVE x.first <= h.at
    <3>1. CASE h = p BY <1>2, <2>9, <3>1
    <3>2. CASE h \in b.held /\ x \in b.blocks BY <2>3, <2>11, <3>2
    <3>3. CASE h \in b.held /\ x = clock BY <2>2, <2>7, <2>11, <3>3
    <3> QED BY <1>1, <2>1, <3>1, <3>2, <3>3
  <2> QED BY <2>9, <2>10, <2>11
<1>15. Clocks(r) BY <1>12, <1>13, <1>14 DEF Clocks
<1> QED BY <1>8, <1>15

\* A packet held at the cursor is passed.
LEMMA FirstPasses ==
  ASSUME setup \in Setups, NEW st \in StreamStates, Window(st), st.cursor \in Seqs(st.held), NEW t
  PROVE  st.cursor < CursorStop(st, t)
<1> DEFINE stop == CursorStop(st, t)
<1>1. st.cursor < StreamSeqSpace BY DEF Window
<1>2. /\ stop \in st.cursor .. StreamSeqSpace
      /\ \/ stop = StreamSeqSpace \/ stop > st.maxSeq
         \/ stop \notin Seqs(st.held)
  BY <1>1, StopFacts
<1>3. st.cursor \in Nat /\ st.maxSeq \in Nat /\ StreamSeqSpace \in Nat BY SetupFacts DEF StreamStates
<1>4. st.cursor <= st.maxSeq BY DEF Window, Seqs
<1> HIDE DEF stop
<1>5. stop # st.cursor BY <1>1, <1>2, <1>3, <1>4
<1>6. st.cursor < stop BY <1>2, <1>3, <1>5
<1> QED BY <1>6 DEF stop

\* Before the wrap the cursor's pass only drops what it passes, and keeps the rest.
Passed(r, st, t) ==
  /\ r \in StreamStates /\ Window(r) /\ Genuine(r) /\ Clocks(r)
  /\ r.cursor = CursorStop(st, t) /\ st.cursor <= r.cursor
  /\ r.maxSeq = st.maxSeq /\ r.maxBlock = st.maxBlock
  /\ \A h : h \in r.held <=> (h \in st.held /\ r.cursor <= h.seq)
  /\ r.firstClamp = st.firstClamp

\* That is what AdvanceCursor makes of a stream.
LEMMA AdvanceKeepsClocks ==
  ASSUME NoWrap, setup \in Setups, NEW st \in StreamStates, Window(st), Genuine(st), Clocks(st), NEW t
  PROVE  Passed(AdvanceCursor(st, t), st, t)
<1> DEFINE r == AdvanceCursor(st, t)
           stop == CursorStop(st, t)
<1>1. st.cursor < StreamSeqSpace BY DEF Window
<1>2. PICK j \in Index : st.maxSeq = SeqOf(j) /\ st.maxBlock = Packets[j].block BY DEF Genuine
<1>3. st.maxSeq \in Nat /\ st.maxSeq + 1 < StreamSeqSpace BY <1>2, Numbers
<1>4. stop \in st.cursor .. StreamSeqSpace BY <1>1, StopFacts
<1>5. Window(r) /\ stop <= st.maxSeq + 1 BY AdvanceKeepsWindow
<1>6. st.cursor \in Nat /\ StreamSeqSpace \in Nat BY SetupFacts DEF StreamStates
<1> HIDE DEF r, stop
<1>7. stop # StreamSeqSpace /\ stop \in Nat /\ st.cursor <= stop BY <1>3, <1>4, <1>5, <1>6
<1>8. /\ r \in StreamStates /\ r.bestEffort = st.bestEffort
      /\ r.cursor = stop /\ r.maxSeq = st.maxSeq /\ r.maxBlock = st.maxBlock
      /\ r.held = {h \in st.held : h.seq \notin st.cursor .. stop - 1}
      /\ r.gaps = {g \in st.gaps : g.seq >= stop}
      /\ r.blocks \subseteq st.blocks
      /\ \A b \in st.blocks \ r.blocks :
           \E o \in st.held : o.seq \in st.cursor .. stop - 1 /\ b.id < o.block
      /\ r.firstClamp = st.firstClamp
  BY <1>1, <1>7, AdvanceFields DEF r, stop
<1>9. \A h \in st.held : h.seq \in Nat /\ st.cursor <= h.seq
  BY DEF StreamStates, HeldPackets, Window
<1>10. \A h : h \in r.held <=> (h \in st.held /\ r.cursor <= h.seq)
  BY <1>6, <1>7, <1>8, <1>9
<1>11. Genuine(r) BY <1>8, <1>10 DEF Genuine
<1>12. ASSUME ~r.bestEffort, NEW h \in r.held PROVE \E b \in r.blocks : b.id = h.block
  <2>1. PICK b \in st.blocks : b.id = h.block BY <1>8, <1>10, <1>12 DEF Clocks
  <2>2. ASSUME b \notin r.blocks PROVE FALSE
    <3>1. PICK o \in st.held : o.seq \in st.cursor .. stop - 1 /\ b.id < o.block BY <1>8, <2>2
    <3>2. h \in st.held /\ stop <= h.seq BY <1>8, <1>10
    <3>3. /\ o.id \in Index /\ o.seq = SeqOf(o.id) /\ o.block = Packets[o.id].block
          /\ h.id \in Index /\ h.seq = SeqOf(h.id) /\ h.block = Packets[h.id].block
      BY <3>1, <3>2 DEF Genuine
    <3>4. o.seq <= h.seq BY <1>6, <1>7, <1>9, <3>1, <3>2
    <3>5. o.block <= h.block BY <3>3, <3>4, Numbers
    <3>6. o.block \in Nat /\ h.block \in Nat BY <3>1, <3>2 DEF StreamStates, HeldPackets
    <3> QED BY <2>1, <3>1, <3>5, <3>6
  <2> QED BY <2>1, <2>2
<1>13. Clocks(r)
  <2>1. \A g \in r.gaps : g.since <= now BY <1>8 DEF Clocks
  <2>2. \A g \in r.gaps, h \in r.held : h.seq > g.seq => g.since <= h.at BY <1>8, <1>10 DEF Clocks
  <2>3. ~r.bestEffort =>
          /\ \A b \in r.blocks : b.first <= now /\ b.deadline <= b.first + Longest
          /\ \A h \in r.held, b \in r.blocks : b.id = h.block => b.first <= h.at
    BY <1>8, <1>10 DEF Clocks
  <2> QED BY <1>12, <2>1, <2>2, <2>3 DEF Clocks
<1> QED BY <1>5, <1>7, <1>8, <1>10, <1>11, <1>13 DEF Passed, r, stop

\* What a tick leaves in the window has not waited longer than the longest policy: the
\* gap at the cursor is of the newest block, whose clock started before the packet came.
LEMMA TickReleases ==
  ASSUME NoWrap, setup \in Setups, now \in Nat, NEW st \in StreamStates, Window(st), Genuine(st),
         Clocks(st), NEW rx, NEW t \in Int, NEW e, e = EvaluateGaps(st, rx, t),
         NEW h \in AdvanceCursor(e, t).held
  PROVE  t <= h.at + Longest
<1> DEFINE stop == CursorStop(e, t)
           r == AdvanceCursor(e, t)
<1>1. /\ e \in StreamStates /\ SameWindow(e, st) /\ SameGaps(e, st)
      /\ \A g \in e.gaps : \/ g.fec
                           \/ /\ Superseded(st, g.seq) => g.superseded
                              /\ Elapsed(t, g.since) >= DwellCeiling => g.lost
  BY EvaluateFields
<1>2. Window(e) /\ Genuine(e) /\ Clocks(e) BY <1>1, SameKeepsWindow, SameKeepsClocks
<1>3. Passed(r, e, t) BY <1>1, <1>2, AdvanceKeepsClocks
<1>4. h \in e.held /\ stop <= h.seq /\ e.cursor <= stop BY <1>3 DEF Passed
<1>5. /\ stop \in e.cursor .. StreamSeqSpace
      /\ \/ stop = StreamSeqSpace \/ stop > e.maxSeq
         \/ stop \notin Seqs(e.held) /\ ~Skipped(e, stop, t)
  <2>1. e.cursor < StreamSeqSpace BY <1>2 DEF Window
  <2> QED BY <1>1, <2>1, StopFacts
<1>6. h.seq \in Nat /\ h.seq <= e.maxSeq /\ e.maxSeq < StreamSeqSpace /\ h.at \in Nat
      /\ h.block \in Nat
  BY <1>1, <1>2, <1>4 DEF StreamStates, HeldPackets, Window
<1>7. e.cursor \in Nat /\ e.maxSeq \in Nat /\ e.maxBlock \in Nat /\ StreamSeqSpace \in Nat
  BY <1>1, SetupFacts DEF StreamStates
<1> HIDE DEF stop, r
<1>8. stop \in Nat /\ stop \notin Seqs(e.held) /\ ~Skipped(e, stop, t)
  BY <1>4, <1>5, <1>6, <1>7
<1>9. stop # h.seq /\ \A x \in e.held : x.seq # stop BY <1>4, <1>8 DEF Seqs
<1>10. stop < h.seq /\ stop \in e.cursor .. e.maxSeq - 1 BY <1>4, <1>6, <1>7, <1>8, <1>9
<1>11. PICK g \in e.gaps : g.seq = stop BY <1>2, <1>9, <1>10 DEF Window
<1>12. /\ ~g.fec /\ ~g.superseded
       /\ ~(~e.bestEffort /\ DeadlinePassed(e, stop, t)) /\ ~(e.bestEffort /\ g.lost)
  BY <1>8, <1>11 DEF Skipped
<1>13. ~Superseded(st, stop) /\ (Elapsed(t, g.since) >= DwellCeiling => g.lost)
  BY <1>1, <1>11, <1>12
<1>14. g.since \in Int /\ g.since <= h.at
  BY <1>1, <1>2, <1>4, <1>6, <1>8, <1>10, <1>11 DEF Clocks, StreamStates, GapNotes
<1>15. Longest \in Nat /\ DwellCeiling \in Nat /\ DwellCeiling <= Longest BY LongestFacts
<1>16. CASE e.bestEffort
  <2>1. ~(Elapsed(t, g.since) >= DwellCeiling) BY <1>12, <1>13, <1>16
  <2>2. CASE t >= g.since
    <3>1. ~(t - g.since >= DwellCeiling) BY <2>1, <2>2 DEF Elapsed
    <3> QED BY <1>6, <1>14, <1>15, <2>2, <3>1
  <2>3. CASE ~(t >= g.since) BY <1>6, <1>14, <1>15, <2>3
  <2> QED BY <2>2, <2>3
<1>17. CASE ~e.bestEffort
  <2> DEFINE up == Above(e, stop)
             n == Nearest(up)
  <2>1. up = Above(st, stop) /\ ~st.bestEffort /\ e.maxBlock = st.maxBlock
    BY <1>1, <1>17 DEF Above, SameWindow
  <2>2. h \in up BY <1>4, <1>6, <1>8, <1>10 DEF Above
  <2>3. n \in up /\ n.seq <= h.seq
    <3>1. up \in SUBSET HeldPackets /\ up # {} BY <1>1, <2>2 DEF Above, StreamStates
    <3> HIDE DEF up
    <3> QED BY <2>2, <3>1, Extremes
  <2>4. ~(n.block < e.maxBlock) BY <1>13, <2>1, <2>2 DEF Superseded
  <2>5. \A b \in e.blocks : b.id = n.block => ~(t >= b.deadline)
    BY <1>12, <1>17, <2>2 DEF DeadlinePassed
  <2>6. n \in e.held BY <2>3 DEF Above
  <2> HIDE DEF n, up
  <2>7. PICK j \in Index : e.maxSeq = SeqOf(j) /\ e.maxBlock = Packets[j].block
    BY <1>2 DEF Genuine
  <2>8. /\ n.id \in Index /\ n.seq = SeqOf(n.id) /\ n.block = Packets[n.id].block
        /\ h.id \in Index /\ h.seq = SeqOf(h.id) /\ h.block = Packets[h.id].block
    BY <1>2, <1>4, <2>6 DEF Genuine
  <2>9. n.block <= h.block /\ h.block <= e.maxBlock BY <1>6, <2>3, <2>7, <2>8, Numbers
  <2>10. n.block \in Nat BY <1>1, <2>6 DEF StreamStates, HeldPackets
  <2>11. n.block = h.block BY <1>6, <1>7, <2>4, <2>9, <2>10
  <2>12. PICK b \in e.blocks : b.id = h.block BY <1>2, <1>4, <1>17 DEF Clocks
  <2>13. b.first <= h.at /\ b.deadline <= b.first + Longest BY <1>2, <1>4, <1>17, <2>12 DEF Clocks
  <2>14. ~(t >= b.deadline) BY <2>5, <2>11, <2>12
  <2>15. b.first \in Int /\ b.deadline \in Int BY <1>1 DEF StreamStates, BlockClocks
  <2> QED BY <1>6, <1>15, <2>13, <2>14, <2>15
<1> QED BY <1>16, <1>17

\* Every packet is delivered at most once, and only when the cursor passes it or early.
Counted(st, g) ==
  /\ g \in [Index -> Nat]
  /\ \A i \in Index : /\ g[i] <= 1
                      /\ g[i] # 0 => \/ SeqOf(i) < st.cursor
                                     \/ FrameMode /\ \E h \in st.held : h.id = i

\* What went out last lies below the cursor.
LastBelow(st, l) == l \in Nat /\ (l = 0 \/ (l \in Index /\ SeqOf(l) < st.cursor))

\* The highest number was delivered or is held.
Top(st, g) ==
  \E j \in Index : st.maxSeq = SeqOf(j) /\ (g[j] # 0 \/ \E h \in st.held : h.id = j)

\* How many of a set one packet is.
LEMMA OneOf ==
  ASSUME NEW i, NEW S
  PROVE  /\ i \in S => Cardinality({i} \cap S) = 1
         /\ i \notin S => Cardinality({i} \cap S) = 0
<1>1. ASSUME i \in S PROVE Cardinality({i} \cap S) = 1
  <2>1. {i} \cap S = {i} BY <1>1
  <2> QED BY <2>1, FS_Singleton
<1>2. ASSUME i \notin S PROVE Cardinality({i} \cap S) = 0
  <2>1. {i} \cap S = {} BY <1>2
  <2> QED BY <2>1, FS_EmptySet
<1> QED BY <1>1, <1>2

\* A pass of the cursor hands over what it passes, each packet for the first time.
LEMMA SettleFacts ==
  ASSUME NoWrap, setup \in Setups, NEW st \in StreamStates, Window(st), Genuine(st), Clocks(st),
         NEW t, NEW e, Settle(st, t, e), Counted(st, got), LastBelow(st, lastOut),
         \A k \in e : FrameMode /\ got[k] = 0 /\ \E h \in st.held : h.id = k,
         \A h \in st.held : FrameMode => got[h.id] # 0 \/ h.id \in e
  PROVE  /\ Passed(s', st, t) /\ Counted(s', got') /\ LastBelow(s', lastOut')
         /\ \A h \in st.held : h \notin s'.held => got'[h.id] # 0
         /\ \A h \in s'.held : FrameMode => got'[h.id] # 0
         /\ \A i \in Index : got[i] # 0 => got'[i] # 0
         /\ \A i \in Index : got'[i] # got[i] /\ ~FrameMode => st.cursor <= SeqOf(i)
<1> DEFINE out == Delivers(st, t)
           stop == CursorStop(st, t)
<1>1. /\ s' = AdvanceCursor(st, t)
      /\ got' = [i \in Index |-> got[i] + Cardinality({i} \cap out) + Cardinality({i} \cap e)]
      /\ lastOut' = Max(out \cup {IF out = {} THEN lastOut ELSE 0})
  BY DEF Settle
<1>2. Passed(s', st, t) BY <1>1, AdvanceKeepsClocks
<1>3. /\ s'.cursor = stop /\ st.cursor <= stop
      /\ \A h : h \in s'.held <=> (h \in st.held /\ stop <= h.seq)
  BY <1>2 DEF Passed
<1>4. \A h \in st.held : /\ h.id \in Index /\ h.seq = SeqOf(h.id) /\ (h.early <=> FrameMode)
                         /\ h.seq \in Nat /\ st.cursor <= h.seq
  BY DEF Genuine, StreamStates, HeldPackets, Window
<1>5. st.cursor \in Nat /\ stop \in Nat
  <2>1. stop \in st.cursor .. StreamSeqSpace BY StopFacts DEF Window
  <2>2. st.cursor \in Nat /\ StreamSeqSpace \in Nat BY SetupFacts DEF StreamStates
  <2> HIDE DEF stop
  <2> QED BY <2>1, <2>2
<1>6. \A k : k \in out <=> \E h \in st.held : h.id = k /\ h.seq \in st.cursor .. stop - 1 /\ ~h.early
  BY DEF Delivers
<1> HIDE DEF out, stop
<1>7. ASSUME NEW k \in out
      PROVE  ~FrameMode /\ k \in Index /\ st.cursor <= SeqOf(k) /\ SeqOf(k) < stop
  <2>1. PICK h \in st.held : h.id = k /\ h.seq \in st.cursor .. stop - 1 /\ ~h.early BY <1>6
  <2> QED BY <1>4, <1>5, <2>1
<1>8. \A i \in Index : SeqOf(i) \in Nat /\ i \in Nat /\ i >= 1
  <2>1. \A i \in Index : SeqOf(i) \in Nat BY Numbers
  <2>2. \A i \in Index : i \in Nat /\ i >= 1 BY SetupFacts
  <2> QED BY <2>1, <2>2
<1>9. ASSUME NEW i \in Index, i \in out
      PROVE  /\ got'[i] = 1 /\ got[i] = 0 /\ SeqOf(i) < stop /\ st.cursor <= SeqOf(i) /\ ~FrameMode
  <2>1. ~FrameMode /\ st.cursor <= SeqOf(i) /\ SeqOf(i) < stop BY <1>7, <1>9
  <2>2. i \notin e BY <2>1
  <2>3. ~(SeqOf(i) < st.cursor) BY <1>5, <1>8, <2>1
  <2>4. got[i] = 0 BY <2>1, <2>3 DEF Counted
  <2>5. Cardinality({i} \cap out) = 1 /\ Cardinality({i} \cap e) = 0 BY <1>9, <2>2, OneOf
  <2>6. got'[i] = got[i] + Cardinality({i} \cap out) + Cardinality({i} \cap e) BY <1>1
  <2> QED BY <2>1, <2>4, <2>5, <2>6
<1>10. ASSUME NEW i \in Index, i \in e
       PROVE  got'[i] = 1 /\ FrameMode /\ \E h \in st.held : h.id = i
  <2>1. FrameMode /\ got[i] = 0 /\ \E h \in st.held : h.id = i BY <1>10
  <2>2. i \notin out BY <1>7, <2>1
  <2>3. Cardinality({i} \cap out) = 0 /\ Cardinality({i} \cap e) = 1 BY <1>10, <2>2, OneOf
  <2>4. got'[i] = got[i] + Cardinality({i} \cap out) + Cardinality({i} \cap e) BY <1>1
  <2> QED BY <2>1, <2>3, <2>4
<1>11. ASSUME NEW i \in Index, i \notin e, i \notin out PROVE got'[i] = got[i]
  <2>1. Cardinality({i} \cap out) = 0 /\ Cardinality({i} \cap e) = 0 BY <1>11, OneOf
  <2>2. got'[i] = got[i] + Cardinality({i} \cap out) + Cardinality({i} \cap e) BY <1>1
  <2>3. got[i] \in Nat BY DEF Counted
  <2> QED BY <2>1, <2>2, <2>3
<1>12. ASSUME NEW i \in Index
       PROVE  got'[i] \in Nat /\ got'[i] <= 1
  <2>1. got[i] \in Nat /\ got[i] <= 1 BY DEF Counted
  <2> QED BY <1>9, <1>10, <1>11, <2>1
<1>13. ASSUME NEW i \in Index, got'[i] # 0
       PROVE  SeqOf(i) < s'.cursor \/ (FrameMode /\ \E h \in s'.held : h.id = i)
  <2>1. ASSUME FrameMode, NEW h \in st.held, h.id = i
        PROVE  SeqOf(i) < s'.cursor \/ (FrameMode /\ \E x \in s'.held : x.id = i)
    <3>1. h.seq = SeqOf(i) /\ h.seq \in Nat BY <1>4, <2>1
    <3>2. h \in s'.held \/ h.seq < stop BY <1>3, <1>5, <3>1
    <3> QED BY <1>3, <2>1, <3>1, <3>2
  <2>2. CASE i \in out BY <1>3, <1>9, <2>2
  <2>3. CASE i \in e BY <1>10, <2>1, <2>3
  <2>4. CASE i \notin out /\ i \notin e
    <3>1. got[i] # 0 BY <1>11, <1>13, <2>4
    <3>2. SeqOf(i) < st.cursor \/ (FrameMode /\ \E h \in st.held : h.id = i) BY <3>1 DEF Counted
    <3>3. SeqOf(i) < st.cursor => SeqOf(i) < s'.cursor BY <1>3, <1>5, <1>8
    <3> QED BY <2>1, <3>2, <3>3
  <2> QED BY <2>2, <2>3, <2>4
<1>14. Counted(s', got')
  <2>1. got' \in [Index -> Nat] BY <1>1, <1>12
  <2> QED BY <1>12, <1>13, <2>1 DEF Counted
<1>15. LastBelow(s', lastOut')
  <2>1. CASE out = {}
    <3>1. lastOut' = Max({lastOut}) BY <1>1, <2>1
    <3>2. lastOut \in Nat BY DEF LastBelow
    <3>3. Max({lastOut}) = lastOut BY <3>2 DEF Max
    <3>4. \A l \in Index : SeqOf(l) < st.cursor => SeqOf(l) < s'.cursor BY <1>3, <1>5, <1>8
    <3> QED BY <3>1, <3>2, <3>3, <3>4 DEF LastBelow
  <2>2. CASE out # {}
    <3> DEFINE S == out \cup {0}
               n == Len(Packets)
    <3>1. lastOut' = Max(S) BY <1>1, <2>2
    <3>2. n \in Nat /\ Index = 1 .. n BY SetupFacts
    <3> HIDE DEF n
    <3>3. S \in SUBSET Nat /\ S # {} /\ \A x \in S : x <= n BY <1>7, <3>2
    <3>4. \E x \in S : \A y \in S : x >= y
      <4> HIDE DEF S
      <4> QED BY <3>2, <3>3, GreatestNat
    <3>5. Max(S) \in S /\ \A y \in S : Max(S) >= y BY <3>4 DEF Max
    <3>6. PICK k \in out : TRUE BY <2>2
    <3>7. k \in Nat /\ k >= 1 /\ Max(S) >= k BY <1>7, <1>8, <3>5, <3>6
    <3>8. Max(S) \in Nat BY <3>3, <3>5
    <3>9. Max(S) # 0 BY <3>7, <3>8
    <3>10. Max(S) \in out BY <3>5, <3>9
    <3> QED BY <1>3, <1>7, <3>1, <3>8, <3>10 DEF LastBelow
  <2> QED BY <2>1, <2>2
<1>16. ASSUME NEW h \in st.held, h \notin s'.held PROVE got'[h.id] # 0
  <2>1. h.id \in Index /\ h.seq \in Nat /\ st.cursor <= h.seq /\ (h.early <=> FrameMode) BY <1>4
  <2>2. h.seq \in st.cursor .. stop - 1 BY <1>3, <1>5, <1>16, <2>1
  <2>3. CASE FrameMode
    <3>1. CASE h.id \in e
      <4>1. got'[h.id] = 1 BY <1>10, <2>1, <3>1
      <4> QED BY <4>1
    <3>2. CASE h.id \notin e
      <4>1. h.id \notin out BY <1>7, <2>3
      <4>2. got'[h.id] = got[h.id] BY <1>11, <2>1, <3>2, <4>1
      <4> QED BY <2>3, <3>2, <4>2
    <3> QED BY <3>1, <3>2
  <2>4. CASE ~FrameMode
    <3>1. h.id \in out BY <1>6, <2>1, <2>2, <2>4
    <3>2. got'[h.id] = 1 BY <1>9, <2>1, <3>1
    <3> QED BY <3>2
  <2> QED BY <2>3, <2>4
<1>17. ASSUME NEW h \in s'.held, FrameMode PROVE got'[h.id] # 0
  <2>1. h \in st.held /\ h.id \in Index BY <1>3, <1>4
  <2>2. CASE h.id \in e
    <3>1. got'[h.id] = 1 BY <1>10, <2>1, <2>2
    <3> QED BY <3>1
  <2>3. CASE h.id \notin e
    <3>1. h.id \notin out BY <1>7, <1>17
    <3>2. got'[h.id] = got[h.id] BY <1>11, <2>1, <2>3, <3>1
    <3> QED BY <1>17, <2>1, <2>3, <3>2
  <2> QED BY <2>2, <2>3
<1>18. ASSUME NEW i \in Index, got'[i] # got[i], ~FrameMode PROVE st.cursor <= SeqOf(i)
  <2>1. i \notin e BY <1>18
  <2>2. i \in out BY <1>11, <1>18, <2>1
  <2> QED BY <1>9, <2>2
<1>19. ASSUME NEW i \in Index, got[i] # 0 PROVE got'[i] # 0
  <2>1. got'[i] = 1 \/ got'[i] = got[i] BY <1>9, <1>10, <1>11
  <2> QED BY <1>19, <2>1
<1> QED BY <1>2, <1>14, <1>15, <1>16, <1>17, <1>18, <1>19

\* The invariant of a stream before the wrap: the window, its packets and clocks, the
\* deliveries, the next tick and the storm that may flush it.
FlowInv ==
  /\ StreamInv /\ Genuine(s) /\ Clocks(s) /\ pos \in [Adapters -> Nat]
  /\ Counted(s, got) /\ LastBelow(s, lastOut) /\ Top(s, got) /\ FirstSeq <= s.cursor
  /\ \A h \in s.held : FrameMode => got[h.id] # 0
  /\ tickBy \in Int /\ now <= tickBy /\ tickBy <= now + TickGap
  /\ \A h \in s.held : tickBy <= h.at + Longest + ClockStep + TickGap
  /\ lastPass \in Int /\ lastPass <= now
  /\ s.firstClamp # 0 => lastPass - ClockStep <= s.firstClamp

\* What every step leaves of it, and the order of what it hands over.
Outcome ==
  /\ s' \in StreamStates /\ Window(s') /\ Genuine(s') /\ Clocks(s')
  /\ Counted(s', got') /\ LastBelow(s', lastOut') /\ Top(s', got') /\ FirstSeq <= s'.cursor
  /\ \A h \in s'.held : FrameMode => got'[h.id] # 0
  /\ \A i \in Index : (got'[i] # got[i] /\ ~FrameMode) => i > lastOut

\* A step that only hears.
LEMMA SameStep ==
  ASSUME FlowInv, s' \in StreamStates, got' = got, lastOut' = lastOut,
         s'.cursor = s.cursor, s'.maxSeq = s.maxSeq, s'.maxBlock = s.maxBlock,
         s'.held = s.held, s'.gaps = s.gaps, s'.blocks = s.blocks,
         ~s'.bestEffort => ~s.bestEffort
  PROVE  Outcome
<1>1. /\ Window(s) /\ Genuine(s) /\ Clocks(s) /\ Counted(s, got) /\ LastBelow(s, lastOut)
      /\ Top(s, got) /\ FirstSeq <= s.cursor
      /\ \A h \in s.held : FrameMode => got[h.id] # 0
  BY DEF FlowInv, StreamInv
<1>2. Window(s') BY <1>1 DEF Window
<1>3. Genuine(s') BY <1>1 DEF Genuine
<1>4. Clocks(s') BY <1>1 DEF Clocks
<1>5. Counted(s', got') /\ LastBelow(s', lastOut') /\ Top(s', got')
  BY <1>1 DEF Counted, LastBelow, Top
<1> QED BY <1>1, <1>2, <1>3, <1>4, <1>5 DEF Outcome

\* A step that runs the cursor over a window at least as far on.
LEMMA SettleStep ==
  ASSUME NoWrap, FlowInv, NEW st \in StreamStates, Window(st), Genuine(st), Clocks(st),
         s.cursor <= st.cursor, NEW t, NEW e, Settle(st, t, e), Counted(st, got), Top(st, got),
         \A k \in e : FrameMode /\ got[k] = 0 /\ \E h \in st.held : h.id = k,
         \A h \in st.held : FrameMode => got[h.id] # 0 \/ h.id \in e
  PROVE  /\ Outcome /\ Passed(s', st, t)
         /\ \A h \in st.held : h \notin s'.held => got'[h.id] # 0
         /\ \A h \in s'.held : FrameMode => got'[h.id] # 0
<1>1. /\ setup \in Setups /\ s \in StreamStates /\ LastBelow(s, lastOut) /\ FirstSeq <= s.cursor
  BY DEF FlowInv, StreamInv
<1>2. s.cursor \in Nat /\ st.cursor \in Nat /\ FirstSeq \in Nat
  BY <1>1, SetupFacts DEF StreamStates
<1>3. \A i \in Index : SeqOf(i) \in Nat /\ i \in Nat /\ i >= 1
  <2>1. \A i \in Index : SeqOf(i) \in Nat BY <1>1, Numbers
  <2>2. \A i \in Index : i \in Nat /\ i >= 1 BY <1>1, SetupFacts
  <2> QED BY <2>1, <2>2
<1>4. LastBelow(st, lastOut) BY <1>1, <1>2, <1>3 DEF LastBelow
<1>5. /\ Passed(s', st, t) /\ Counted(s', got') /\ LastBelow(s', lastOut')
      /\ \A h \in st.held : h \notin s'.held => got'[h.id] # 0
      /\ \A h \in s'.held : FrameMode => got'[h.id] # 0
      /\ \A i \in Index : got[i] # 0 => got'[i] # 0
      /\ \A i \in Index : got'[i] # got[i] /\ ~FrameMode => st.cursor <= SeqOf(i)
  BY <1>1, <1>4, SettleFacts
<1>6. /\ s' \in StreamStates /\ Window(s') /\ Genuine(s') /\ Clocks(s') /\ st.cursor <= s'.cursor
  BY <1>5 DEF Passed
<1>7. FirstSeq <= s'.cursor
  <2>1. s'.cursor \in Nat BY <1>6 DEF StreamStates
  <2> QED BY <1>1, <1>2, <1>6, <2>1
<1>8. ASSUME NEW i \in Index, got'[i] # got[i], ~FrameMode PROVE i > lastOut
  <2>1. st.cursor <= SeqOf(i) BY <1>5, <1>8
  <2>2. CASE lastOut = 0 BY <1>3, <2>2
  <2>3. CASE lastOut \in Index /\ SeqOf(lastOut) < st.cursor
    <3>1. SeqOf(lastOut) < SeqOf(i) BY <1>2, <1>3, <2>1, <2>3
    <3>2. lastOut < i BY <1>1, <2>3, <3>1, Numbers
    <3> QED BY <1>3, <2>3, <3>2
  <2> QED BY <1>4, <2>2, <2>3 DEF LastBelow
<1>t. Top(s', got')
  <2>1. PICK j \in Index : st.maxSeq = SeqOf(j) /\ (got[j] # 0 \/ \E h \in st.held : h.id = j)
    BY DEF Top
  <2>2. s'.maxSeq = SeqOf(j) BY <1>5, <2>1 DEF Passed
  <2>3. got'[j] # 0 \/ \E h \in s'.held : h.id = j BY <1>5, <2>1
  <2> QED BY <2>2, <2>3 DEF Top
<1>9. Outcome BY <1>5, <1>6, <1>7, <1>8, <1>t DEF Outcome
<1> QED BY <1>5, <1>9

\* A pass over the gaps, and the cursor behind it.
LEMMA PassStep ==
  ASSUME NoWrap, FlowInv, NEW st \in StreamStates, SameWindow(st, s), SameGaps(st, s),
         st.firstClamp = s.firstClamp, NEW t, Settle(st, t, {})
  PROVE  /\ Outcome /\ s'.held \subseteq s.held /\ s'.firstClamp = s.firstClamp
         /\ \A h \in s.held : h \notin s'.held => got'[h.id] # 0
         /\ s'.maxSeq = s.maxSeq /\ s'.maxBlock = s.maxBlock /\ s.cursor <= s'.cursor
<1>1. /\ s \in StreamStates /\ Window(s) /\ Genuine(s) /\ Clocks(s) /\ Counted(s, got)
      /\ Top(s, got) /\ \A h \in s.held : FrameMode => got[h.id] # 0
  BY DEF FlowInv, StreamInv
<1>2. Window(st) /\ Genuine(st) /\ Clocks(st) BY <1>1, SameKeepsWindow, SameKeepsClocks
<1>3. /\ st.cursor = s.cursor /\ st.held = s.held /\ st.maxSeq = s.maxSeq
      /\ st.maxBlock = s.maxBlock
  BY DEF SameWindow
<1>4. s.cursor <= st.cursor
  <2>1. s.cursor \in Nat BY <1>1 DEF StreamStates
  <2> QED BY <1>3, <2>1
<1>5. Counted(st, got) /\ Top(st, got) BY <1>1, <1>3 DEF Counted, Top
<1> DEFINE e == {}
<1>6. /\ \A k \in e : FrameMode /\ got[k] = 0 /\ \E h \in st.held : h.id = k
      /\ \A h \in st.held : FrameMode => got[h.id] # 0 \/ h.id \in e
      /\ Settle(st, t, e)
  BY <1>1, <1>3
<1> HIDE DEF e
<1>7. /\ Outcome /\ Passed(s', st, t) /\ \A h \in st.held : h \notin s'.held => got'[h.id] # 0
  BY <1>2, <1>4, <1>5, <1>6, SettleStep
<1>8. /\ s'.held \subseteq st.held /\ s'.firstClamp = st.firstClamp
      /\ s'.maxSeq = st.maxSeq /\ s'.maxBlock = st.maxBlock /\ st.cursor <= s'.cursor
  BY <1>7 DEF Passed
<1> QED BY <1>3, <1>7, <1>8

\* The first copy of a packet.
LEMMA CopyStep ==
  ASSUME NoWrap, FlowInv, NEW a \in Adapters, NEW i \in Index, NEW t \in Stamps,
         NEW budget \in Budgets, NEW bad \in Mismatch, NEW complete \in BOOLEAN,
         FirstCopy(a, i, t, budget, bad, complete)
  PROVE  /\ Outcome /\ (\A h \in s'.held : h \in s.held \/ h.at = now) /\ s'.firstClamp = 0
         /\ InClamp(i) => \A h \in s.held : h \notin s'.held => got'[h.id] # 0
         /\ lastPass' = now /\ Accepted(i, t)
         /\ got[i] = 0 /\ (FrameMode \/ ~InClamp(i) => got'[i] # 0)
         /\ got'[i] # 0 \/ \E h \in s'.held : h.at = now
<1>1. /\ setup \in Setups /\ now \in Nat /\ s \in StreamStates /\ Window(s) /\ Genuine(s)
      /\ Clocks(s) /\ Counted(s, got) /\ Top(s, got)
      /\ \A h \in s.held : FrameMode => got[h.id] # 0
  BY DEF FlowInv, StreamInv
<1> DEFINE b == Base(i, bad)
           rx == [lastRx EXCEPT ![a] = t]
           st == Ingest(b, rx, a, i, t, budget, complete)
           e == IF FrameMode THEN {i} ELSE {}
           p == Copy(i)
<1>2. ~IsDuplicate(b, i) /\ Settle(st, t, e) /\ lastPass' = now /\ Accepted(i, t)
  BY DEF FirstCopy
<1>3. BaseOf(b, i) BY <1>1, SetupFacts, BaseFields
<1>4. t \in Int /\ t <= now
  <2>1. ClockStep \in Nat BY <1>1, SetupFacts
  <2> QED BY <1>1, <2>1 DEF Stamps
<1>5. \A k : k \in e <=> (FrameMode /\ k = i) OBVIOUS
<1> HIDE DEF b, rx, e
<1>6. /\ b \in StreamStates /\ Window(b) /\ SeqOf(i) - b.cursor <= ClampPkts
      /\ b.firstClamp = 0 /\ (InClamp(i) => b.held = s.held)
  BY <1>2, <1>3 DEF BaseOf
<1>7. Ingested(st, b, i, t, budget)
  BY <1>1, <1>2, <1>4, <1>6, IngestFields
<1> HIDE DEF st
<1>8. /\ Genuine(b) /\ Clocks(b) /\ s.cursor <= b.cursor /\ b.held \subseteq s.held
      /\ \A h \in s.held : h \in b.held \/ h.seq < b.cursor
  BY <1>1, <1>3, BaseKeepsClocks
<1>9. Genuine(st) /\ Clocks(st) BY <1>1, <1>4, <1>6, <1>7, <1>8, IngestKeepsClocks
<1>10. /\ st \in StreamStates /\ Window(st) /\ st.cursor = b.cursor /\ st.held = b.held \cup {p}
       /\ st.firstClamp = 0
  BY <1>6, <1>7 DEF Ingested
<1>11. p.id = i /\ p.at = now BY DEF Copy
<1> HIDE DEF p
<1>12. s.cursor \in Nat /\ b.cursor \in Nat /\ s.cursor <= st.cursor
  BY <1>1, <1>6, <1>8, <1>10 DEF StreamStates
<1>13. \A k \in Index : SeqOf(k) \in Nat BY <1>1, Numbers
<1>14. \A h \in s.held : h.id \in Index /\ h.seq = SeqOf(h.id) BY <1>1 DEF Genuine
<1>15. ASSUME NEW k \in Index, got[k] # 0
       PROVE  SeqOf(k) < b.cursor \/ (FrameMode /\ \E h \in b.held : h.id = k)
  <2>1. SeqOf(k) < s.cursor \/ (FrameMode /\ \E h \in s.held : h.id = k) BY <1>1, <1>15 DEF Counted
  <2>2. CASE SeqOf(k) < s.cursor BY <1>8, <1>12, <1>13, <2>2
  <2>3. ASSUME FrameMode, NEW h \in s.held, h.id = k
        PROVE  SeqOf(k) < b.cursor \/ (FrameMode /\ \E x \in b.held : x.id = k)
    BY <1>8, <1>14, <2>3
  <2> QED BY <2>1, <2>2, <2>3
<1>16. Counted(st, got)
  <2>1. got \in [Index -> Nat] /\ \A k \in Index : got[k] <= 1 BY <1>1 DEF Counted
  <2> QED BY <1>10, <1>15, <2>1 DEF Counted
<1>17. got[i] = 0
  <2>1. ~(SeqOf(i) < b.cursor) /\ SeqOf(i) \notin Seqs(b.held) BY <1>2 DEF IsDuplicate
  <2>2. \A h \in b.held : h.id # i BY <1>8, <1>14, <2>1 DEF Seqs
  <2> QED BY <1>15, <2>1, <2>2
<1>t. Top(st, got)
  <2>1. p.id = i /\ p \in st.held BY <1>10, <1>11
  <2>2. st.maxSeq = Max({b.maxSeq, SeqOf(i)}) BY <1>7 DEF Ingested
  <2>3. st.maxSeq \in {b.maxSeq, SeqOf(i)}
    <3>1. b.maxSeq \in Int /\ SeqOf(i) \in Int BY <1>6, <1>13 DEF StreamStates
    <3> QED BY <2>2, <3>1, MaxTwo
  <2>4. CASE st.maxSeq = SeqOf(i) BY <2>1, <2>4 DEF Top
  <2>5. CASE st.maxSeq = b.maxSeq /\ b.maxSeq # SeqOf(i)
    <3>1. InClamp(i) BY <1>3, <2>5 DEF BaseOf
    <3>2. b.maxSeq = s.maxSeq /\ b.held = s.held BY <1>3, <3>1 DEF BaseOf
    <3> QED BY <1>1, <1>10, <2>5, <3>2 DEF Top
  <2> QED BY <2>3, <2>4, <2>5
<1>18. /\ \A k \in e : FrameMode /\ got[k] = 0 /\ \E h \in st.held : h.id = k
       /\ \A h \in st.held : FrameMode => got[h.id] # 0 \/ h.id \in e
  BY <1>1, <1>5, <1>8, <1>10, <1>11, <1>17
<1>19. /\ Outcome /\ Passed(s', st, t)
       /\ \A h \in st.held : h \notin s'.held => got'[h.id] # 0
       /\ \A h \in s'.held : FrameMode => got'[h.id] # 0
  BY <1>2, <1>9, <1>10, <1>12, <1>16, <1>18, <1>t, SettleStep
<1>20. s'.held \subseteq st.held /\ s'.firstClamp = 0 BY <1>10, <1>19 DEF Passed
<1>21. \A h \in s'.held : h \in s.held \/ h.at = now BY <1>8, <1>10, <1>11, <1>20
<1>22. InClamp(i) => \A h \in s.held : h \notin s'.held => got'[h.id] # 0
  BY <1>6, <1>10, <1>19
<1>23. p \in st.held /\ (FrameMode => got'[i] # 0)
       /\ (got'[i] # 0 \/ \E h \in s'.held : h.at = now)
  BY <1>10, <1>11, <1>19
<1>24. ASSUME ~InClamp(i) PROVE got'[i] # 0
  <2>1. b.cursor = SeqOf(i) BY <1>3, <1>24 DEF BaseOf
  <2>2. SeqOf(i) \in Seqs(st.held)
    <3>1. p.seq = SeqOf(i) BY DEF p, Copy
    <3> QED BY <1>23, <3>1 DEF Seqs
  <2>3. st.cursor < CursorStop(st, t) BY <1>1, <1>10, <2>1, <2>2, FirstPasses
  <2>4. p.seq = SeqOf(i) BY DEF p, Copy
  <2>5. st.cursor = SeqOf(i) /\ st.cursor \in Nat BY <1>10, <1>12, <2>1
  <2>6. s'.cursor = CursorStop(st, t) /\ s'.cursor \in Nat
    <3>1. s' \in StreamStates /\ s'.cursor = CursorStop(st, t) BY <1>19 DEF Passed
    <3> QED BY <3>1 DEF StreamStates
  <2>7. ~(s'.cursor <= p.seq) BY <2>3, <2>4, <2>5, <2>6
  <2>8. p \notin s'.held BY <1>19, <2>7 DEF Passed
  <2> QED BY <1>11, <1>19, <1>23, <2>8
<1> QED BY <1>2, <1>17, <1>19, <1>20, <1>21, <1>22, <1>23, <1>24

\* The two ways a packet is heard and kept out.
LEMMA HeardStep ==
  ASSUME FlowInv, NEW a \in Adapters, NEW i \in Index, NEW t \in Stamps, NEW bad \in Mismatch,
         Rejected(i, t, bad) \/ Duplicate(a, i, t, bad)
  PROVE  /\ Outcome /\ s'.held = s.held /\ s'.cursor = s.cursor /\ s'.maxBlock = s.maxBlock
         /\ \/ /\ lastPass' = lastPass /\ ~InClamp(i) /\ ~StormOver(t)
               /\ s.firstClamp = 0 => s'.firstClamp = t
               /\ s.firstClamp # 0 => s'.firstClamp = s.firstClamp
            \/ /\ lastPass' = now /\ s'.firstClamp = 0
               /\ SeqOf(i) < s.cursor \/ \E h \in s.held : h.seq = SeqOf(i)
<1>1. /\ setup \in Setups /\ now \in Nat /\ s \in StreamStates /\ Window(s)
  BY DEF FlowInv, StreamInv
<1>2. Mismatch \subseteq BOOLEAN BY <1>1, SetupFacts
<1>3. t \in Int
  <2>1. ClockStep \in Nat BY <1>1, SetupFacts
  <2> QED BY <1>1, <2>1 DEF Stamps
<1>4. CASE Rejected(i, t, bad)
  <2> DEFINE fc == IF s.firstClamp = NoStorm THEN t ELSE s.firstClamp
             be == s.bestEffort \/ bad
  <2>1. /\ s' = [s EXCEPT !.firstClamp = fc, !.bestEffort = be] /\ got' = got /\ lastOut' = lastOut
        /\ lastPass' = lastPass /\ ~InClamp(i) /\ ~StormOver(t)
    BY <1>4 DEF Rejected, NothingOut
  <2>2. fc \in Int /\ (s.firstClamp = 0 => fc = t) /\ (s.firstClamp # 0 => fc = s.firstClamp)
    BY <1>1, <1>3 DEF StreamStates, NoStorm
  <2>3. be \in BOOLEAN OBVIOUS
  <2>4. ~be => ~s.bestEffort OBVIOUS
  <2> HIDE DEF fc, be
  <2>5. s' \in StreamStates BY <1>1, <2>1, <2>2, <2>3 DEF StreamStates
  <2>6. /\ s'.cursor = s.cursor /\ s'.maxSeq = s.maxSeq /\ s'.maxBlock = s.maxBlock
        /\ s'.held = s.held /\ s'.gaps = s.gaps /\ s'.blocks = s.blocks /\ s'.firstClamp = fc
    BY <1>1, <2>1 DEF StreamStates
  <2>7. s'.bestEffort = be BY <1>1, <2>1 DEF StreamStates
  <2>8. Outcome BY <2>1, <2>4, <2>5, <2>6, <2>7, SameStep
  <2> QED BY <2>1, <2>2, <2>6, <2>8
<1>5. CASE Duplicate(a, i, t, bad)
  <2> DEFINE b == Base(i, bad)
  <2>1. /\ s' = HeardOn(b, a, i) /\ got' = got /\ lastOut' = lastOut /\ lastPass' = now
        /\ IsDuplicate(b, i)
    BY <1>5 DEF Duplicate, NothingOut
  <2>2. BaseOf(b, i) BY <1>1, <1>2, BaseFields
  <2> HIDE DEF b
  <2>3. InClamp(i) BY <2>1, <2>2 DEF BaseOf
  <2>4. /\ b \in StreamStates /\ b.firstClamp = 0 /\ (~b.bestEffort => ~s.bestEffort)
        /\ b.cursor = s.cursor /\ b.maxSeq = s.maxSeq /\ b.maxBlock = s.maxBlock
        /\ b.held = s.held /\ b.gaps = s.gaps /\ b.blocks = s.blocks
    BY <2>2, <2>3 DEF BaseOf
  <2>5. s' \in StreamStates /\ SameWindow(s', b) /\ s'.gaps = b.gaps /\ s'.firstClamp = 0
    BY <1>1, <2>1, <2>4, HeardOnFields
  <2>6. /\ s'.cursor = s.cursor /\ s'.maxSeq = s.maxSeq /\ s'.maxBlock = s.maxBlock
        /\ s'.held = s.held /\ s'.gaps = s.gaps /\ s'.blocks = s.blocks
        /\ (~s'.bestEffort => ~s.bestEffort)
    BY <2>4, <2>5 DEF SameWindow
  <2>7. Outcome BY <2>1, <2>5, <2>6, SameStep
  <2>8. SeqOf(i) < s.cursor \/ \E h \in s.held : h.seq = SeqOf(i)
    BY <2>1, <2>4 DEF IsDuplicate, Seqs
  <2> QED BY <2>1, <2>5, <2>6, <2>7, <2>8
<1> QED BY <1>4, <1>5

\* The same of the next state.
LEMMA OutcomeNext ==
  ASSUME Outcome, setup' = setup, now' = now
  PROVE  /\ (s \in StreamStates)' /\ Window(s)' /\ Genuine(s)' /\ Clocks(s)' /\ Counted(s, got)'
         /\ LastBelow(s, lastOut)' /\ Top(s, got)' /\ (FirstSeq <= s.cursor)'
         /\ (\A h \in s.held : FrameMode => got[h.id] # 0)'
<1>1. /\ s' \in StreamStates /\ Window(s') /\ Genuine(s') /\ Clocks(s')
      /\ Counted(s', got') /\ LastBelow(s', lastOut') /\ Top(s', got') /\ FirstSeq <= s'.cursor
      /\ \A h \in s'.held : FrameMode => got'[h.id] # 0
  BY DEF Outcome
<1>2. Packets' = Packets /\ FirstSeq' = FirstSeq /\ FrameMode' = FrameMode /\ Index' = Index
      /\ ClampPkts' = ClampPkts /\ Longest' = Longest
  BY DEF Packets, FirstSeq, FrameMode, Index, ClampPkts, Longest, Budgets
<1>3. Window(s)' BY <1>1, <1>2 DEF Window
<1>4. Genuine(s)' BY <1>1, <1>2 DEF Genuine, SeqOf
<1>5. Clocks(s)' BY <1>1, <1>2 DEF Clocks
<1>6. Counted(s, got)' BY <1>1, <1>2 DEF Counted, SeqOf
<1>7. LastBelow(s, lastOut)' BY <1>1, <1>2 DEF LastBelow, SeqOf
<1>8. (s \in StreamStates)' BY <1>1 DEF StreamStates
<1>9. Top(s, got)' BY <1>1, <1>2 DEF Top, SeqOf
<1> QED BY <1>1, <1>2, <1>3, <1>4, <1>5, <1>6, <1>7, <1>8, <1>9

\* The stream the first packet opens.
LEMMA FlowStart ==
  ASSUME NoWrap, StreamInit
  PROVE  FlowInv /\ s.held = {} /\ s.firstClamp = 0
<1>1. PICK st, a, bad, budget :
         /\ setup \in Setups /\ now \in Nat /\ budget \in Budgets
         /\ \E b \in StreamStates :
              /\ Window(b) /\ Ingested(st, b, 1, now, budget) /\ b.cursor = SeqOf(1)
              /\ b.maxSeq = SeqOf(1) /\ b.maxBlock = Packets[1].block /\ b.firstClamp = 0
              /\ b.held = {} /\ b.gaps = {} /\ b.blocks = {}
         /\ s = AdvanceCursor(st, now)
  BY FirstWindow
<1>2. PICK b \in StreamStates :
              /\ Window(b) /\ Ingested(st, b, 1, now, budget) /\ b.cursor = SeqOf(1)
              /\ b.maxSeq = SeqOf(1) /\ b.maxBlock = Packets[1].block /\ b.firstClamp = 0
              /\ b.held = {} /\ b.gaps = {} /\ b.blocks = {}
  BY <1>1
<1>3. 1 \in Index /\ SeqOf(1) \in Nat /\ SeqOf(1) = FirstSeq /\ SeqOf(1) + 1 < StreamSeqSpace
      /\ FirstSeq \in Nat /\ StreamSeqSpace \in Nat
  <2>1. 1 \in Index /\ SeqOf(1) = FirstSeq /\ StreamSeqSpace \in Nat BY <1>1, SetupFacts
  <2>2. SeqOf(1) \in Nat /\ SeqOf(1) + 1 < StreamSeqSpace BY <1>1, <2>1, Numbers
  <2> QED BY <2>1, <2>2
<1>4. Genuine(b) BY <1>2, <1>3 DEF Genuine
<1>5. Clocks(b) BY <1>2 DEF Clocks
<1>6. Genuine(st) /\ Clocks(st)
  <2>1. now \in Int /\ now <= now BY <1>1
  <2> QED BY <1>1, <1>2, <1>3, <1>4, <1>5, <2>1, IngestKeepsClocks
<1>7. /\ st \in StreamStates /\ Window(st) /\ st.cursor = SeqOf(1) /\ st.held = {Copy(1)}
      /\ st.firstClamp = 0
  BY <1>2 DEF Ingested
<1>8. Passed(s, st, now) BY <1>1, <1>6, <1>7, AdvanceKeepsClocks
<1>9. /\ s \in StreamStates /\ Window(s) /\ Genuine(s) /\ Clocks(s)
      /\ s.cursor = CursorStop(st, now) /\ st.cursor <= s.cursor /\ s.firstClamp = 0
      /\ \A h : h \in s.held <=> (h \in st.held /\ s.cursor <= h.seq)
  BY <1>7, <1>8 DEF Passed
<1>10. Copy(1).seq = SeqOf(1) BY DEF Copy
<1>11. SeqOf(1) < s.cursor /\ s.cursor \in Nat
  <2>1. st.cursor \in Seqs(st.held) BY <1>7, <1>10 DEF Seqs
  <2>2. st.cursor < s.cursor BY <1>1, <1>7, <1>9, <2>1, FirstPasses
  <2> QED BY <1>7, <1>9, <2>2 DEF StreamStates
<1>12. s.held = {} BY <1>3, <1>7, <1>9, <1>10, <1>11
<1>13. /\ got = [i \in Index |-> IF i = 1 THEN 1 ELSE 0] /\ lastOut \in {0, 1}
       /\ lastPass = now /\ tickBy = now + TickGap /\ pos \in [Adapters -> Nat]
  BY DEF StreamInit
<1>14. Counted(s, got)
  <2>1. got \in [Index -> Nat] BY <1>13
  <2>2. \A i \in Index : got[i] <= 1 /\ (got[i] # 0 => i = 1) BY <1>13
  <2> QED BY <1>11, <2>1, <2>2 DEF Counted
<1>15. LastBelow(s, lastOut) BY <1>3, <1>11, <1>13 DEF LastBelow
<1>t. Top(s, got)
  <2>1. s.maxSeq = st.maxSeq BY <1>8 DEF Passed
  <2>2. st.maxSeq = Max({b.maxSeq, SeqOf(1)}) BY <1>2 DEF Ingested
  <2>3. SeqOf(1) \in Int BY <1>3
  <2>4. st.maxSeq = SeqOf(1) BY <1>2, <2>2, <2>3, MaxTwo
  <2>5. got[1] # 0 BY <1>3, <1>13
  <2> QED BY <1>3, <2>1, <2>4, <2>5 DEF Top
<1>16. TickGap \in Nat /\ ClockStep \in Nat BY <1>1, SetupFacts
<1>17. tickBy \in Int /\ now <= tickBy /\ tickBy <= now + TickGap /\ lastPass \in Int /\ lastPass <= now
  BY <1>1, <1>13, <1>16
<1>18. FirstSeq <= s.cursor BY <1>3, <1>11
<1> QED BY <1>1, <1>9, <1>12, <1>13, <1>14, <1>15, <1>17, <1>18, <1>t DEF FlowInv, StreamInv

\* No block number jumps further than the clamp allows: a sender numbers its blocks
\* consecutively, and the clamp is several blocks wide.
SmallSteps ==
  \A x \in Setups : \A i \in DOMAIN x.packets :
    i + 1 \in DOMAIN x.packets => x.packets[i + 1].block <= x.packets[i].block + x.clampBlocks

\* The one packet due.
LEMMA DuePlausible ==
  ASSUME NoWrap, SmallSteps, FlowInv, s.cursor > s.maxSeq, NEW i \in Index, i = lastOut + 1
  PROVE  InClamp(i)
<1>1. /\ setup \in Setups /\ s \in StreamStates /\ Genuine(s) /\ LastBelow(s, lastOut)
      /\ Window(s) /\ FirstSeq <= s.cursor
  BY DEF FlowInv, StreamInv
<1>2. PICK j \in Index : s.maxSeq = SeqOf(j) /\ s.maxBlock = Packets[j].block BY <1>1 DEF Genuine
<1>3. s.cursor \in Nat /\ s.maxSeq \in Nat /\ s.cursor <= s.maxSeq + 1
  BY <1>1 DEF StreamStates, Window
<1>4. \A k \in Index : k \in Nat /\ SeqOf(k) \in Nat /\ SeqOf(k) = FirstSeq + k - 1
  BY <1>1, Numbers
<1>5. /\ FirstSeq \in Nat /\ ClampPkts \in Nat /\ FwdClampBlocks \in Nat
      /\ \A k \in Index : Packets[k].block \in Nat /\ k >= 1
  <2>1. FirstSeq \in Nat /\ ClampPkts \in Nat /\ FwdClampBlocks \in Nat BY <1>1, SetupFacts
  <2>2. \A k \in Index : k >= 1 BY <1>1, SetupFacts
  <2>3. \A k \in Index : Packets[k].block \in Nat BY <1>1, SetupFacts
  <2> QED BY <2>1, <2>2, <2>3
<1>6. SeqOf(i) <= s.cursor
  <2>1. CASE lastOut = 0
    <3>1. i = 1 BY <2>1
    <3>2. SeqOf(i) = FirstSeq BY <1>4, <1>5, <3>1
    <3> QED BY <1>1, <3>2
  <2>2. CASE lastOut \in Index /\ SeqOf(lastOut) < s.cursor
    <3>1. SeqOf(lastOut) = FirstSeq + lastOut - 1 /\ SeqOf(i) = FirstSeq + i - 1 /\ lastOut \in Nat
      BY <1>4, <2>2
    <3> QED BY <1>3, <1>5, <2>2, <3>1
  <2> QED BY <1>1, <2>1, <2>2 DEF LastBelow
<1>7. SeqOf(i) <= SeqOf(j) + 1 BY <1>2, <1>3, <1>4, <1>6
<1>8. Packets[i].block <= s.maxBlock \/ Packets[i].block - s.maxBlock <= FwdClampBlocks
  <2>1. CASE SeqOf(i) <= SeqOf(j) BY <1>1, <1>2, <2>1, Numbers
  <2>2. CASE ~(SeqOf(i) <= SeqOf(j))
    <3>1. i = j + 1
      <4>1. SeqOf(i) = FirstSeq + i - 1 /\ SeqOf(j) = FirstSeq + j - 1 /\ i \in Nat /\ j \in Nat
        BY <1>4
      <4> QED BY <1>5, <1>7, <2>2, <4>1
    <3>2. Packets[j + 1].block <= Packets[j].block + FwdClampBlocks
      BY <1>1, <3>1 DEF SmallSteps, Packets, Index, FwdClampBlocks
    <3>3. Packets[i].block \in Nat /\ Packets[j].block \in Nat BY <1>5
    <3>4. Packets[i].block <= s.maxBlock + FwdClampBlocks BY <1>2, <3>1, <3>2
    <3> QED BY <1>2, <1>5, <3>3, <3>4
  <2> QED BY <2>1, <2>2
<1> QED BY <1>6, <1>8 DEF InClamp, Plausible

\* What each step may do: hand over in order, flush only a window nothing passed for the
\* resync period, and let through the packet that is due.
StepInOrder == \A i \in Index : (got'[i] # got[i] /\ ~FrameMode) => i > lastOut
StepEarned ==
  (\E h \in s.held : h.seq \notin Seqs(s'.held) /\ got'[h.id] = 0)
    => now - lastPass >= ClampResync - ClockStep
StepUnclamped ==
  \A a \in Adapters :
    (s.cursor > s.maxSeq /\ pos'[a] # pos[a] /\ pos'[a] = lastOut + 1) => s'.firstClamp = NoStorm

\* The invariant is kept, and the step is one of those.
LEMMA FlowStep ==
  ASSUME NoWrap, FlowInv, StreamNext
  PROVE  FlowInv' /\ StepInOrder /\ StepEarned /\ (SmallSteps => StepUnclamped)
<1>1. /\ setup \in Setups /\ now \in Nat /\ s \in StreamStates /\ Window(s) /\ Genuine(s)
      /\ Clocks(s) /\ pos \in [Adapters -> Nat]
      /\ tickBy \in Int /\ now <= tickBy /\ tickBy <= now + TickGap
      /\ lastPass \in Int /\ lastPass <= now
      /\ s.firstClamp # 0 => lastPass - ClockStep <= s.firstClamp
      /\ \A h \in s.held : tickBy <= h.at + Longest + ClockStep + TickGap
  BY DEF FlowInv, StreamInv
<1>2. /\ TickGap \in Nat /\ ClockStep \in Nat /\ Longest \in Nat /\ ClampResync \in Nat
      /\ s.firstClamp \in Int
  <2>1. TickGap \in Nat /\ ClockStep \in Nat /\ ClampResync \in Nat BY <1>1, SetupFacts
  <2>2. Longest \in Nat BY <1>1, LongestFacts
  <2>3. s.firstClamp \in Int BY <1>1 DEF StreamStates
  <2> QED BY <2>1, <2>2, <2>3
<1>3. \A t \in Stamps : t \in Int /\ t <= now /\ now - ClockStep <= t
  BY <1>1, <1>2 DEF Stamps
<1>4. ASSUME Outcome, setup' = setup, now' = now, pos' \in [Adapters -> Nat],
             tickBy' \in Int, now <= tickBy', tickBy' <= now + TickGap,
             \A h \in s'.held : tickBy' <= h.at + Longest + ClockStep + TickGap,
             lastPass' \in Int, lastPass' <= now,
             s'.firstClamp # 0 => lastPass' - ClockStep <= s'.firstClamp
      PROVE  FlowInv'
  <2>1. /\ (s \in StreamStates)' /\ Window(s)' /\ Genuine(s)' /\ Clocks(s)' /\ Counted(s, got)'
        /\ LastBelow(s, lastOut)' /\ Top(s, got)' /\ (FirstSeq <= s.cursor)'
        /\ (\A h \in s.held : FrameMode => got[h.id] # 0)'
    BY <1>4, OutcomeNext
  <2>2. Longest' = Longest /\ ClockStep' = ClockStep
    BY <1>4 DEF Longest, Budgets, ClockStep
  <2>3. StreamInv' BY <1>1, <1>4, <2>1 DEF StreamInv
  <2> QED BY <1>4, <2>1, <2>2, <2>3 DEF FlowInv
<1>5. ASSUME \A h \in s.held : h \notin s'.held => got'[h.id] # 0
      PROVE  StepEarned
  BY <1>5 DEF StepEarned, Seqs
<1>6. ASSUME NEW a \in Adapters, NEW i \in Index, NEW t \in Stamps, OnData(a, i, t)
      PROVE  FlowInv' /\ StepInOrder /\ StepEarned /\ (SmallSteps => StepUnclamped)
  <2>1. /\ setup' = setup /\ now' = now /\ tickBy' = tickBy /\ pos' = [pos EXCEPT ![a] = i]
    BY <1>6 DEF OnData
  <2>2. i \in Nat BY <1>1, SetupFacts
  <2>3. pos' \in [Adapters -> Nat] BY <1>1, <2>1, <2>2
  <2>4. PICK bad \in Mismatch :
          \/ Rejected(i, t, bad) \/ Duplicate(a, i, t, bad)
          \/ \E budget \in Budgets, complete \in BOOLEAN : FirstCopy(a, i, t, budget, bad, complete)
    BY <1>6 DEF OnData
  <2>5. ASSUME InClamp(i) => s'.firstClamp = 0, SmallSteps
        PROVE  StepUnclamped
    <3> SUFFICES ASSUME NEW c \in Adapters, s.cursor > s.maxSeq, pos'[c] # pos[c],
                        pos'[c] = lastOut + 1
                 PROVE  s'.firstClamp = NoStorm
      BY DEF StepUnclamped
    <3>1. c = a /\ i = lastOut + 1 BY <1>1, <2>1
    <3>2. InClamp(i) BY <2>5, <3>1, DuePlausible
    <3> QED BY <2>5, <3>2 DEF NoStorm
  <2>6. CASE Rejected(i, t, bad) \/ Duplicate(a, i, t, bad)
    <3>1. /\ Outcome /\ s'.held = s.held
          /\ \/ /\ lastPass' = lastPass /\ ~InClamp(i)
                /\ s.firstClamp = 0 => s'.firstClamp = t
                /\ s.firstClamp # 0 => s'.firstClamp = s.firstClamp
             \/ lastPass' = now /\ s'.firstClamp = 0
      BY <2>6, HeardStep
    <3>2. lastPass' \in Int /\ lastPass' <= now BY <1>1, <3>1
    <3>3. s'.firstClamp # 0 => lastPass' - ClockStep <= s'.firstClamp
      BY <1>1, <1>2, <1>3, <3>1
    <3>4. FlowInv' BY <1>1, <1>4, <2>1, <2>3, <3>1, <3>2, <3>3
    <3>5. StepEarned BY <1>5, <3>1
    <3>6. StepInOrder BY <3>1 DEF Outcome, StepInOrder
    <3> QED BY <2>5, <3>1, <3>4, <3>5, <3>6
  <2>7. ASSUME NEW budget \in Budgets, NEW complete \in BOOLEAN,
               FirstCopy(a, i, t, budget, bad, complete)
        PROVE  FlowInv' /\ StepInOrder /\ StepEarned /\ (SmallSteps => StepUnclamped)
    <3>1. /\ Outcome /\ (\A h \in s'.held : h \in s.held \/ h.at = now) /\ s'.firstClamp = 0
          /\ InClamp(i) => \A h \in s.held : h \notin s'.held => got'[h.id] # 0
          /\ lastPass' = now /\ Accepted(i, t)
      BY <2>7, CopyStep
    <3>2. \A h \in s'.held : tickBy' <= h.at + Longest + ClockStep + TickGap
      <4> TAKE h \in s'.held
      <4>1. CASE h \in s.held BY <1>1, <2>1, <4>1
      <4>2. CASE h.at = now BY <1>1, <1>2, <2>1, <4>2
      <4> QED BY <3>1, <4>1, <4>2
    <3>3. FlowInv' BY <1>1, <1>4, <2>1, <2>3, <3>1, <3>2
    <3>4. StepEarned
      <4>1. CASE InClamp(i) BY <1>5, <3>1, <4>1
      <4>2. CASE ~InClamp(i)
        <5>1. s.firstClamp # 0 /\ t - s.firstClamp >= ClampResync
          BY <3>1, <4>2 DEF Accepted, StormOver, NoStorm
        <5>2. now - lastPass >= ClampResync - ClockStep BY <1>1, <1>2, <1>3, <5>1
        <5> QED BY <5>2 DEF StepEarned
      <4> QED BY <4>1, <4>2
    <3>5. StepInOrder BY <3>1 DEF Outcome, StepInOrder
    <3> QED BY <2>5, <3>1, <3>3, <3>4, <3>5
  <2> QED BY <2>4, <2>6, <2>7
<1>7. ASSUME NEW st \in StreamStates, SameWindow(st, s), SameGaps(st, s),
             st.firstClamp = s.firstClamp, NEW t, Settle(st, t, {}),
             setup' = setup, now' = now, pos' = pos, lastPass' = lastPass,
             tickBy' \in Int, now <= tickBy', tickBy' <= now + TickGap,
             \A h \in s'.held : h \in s.held => tickBy' <= h.at + Longest + ClockStep + TickGap
      PROVE  FlowInv' /\ StepInOrder /\ StepEarned /\ StepUnclamped
  <2>1. /\ Outcome /\ s'.held \subseteq s.held /\ s'.firstClamp = s.firstClamp
        /\ \A h \in s.held : h \notin s'.held => got'[h.id] # 0
    BY <1>7, PassStep
  <2>2. FlowInv' BY <1>1, <1>4, <1>7, <2>1
  <2>3. StepInOrder BY <2>1 DEF Outcome, StepInOrder
  <2>4. StepUnclamped BY <1>7 DEF StepUnclamped
  <2> QED BY <1>5, <2>1, <2>2, <2>3, <2>4
<1>8. ASSUME NEW t \in Stamps, NEW b \in {Packets[i].block : i \in Index}, CompleteFrame(b, t)
      PROVE  FlowInv' /\ StepInOrder /\ StepEarned /\ StepUnclamped
  <2> DEFINE mc == MarkComplete(s, b)
             rx == lastRx
             st == EvaluateGaps(mc, rx, t)
  <2>1. /\ Settle(st, t, {}) /\ setup' = setup /\ now' = now /\ tickBy' = tickBy /\ pos' = pos
        /\ lastPass' = lastPass
    BY <1>8 DEF CompleteFrame
  <2>2. b \in Nat BY <1>1, SetupFacts
  <2>3. mc \in StreamStates /\ SameWindow(mc, s) /\ mc.firstClamp = s.firstClamp /\ SameGaps(mc, s)
    BY <1>1, <2>2, MarkCompleteFields
  <2> HIDE DEF mc, rx
  <2>4. st \in StreamStates /\ SameWindow(st, mc) /\ st.firstClamp = mc.firstClamp /\ SameGaps(st, mc)
    BY <2>3, EvaluateFields
  <2> HIDE DEF st
  <2>5. SameWindow(st, s) BY <2>3, <2>4 DEF SameWindow
  <2>6. SameGaps(st, s) BY <2>3, <2>4 DEF SameGaps
  <2> QED BY <1>1, <1>7, <2>1, <2>3, <2>4, <2>5, <2>6
<1>9. ASSUME NEW t \in Stamps, Tick(t)
      PROVE  FlowInv' /\ StepInOrder /\ StepEarned /\ StepUnclamped
  <2> DEFINE rx == lastRx
             st == EvaluateGaps(s, rx, t)
  <2>1. /\ Settle(st, t, {}) /\ setup' = setup /\ now' = now /\ tickBy' = now + TickGap /\ pos' = pos
        /\ lastPass' = lastPass
    BY <1>9 DEF Tick
  <2>2. s' = AdvanceCursor(st, t) BY <2>1 DEF Settle
  <2> HIDE DEF rx
  <2>3. st \in StreamStates /\ SameWindow(st, s) /\ st.firstClamp = s.firstClamp /\ SameGaps(st, s)
    BY <1>1, EvaluateFields
  <2>4. \A h \in s'.held : t <= h.at + Longest
    <3> TAKE h \in s'.held
    <3>1. t \in Int BY <1>3
    <3>2. h \in AdvanceCursor(st, t).held BY <2>2
    <3>3. st = EvaluateGaps(s, rx, t) OBVIOUS
    <3> HIDE DEF st
    <3> QED BY <1>1, <3>1, <3>2, <3>3, TickReleases
  <2> HIDE DEF st
  <2>5. \A h \in s'.held : h \in s.held => tickBy' <= h.at + Longest + ClockStep + TickGap
    <3> SUFFICES ASSUME NEW h \in s'.held, h \in s.held
                 PROVE  tickBy' <= h.at + Longest + ClockStep + TickGap
      OBVIOUS
    <3>1. h.at \in Nat BY <1>1 DEF StreamStates, HeldPackets
    <3>2. t <= h.at + Longest /\ t \in Int /\ now - ClockStep <= t BY <1>3, <2>4
    <3> QED BY <1>1, <1>2, <2>1, <3>1, <3>2
  <2>6. tickBy' \in Int /\ now <= tickBy' /\ tickBy' <= now + TickGap BY <1>1, <1>2, <2>1
  <2> QED BY <1>7, <2>1, <2>3, <2>5, <2>6
<1>10. ASSUME Advance
       PROVE  FlowInv' /\ StepInOrder /\ StepEarned /\ StepUnclamped
  <2>1. /\ now < tickBy /\ now' = now + 1 /\ setup' = setup /\ tickBy' = tickBy /\ pos' = pos
        /\ s' = s /\ got' = got /\ lastOut' = lastOut /\ lastPass' = lastPass
    BY <1>10 DEF Advance
  <2>2. Packets' = Packets /\ FirstSeq' = FirstSeq /\ FrameMode' = FrameMode /\ Index' = Index
        /\ ClampPkts' = ClampPkts /\ Longest' = Longest /\ ClockStep' = ClockStep
    BY <2>1 DEF Packets, FirstSeq, FrameMode, Index, ClampPkts, Longest, Budgets, ClockStep
  <2>3. StreamInv' BY <1>1, <2>1, <2>2 DEF StreamInv, Window
  <2>4. Genuine(s)' /\ Counted(s, got)' /\ LastBelow(s, lastOut)' /\ Top(s, got)'
        /\ (FirstSeq <= s.cursor)' /\ (\A h \in s.held : FrameMode => got[h.id] # 0)'
    BY <2>1, <2>2 DEF FlowInv, Genuine, Counted, LastBelow, Top, SeqOf
  <2>5. Clocks(s)'
    <3>1. \A g \in s.gaps : g.since \in Int BY <1>1 DEF StreamStates, GapNotes
    <3>2. \A b \in s.blocks : b.first \in Int BY <1>1 DEF StreamStates, BlockClocks
    <3>3. \A x \in Int : x <= now => x <= now' BY <1>1, <2>1
    <3> QED BY <1>1, <2>1, <2>2, <3>1, <3>2, <3>3 DEF Clocks
  <2>6. /\ tickBy' \in Int /\ now' <= tickBy' /\ tickBy' <= now' + TickGap
        /\ lastPass' \in Int /\ lastPass' <= now'
    BY <1>1, <1>2, <2>1
  <2>7. FlowInv' BY <1>1, <2>1, <2>2, <2>3, <2>4, <2>5, <2>6 DEF FlowInv
  <2> QED BY <1>5, <2>1, <2>7 DEF StepInOrder, StepUnclamped
<1> QED BY <1>6, <1>8, <1>9, <1>10 DEF StreamNext

\* Nothing waits behind a gap longer than the longest policy and a tick, nothing is
\* delivered twice, and the window is exact (RxStream!WindowSound), on every traffic that
\* ends before the wrap, whatever the air and the adapters do (rx.cpp ingest,
\* evaluate_gaps and advance_cursor).
THEOREM WindowAlwaysSound == NoWrap => (StreamSpec => []WindowSound)
<1> SUFFICES ASSUME NoWrap PROVE StreamSpec => []WindowSound OBVIOUS
<1>1. StreamInit => FlowInv BY FlowStart
<1>2. FlowInv /\ [StreamNext]_streamVars => FlowInv'
  <2> SUFFICES ASSUME FlowInv, [StreamNext]_streamVars PROVE FlowInv' OBVIOUS
  <2>1. CASE StreamNext BY <2>1, FlowStep
  <2>2. CASE UNCHANGED streamVars
    BY <2>2 DEF streamVars, FlowInv, StreamInv, Window, Genuine, Clocks, Counted, LastBelow, Top, SeqOf,
                Packets, FirstSeq, FrameMode, Index, ClampPkts, Longest, Budgets, ClockStep
  <2> QED BY <2>1, <2>2
<1>3. FlowInv => HeldBounded /\ DeliveredOnce
  <2> SUFFICES ASSUME FlowInv PROVE HeldBounded /\ DeliveredOnce OBVIOUS
  <2>1. /\ setup \in Setups /\ now \in Nat /\ s \in StreamStates
        /\ tickBy \in Int /\ now <= tickBy
        /\ \A h \in s.held : tickBy <= h.at + Longest + ClockStep + TickGap
    BY DEF FlowInv, StreamInv
  <2>2. TickGap \in Nat /\ ClockStep \in Nat /\ Longest \in Nat
    BY <2>1, SetupFacts, LongestFacts
  <2>3. \A h \in s.held : h.at \in Nat BY <2>1 DEF StreamStates, HeldPackets
  <2>4. \A h \in s.held : now - h.at <= Longest + TickGap + ClockStep BY <2>1, <2>2, <2>3
  <2>5. HeldBounded BY <2>4 DEF HeldBounded, Longest
  <2>6. DeliveredOnce BY DEF DeliveredOnce, FlowInv, Counted
  <2> QED BY <2>5, <2>6
<1>4. StreamSpec => [](HeldBounded /\ DeliveredOnce) BY <1>1, <1>2, <1>3, PTL DEF StreamSpec
<1>5. WindowExact /\ (HeldBounded /\ DeliveredOnce) => WindowSound BY DEF WindowSound
<1> QED BY <1>4, <1>5, WindowAlwaysExact, PTL

\* Packets go to a UDP egress in the order they were sent, a window is only flushed when
\* nothing passed the clamp for the resync period, and the packet that is due is never
\* clamped (RxStream!MovesSound), on every traffic that ends before the wrap and whose
\* block numbers step by no more than the clamp (rx.cpp advance_cursor, clamp, resync).
THEOREM MovesAlwaysSound == NoWrap /\ SmallSteps => (StreamSpec => MovesSound)
<1> SUFFICES ASSUME NoWrap, SmallSteps PROVE StreamSpec => MovesSound OBVIOUS
<1>1. StreamInit => FlowInv BY FlowStart
<1>2. FlowInv /\ [StreamNext]_streamVars
        => FlowInv' /\ [StepInOrder]_streamVars /\ [StepUnclamped]_streamVars /\ [StepEarned]_streamVars
  <2> SUFFICES ASSUME FlowInv, [StreamNext]_streamVars
               PROVE  FlowInv' /\ [StepInOrder]_streamVars /\ [StepUnclamped]_streamVars
                      /\ [StepEarned]_streamVars
    OBVIOUS
  <2>1. CASE StreamNext BY <2>1, FlowStep
  <2>2. CASE UNCHANGED streamVars
    <3>1. FlowInv'
      BY <2>2 DEF streamVars, FlowInv, StreamInv, Window, Genuine, Clocks, Counted, LastBelow, Top, SeqOf,
                  Packets, FirstSeq, FrameMode, Index, ClampPkts, Longest, Budgets, ClockStep
    <3> QED BY <2>2, <3>1
  <2> QED BY <2>1, <2>2
<1>3. StreamSpec => [][StepInOrder]_streamVars /\ [][StepUnclamped]_streamVars
                    /\ [][StepEarned]_streamVars
  BY <1>1, <1>2, PTL DEF StreamSpec
<1>4. [][StepInOrder]_streamVars => InOrder BY PTL DEF StepInOrder, InOrder
<1>5. [][StepUnclamped]_streamVars => NoNeedlessClamp BY PTL DEF StepUnclamped, NoNeedlessClamp
<1>6. [][StepEarned]_streamVars => ResyncEarned BY PTL DEF StepEarned, ResyncEarned
<1> QED BY <1>3, <1>4, <1>5, <1>6, PTL DEF MovesSound

\* The newest packet delivered.
LEMMA NewestFacts ==
  ASSUME setup \in Setups, got \in [Index -> Nat]
  PROVE  NewestOut \in Nat /\ \A k \in Index : got[k] # 0 => k <= NewestOut
<1> DEFINE S == {0} \cup {i \in Index : got[i] > 0}
           n == Len(Packets)
<1>1. n \in Nat /\ Index = 1 .. n BY SetupFacts
<1> HIDE DEF n
<1>2. S \in SUBSET Nat /\ S # {} /\ \A x \in S : x <= n BY <1>1
<1>3. \E x \in S : \A y \in S : x >= y
  <2> HIDE DEF S
  <2> QED BY <1>1, <1>2, GreatestNat
<1>4. NewestOut \in S /\ \A y \in S : NewestOut >= y BY <1>3 DEF NewestOut, Max
<1>5. ASSUME NEW k \in Index, got[k] # 0 PROVE k <= NewestOut
  <2>1. got[k] \in Nat BY <1>1
  <2>2. k \in S BY <1>5, <2>1
  <2>3. k \in Nat /\ NewestOut \in Nat /\ NewestOut >= k BY <1>2, <1>4, <2>2
  <2> QED BY <2>3
<1> QED BY <1>2, <1>4, <1>5

\* A fresh packet is no duplicate, on an egress that takes packets early or with nothing
\* held; and with nothing held the cursor has passed everything.
LEMMA FreshUnseen ==
  ASSUME NoWrap, FlowInv, FrameMode \/ s.held = {}
  PROVE  /\ \A i \in Index : i > NewestOut =>
              ~(SeqOf(i) < s.cursor \/ \E h \in s.held : h.seq = SeqOf(i))
         /\ s.held = {} => s.cursor = s.maxSeq + 1
<1>1. /\ setup \in Setups /\ s \in StreamStates /\ Genuine(s) /\ Top(s, got) /\ Counted(s, got)
      /\ Window(s) /\ \A h \in s.held : FrameMode => got[h.id] # 0
  BY DEF FlowInv, StreamInv
<1>2. got \in [Index -> Nat] BY <1>1 DEF Counted
<1>3. NewestOut \in Nat /\ \A k \in Index : got[k] # 0 => k <= NewestOut BY <1>1, <1>2, NewestFacts
<1>4. PICK j \in Index : s.maxSeq = SeqOf(j) /\ (got[j] # 0 \/ \E h \in s.held : h.id = j)
  BY <1>1 DEF Top
<1>5. got[j] # 0 BY <1>1, <1>4
<1>6. s.cursor \in Nat /\ s.maxSeq \in Nat /\ s.cursor <= s.maxSeq + 1
  BY <1>1 DEF StreamStates, Window
<1>7. \A k \in Index : SeqOf(k) \in Nat /\ k \in Nat BY <1>1, Numbers
<1>8. ASSUME NEW i \in Index, i > NewestOut
      PROVE  ~(SeqOf(i) < s.cursor \/ \E h \in s.held : h.seq = SeqOf(i))
  <2>1. j < i BY <1>3, <1>5, <1>7, <1>8
  <2>2. SeqOf(j) < SeqOf(i) BY <1>1, <2>1, Numbers
  <2>3. ~(SeqOf(i) < s.cursor) BY <1>4, <1>6, <1>7, <2>2
  <2>4. ASSUME NEW h \in s.held, h.seq = SeqOf(i) PROVE FALSE
    <3>1. h.id \in Index /\ h.seq = SeqOf(h.id) BY <1>1 DEF Genuine
    <3>2. h.id = i BY <1>1, <2>4, <3>1, Numbers
    <3>3. got[i] # 0 BY <1>1, <3>2
    <3> QED BY <1>3, <1>7, <1>8, <3>3
  <2> QED BY <2>3, <2>4
<1>9. ASSUME s.held = {} PROVE s.cursor = s.maxSeq + 1
  <2>1. SeqOf(j) < s.cursor BY <1>1, <1>5, <1>9 DEF Counted
  <2> QED BY <1>4, <1>6, <2>1
<1> QED BY <1>8, <1>9

\* A packet the window st would clamp.
Clamped(st, i) == ~(/\ Plausible(st.cursor, SeqOf(i), ClampPkts)
                    /\ Plausible(st.maxBlock, Packets[i].block, FwdClampBlocks))

\* Behind a packet out of the clamp everything is.
LEMMA ClampMonotone ==
  ASSUME NoWrap, setup \in Setups, s \in StreamStates, NEW i \in Index, NEW j \in Index,
         ~Clamped(s, j), Clamped(s, i)
  PROVE  j < i /\ Packets[j].at <= Packets[i].at
<1>1. /\ s.cursor \in Nat /\ s.maxBlock \in Nat BY DEF StreamStates
<1>2. ClampPkts \in Nat /\ FwdClampBlocks \in Nat BY SetupFacts
<1>3. SeqOf(i) \in Nat /\ SeqOf(j) \in Nat /\ i \in Nat /\ j \in Nat BY Numbers
<1>4. Packets[i].block \in Nat /\ Packets[j].block \in Nat BY SetupFacts
<1>5. ASSUME SeqOf(i) <= SeqOf(j) PROVE FALSE
  <2>1. Packets[i].block <= Packets[j].block BY <1>5, Numbers
  <2>2. /\ SeqOf(j) <= s.cursor \/ SeqOf(j) - s.cursor <= ClampPkts
        /\ Packets[j].block <= s.maxBlock \/ Packets[j].block - s.maxBlock <= FwdClampBlocks
    BY DEF Clamped, Plausible
  <2>3. SeqOf(i) <= s.cursor \/ SeqOf(i) - s.cursor <= ClampPkts BY <1>1, <1>2, <1>3, <1>5, <2>2
  <2>4. Packets[i].block <= s.maxBlock \/ Packets[i].block - s.maxBlock <= FwdClampBlocks
    BY <1>1, <1>2, <1>4, <2>1, <2>2
  <2> QED BY <2>3, <2>4 DEF Clamped, Plausible
<1>6. SeqOf(j) < SeqOf(i) BY <1>3, <1>5
<1>7. j < i BY <1>6, Numbers
<1>8. Packets[j].at <= Packets[i].at BY <1>7, RxConstants DEF Ordered, Packets, Index
<1> QED BY <1>7, <1>8

\* The clock is past its step back when the traffic after the first packet begins.
PastZero ==
  \A x \in Setups : \A i \in DOMAIN x.packets : i > 1 => x.packets[i].at > x.clockStep

\* While fresh packets come and nothing goes out, either a packet is held that came soon
\* enough, or the storm that will flush the window has begun and nothing ends it.
Stuck(st, f) == ~FrameMode /\ \E h \in st.held : h.at <= f + ClampResync + MaxLate
Storming(st, f, l) ==
  /\ st.firstClamp # 0 /\ st.firstClamp <= f /\ l <= f + ClampResync + ClockStep
  /\ ~FrameMode => st.held = {} /\ \E i \in Index : Packets[i].at <= f /\ Clamped(st, i)
Starving(st, f, l) == f # 0 => Stuck(st, f) \/ Storming(st, f, l)

\* The times of what is held and of the storm, and how a wait for a delivery looks.
Waiting(st, g, f, l) ==
  /\ \A h \in st.held : h.at <= now
  /\ st.firstClamp <= now /\ g[1] # 0
  /\ f \in Nat /\ l \in Nat /\ f <= now /\ l <= now /\ (f = 0 => l = 0)
  /\ Starving(st, f, l)

\* A pass of the cursor takes back no delivery.
LEMMA SettleGrows ==
  ASSUME got \in [Index -> Nat], NEW st, NEW t, NEW e, Settle(st, t, e), NEW k \in Index, got[k] # 0
  PROVE  got'[k] # 0
<1>1. PICK out \in {Delivers(st, t)} :
        got' = [i \in Index |-> got[i] + Cardinality({i} \cap out) + Cardinality({i} \cap e)]
  BY DEF Settle
<1>2. got'[k] = got[k] + Cardinality({k} \cap out) + Cardinality({k} \cap e) BY <1>1
<1>3. Cardinality({k} \cap out) \in {0, 1} /\ Cardinality({k} \cap e) \in {0, 1} BY OneOf
<1>4. got[k] \in Nat OBVIOUS
<1> QED BY <1>2, <1>3, <1>4

\* A packet that was not delivered is no longer held only when it is flushed.
LEMMA HeldUndelivered ==
  ASSUME NoWrap, FlowInv, ~FrameMode, NEW h \in s.held PROVE got[h.id] = 0
<1>1. /\ setup \in Setups /\ s \in StreamStates /\ Window(s) /\ Genuine(s) /\ Counted(s, got)
  BY DEF FlowInv, StreamInv
<1>2. h.id \in Index /\ h.seq = SeqOf(h.id) BY <1>1 DEF Genuine
<1>3. s.cursor <= h.seq BY <1>1 DEF Window
<1>4. h.seq \in Nat /\ s.cursor \in Nat BY <1>1 DEF StreamStates, HeldPackets
<1>5. got[h.id] # 0 => SeqOf(h.id) < s.cursor BY <1>1, <1>2 DEF Counted
<1> QED BY <1>2, <1>3, <1>4, <1>5

\* A step of the cursor alone, without a delivery.
LEMMA PassWaits ==
  ASSUME NoWrap, FlowInv, Waiting(s, got, freshSince, lastFresh), got' = got,
         s'.held \subseteq s.held, s'.firstClamp = s.firstClamp, s' \in StreamStates, Window(s'),
         \A h \in s.held : h \notin s'.held => got'[h.id] # 0,
         s'.maxSeq = s.maxSeq, s'.maxBlock = s.maxBlock, s.cursor <= s'.cursor
  PROVE  Starving(s', freshSince, lastFresh)
<1> SUFFICES ASSUME freshSince # 0
             PROVE  Stuck(s', freshSince) \/ Storming(s', freshSince, lastFresh)
  BY DEF Starving
<1>1. Stuck(s, freshSince) \/ Storming(s, freshSince, lastFresh) BY DEF Waiting, Starving
<1>2. CASE Stuck(s, freshSince)
  <2>1. PICK h \in s.held : h.at <= freshSince + ClampResync + MaxLate BY <1>2 DEF Stuck
  <2>2. ~FrameMode BY <1>2 DEF Stuck
  <2>3. h \in s'.held BY <2>1, <2>2, HeldUndelivered
  <2> QED BY <2>1, <2>2, <2>3 DEF Stuck
<1>3. CASE Storming(s, freshSince, lastFresh)
  <2>1. CASE FrameMode BY <1>3, <2>1 DEF Storming
  <2>2. CASE ~FrameMode
    <3>1. s.held = {} BY <1>3, <2>2 DEF Storming
    <3>2. s.cursor = s.maxSeq + 1 BY <3>1, FreshUnseen
    <3>3. /\ s.cursor \in Nat /\ s.maxSeq \in Nat /\ s'.cursor \in Nat /\ s'.cursor <= s'.maxSeq + 1
      BY DEF FlowInv, StreamInv, StreamStates, Window
    <3>4. s'.cursor = s.cursor BY <3>2, <3>3
    <3>5. \A i \in Index : Clamped(s', i) <=> Clamped(s, i) BY <3>4 DEF Clamped
    <3>6. s'.held = {} BY <3>1
    <3> QED BY <1>3, <2>2, <3>5, <3>6 DEF Storming
  <2> QED BY <2>1, <2>2
<1> QED BY <1>1, <1>2, <1>3
\* What the bounds are, and what a stamp and a fresh packet tell of the clock.
LEMMA FreshFacts ==
  ASSUME PastZero, FlowInv, got[1] # 0, NEW i \in Index, NEW t \in Stamps, i > NewestOut,
         Packets[i].at <= now, now <= Packets[i].at + MaxLate
  PROVE  /\ ClockStep \in Nat /\ ClampResync \in Nat /\ MaxLate \in Nat /\ now \in Nat
         /\ t \in Int /\ t <= now /\ now - ClockStep <= t /\ t # 0
<1>1. setup \in Setups /\ now \in Nat /\ got \in [Index -> Nat]
  BY DEF FlowInv, StreamInv, Counted
<1>2. ClockStep \in Nat /\ ClampResync \in Nat BY <1>1, SetupFacts
<1>3. MaxLate \in Nat BY <1>1, RxConstants DEF MaxLate
<1>4. t \in Int /\ t <= now /\ now - ClockStep <= t BY <1>1, <1>2 DEF Stamps
<1>5. 1 \in Index /\ i \in Nat /\ Packets[i].at \in Nat
  <2>1. 1 \in Index /\ i \in Nat BY <1>1, SetupFacts
  <2>2. Packets[i].at \in Nat BY <1>1, SetupFacts
  <2> QED BY <2>1, <2>2
<1>6. NewestOut \in Nat /\ 1 <= NewestOut BY <1>1, <1>5, NewestFacts
<1>7. i > 1 BY <1>5, <1>6
<1>8. Packets[i].at > ClockStep BY <1>1, <1>7 DEF PastZero, Packets, Index, ClockStep
<1>9. t # 0 BY <1>1, <1>2, <1>4, <1>5, <1>8
<1> QED BY <1>1, <1>2, <1>3, <1>4, <1>9

\* A fresh packet that is kept out.
LEMMA HeardWaits ==
  ASSUME NoWrap, PastZero, FlowInv, Waiting(s, got, freshSince, lastFresh),
         NEW a \in Adapters, NEW i \in Index, NEW t \in Stamps, NEW bad \in Mismatch,
         Rejected(i, t, bad) \/ Duplicate(a, i, t, bad), i > NewestOut,
         Packets[i].at <= now, now <= Packets[i].at + MaxLate,
         NEW f \in Nat, freshSince = 0 => f = now, freshSince # 0 => f = freshSince
  PROVE  Starving(s', f, now)
<1>1. /\ ClockStep \in Nat /\ ClampResync \in Nat /\ MaxLate \in Nat /\ now \in Nat
      /\ t \in Int /\ t <= now /\ now - ClockStep <= t /\ t # 0
  <2>1. got[1] # 0 BY DEF Waiting
  <2> QED BY <2>1, FreshFacts
<1>2. /\ s'.held = s.held /\ s'.cursor = s.cursor /\ s'.maxBlock = s.maxBlock
      /\ \/ /\ ~InClamp(i) /\ ~StormOver(t)
            /\ s.firstClamp = 0 => s'.firstClamp = t
            /\ s.firstClamp # 0 => s'.firstClamp = s.firstClamp
         \/ SeqOf(i) < s.cursor \/ \E h \in s.held : h.seq = SeqOf(i)
  BY HeardStep
<1>3. /\ \A h \in s.held : h.at \in Nat /\ h.at <= now
      /\ s.firstClamp \in Int /\ s.firstClamp <= now /\ freshSince \in Nat
  BY DEF Waiting, FlowInv, StreamInv, StreamStates, HeldPackets
<1>4. ASSUME NEW h \in s.held, ~FrameMode, h.at <= f + ClampResync + MaxLate
      PROVE  Stuck(s', f)
  BY <1>2, <1>4 DEF Stuck
<1> SUFFICES ASSUME f # 0 PROVE Stuck(s', f) \/ Storming(s', f, now) BY DEF Starving
<1>5. CASE freshSince = 0 /\ ~FrameMode /\ s.held # {}
  <2>1. PICK h \in s.held : TRUE BY <1>5
  <2>2. h.at <= f + ClampResync + MaxLate BY <1>1, <1>3, <1>5
  <2> QED BY <1>4, <1>5, <2>2
<1>6. CASE Stuck(s, f)
  <2>1. ~FrameMode BY <1>6 DEF Stuck
  <2>2. PICK h \in s.held : h.at <= f + ClampResync + MaxLate BY <1>6 DEF Stuck
  <2> QED BY <1>4, <2>1, <2>2
<1>7. CASE /\ FrameMode \/ s.held = {}
           /\ freshSince # 0 => Storming(s, f, lastFresh)
  <2>1. /\ ~InClamp(i) /\ ~StormOver(t)
        /\ s.firstClamp = 0 => s'.firstClamp = t
        /\ s.firstClamp # 0 => s'.firstClamp = s.firstClamp
    BY <1>2, <1>7, FreshUnseen
  <2>2. s'.firstClamp # 0 /\ s'.firstClamp \in Int BY <1>1, <1>3, <2>1
  <2>3. s'.firstClamp <= f
    <3>1. CASE freshSince = 0 BY <1>1, <1>3, <2>1, <3>1
    <3>2. CASE freshSince # 0
      <4>1. s.firstClamp # 0 /\ s.firstClamp <= f BY <1>7, <3>2 DEF Storming
      <4> QED BY <2>1, <4>1
    <3> QED BY <3>1, <3>2
  <2>4. now <= f + ClampResync + ClockStep
    <3>1. CASE freshSince = 0 BY <1>1, <3>1
    <3>2. CASE freshSince # 0
      <4>1. s.firstClamp # 0 /\ s.firstClamp <= f BY <1>7, <3>2 DEF Storming
      <4>2. ~(t > s.firstClamp /\ t - s.firstClamp >= ClampResync)
        BY <2>1, <4>1 DEF StormOver, NoStorm
      <4> QED BY <1>1, <1>3, <4>1, <4>2
    <3> QED BY <3>1, <3>2
  <2>5. \A k \in Index : Clamped(s', k) <=> Clamped(s, k) BY <1>2 DEF Clamped
  <2>6. ASSUME ~FrameMode
        PROVE  s'.held = {} /\ \E k \in Index : Packets[k].at <= f /\ Clamped(s', k)
    <3>1. s'.held = {} BY <1>2, <1>7, <2>6
    <3>2. CASE freshSince = 0
      <4>1. Clamped(s, i) BY <2>1 DEF Clamped, InClamp
      <4> QED BY <2>5, <3>1, <3>2, <4>1
    <3>3. CASE freshSince # 0
      <4>1. \E k \in Index : Packets[k].at <= f /\ Clamped(s, k) BY <1>7, <2>6, <3>3 DEF Storming
      <4> QED BY <2>5, <3>1, <4>1
    <3> QED BY <3>2, <3>3
  <2> QED BY <2>2, <2>3, <2>4, <2>6 DEF Storming
<1>8. freshSince # 0 => Stuck(s, f) \/ Storming(s, f, lastFresh) BY DEF Waiting, Starving
<1>9. Storming(s, f, lastFresh) => FrameMode \/ s.held = {} BY DEF Storming
<1> QED BY <1>5, <1>6, <1>7, <1>8, <1>9

\* A fresh packet that is let in and goes out no more than any other.
LEMMA CopyWaits ==
  ASSUME NoWrap, FlowInv, Waiting(s, got, freshSince, lastFresh), got' = got,
         NEW a \in Adapters, NEW i \in Index, NEW t \in Stamps, NEW budget \in Budgets,
         NEW bad \in Mismatch, NEW complete \in BOOLEAN,
         FirstCopy(a, i, t, budget, bad, complete),
         Packets[i].at <= now, now <= Packets[i].at + MaxLate,
         NEW f \in Nat, freshSince = 0 => f = now, freshSince # 0 => f = freshSince
  PROVE  Starving(s', f, now)
<1>1. /\ InClamp(i) => \A h \in s.held : h \notin s'.held => got'[h.id] # 0
      /\ got[i] = 0 /\ (FrameMode \/ ~InClamp(i) => got'[i] # 0)
      /\ got'[i] # 0 \/ \E h \in s'.held : h.at = now
  BY CopyStep
<1>2. ~FrameMode /\ InClamp(i) /\ \E h \in s'.held : h.at = now BY <1>1
<1>3. setup \in Setups /\ s \in StreamStates /\ now \in Nat BY DEF FlowInv, StreamInv
<1>4. ClampResync \in Nat /\ MaxLate \in Nat
  <2>1. ClampResync \in Nat BY <1>3, SetupFacts
  <2>2. MaxLate \in Nat BY <1>3, RxConstants DEF MaxLate
  <2> QED BY <2>1, <2>2
<1>5. ASSUME now <= f + ClampResync + MaxLate PROVE Stuck(s', f) BY <1>2, <1>5 DEF Stuck
<1> SUFFICES ASSUME f # 0 PROVE Stuck(s', f) BY DEF Starving
<1>6. CASE freshSince = 0 BY <1>3, <1>4, <1>5, <1>6
<1>7. CASE Stuck(s, f)
  <2>1. PICK h \in s.held : h.at <= f + ClampResync + MaxLate BY <1>7 DEF Stuck
  <2>2. got[h.id] = 0 BY <1>2, HeldUndelivered
  <2>3. h \in s'.held BY <1>1, <1>2, <2>2
  <2> QED BY <1>2, <2>1, <2>3 DEF Stuck
<1>8. CASE Storming(s, f, lastFresh)
  <2>1. PICK k \in Index : Packets[k].at <= f /\ Clamped(s, k) BY <1>2, <1>8 DEF Storming
  <2>2. ~Clamped(s, i) BY <1>2 DEF Clamped, InClamp
  <2>3. Packets[i].at <= Packets[k].at BY <1>3, <2>1, <2>2, ClampMonotone
  <2>4. Packets[i].at \in Nat /\ Packets[k].at \in Nat BY <1>3, SetupFacts
  <2>5. now <= f + ClampResync + MaxLate BY <1>3, <1>4, <2>1, <2>3, <2>4
  <2> QED BY <1>5, <2>5
<1>9. freshSince # 0 => Stuck(s, f) \/ Storming(s, f, lastFresh) BY DEF Waiting, Starving
<1> QED BY <1>6, <1>7, <1>8, <1>9

\* The invariant of progress.
ProgressInv == Waiting(s, got, freshSince, lastFresh)

\* It is kept.
LEMMA ProgressStep ==
  ASSUME NoWrap, PastZero, FlowInv, ProgressInv, StreamNext PROVE ProgressInv'
<1>1. /\ setup \in Setups /\ now \in Nat /\ s \in StreamStates /\ got \in [Index -> Nat]
  BY DEF FlowInv, StreamInv, Counted
<1>2. /\ Waiting(s, got, freshSince, lastFresh)
      /\ (\A h \in s.held : h.at <= now) /\ s.firstClamp <= now /\ got[1] # 0
      /\ freshSince \in Nat /\ lastFresh \in Nat /\ freshSince <= now /\ lastFresh <= now
      /\ (freshSince = 0 => lastFresh = 0) /\ Starving(s, freshSince, lastFresh)
  BY DEF ProgressInv, Waiting
<1>3. 1 \in Index /\ s.firstClamp \in Int BY <1>1, SetupFacts DEF StreamStates
<1>4. \A h \in s.held : h.at \in Nat BY <1>1 DEF StreamStates, HeldPackets
<1>5. ASSUME setup' = setup, now' \in Nat, now <= now', s'.firstClamp <= now', got'[1] # 0,
             \A h \in s'.held : h.at <= now',
             freshSince' \in Nat, lastFresh' \in Nat, freshSince' <= now', lastFresh' <= now',
             freshSince' = 0 => lastFresh' = 0, Starving(s', freshSince', lastFresh')
      PROVE  ProgressInv'
  <2>1. /\ FrameMode' = FrameMode /\ ClampResync' = ClampResync /\ MaxLate' = MaxLate
        /\ ClockStep' = ClockStep /\ Packets' = Packets /\ Index' = Index /\ FirstSeq' = FirstSeq
        /\ ClampPkts' = ClampPkts /\ FwdClampBlocks' = FwdClampBlocks
    BY <1>5 DEF FrameMode, ClampResync, MaxLate, ClockStep, Packets, Index, FirstSeq, ClampPkts,
                FwdClampBlocks
  <2>2. Starving(s, freshSince, lastFresh)'
    BY <1>5, <2>1 DEF Starving, Stuck, Storming, Clamped, SeqOf
  <2> QED BY <1>5, <2>2 DEF ProgressInv, Waiting
<1>6. Starving(s', 0, 0) BY DEF Starving
<1>7. \A i \in Index : i \in Nat /\ i >= 1 BY <1>1, SetupFacts
<1>8. NewestOut \in Nat BY <1>1, NewestFacts
<1>9. ASSUME NEW i, NoteProgress(i), got' # got \/ i \in 1 .. NewestOut
      PROVE  freshSince' = 0 /\ lastFresh' = 0
  BY <1>9 DEF NoteProgress
<1>10. ASSUME NEW a \in Adapters, NEW i \in Index, NEW t \in Stamps, OnData(a, i, t)
       PROVE  ProgressInv'
  <2>1. /\ setup' = setup /\ now' = now /\ NoteProgress(i)
        /\ Packets[i].at <= now /\ now <= Packets[i].at + MaxLate
    BY <1>10 DEF OnData
  <2>2. PICK bad \in Mismatch :
          \/ Rejected(i, t, bad) \/ Duplicate(a, i, t, bad)
          \/ \E budget \in Budgets, complete \in BOOLEAN : FirstCopy(a, i, t, budget, bad, complete)
    BY <1>10 DEF OnData
  <2>3. t \in Int /\ t <= now
    <3>1. ClockStep \in Nat BY <1>1, SetupFacts
    <3> QED BY <1>1, <3>1 DEF Stamps
  <2>4. /\ s'.firstClamp <= now /\ got'[1] # 0 /\ \A h \in s'.held : h.at <= now
    <3>1. CASE Rejected(i, t, bad) \/ Duplicate(a, i, t, bad)
      <4>1. /\ s'.held = s.held
            /\ s'.firstClamp = t \/ s'.firstClamp = s.firstClamp \/ s'.firstClamp = 0
        BY <3>1, HeardStep
      <4>2. got' = got BY <3>1 DEF Rejected, Duplicate, NothingOut
      <4> QED BY <1>1, <1>2, <2>3, <4>1, <4>2
    <3>2. ASSUME NEW budget \in Budgets, NEW complete \in BOOLEAN,
                 FirstCopy(a, i, t, budget, bad, complete)
          PROVE  s'.firstClamp <= now /\ got'[1] # 0 /\ \A h \in s'.held : h.at <= now
      <4>1. (\A h \in s'.held : h \in s.held \/ h.at = now) /\ s'.firstClamp = 0
        BY <3>2, CopyStep
      <4>2. PICK st, e : Settle(st, t, e) BY <3>2 DEF FirstCopy
      <4>3. got'[1] # 0 BY <1>1, <1>2, <1>3, <4>2, SettleGrows
      <4> QED BY <1>1, <1>2, <4>1, <4>3
    <3> QED BY <2>2, <3>1, <3>2
  <2>5. CASE got' # got \/ i \in 1 .. NewestOut
    <3>1. freshSince' = 0 /\ lastFresh' = 0 BY <1>9, <2>1, <2>5
    <3> QED BY <1>1, <1>5, <1>6, <2>1, <2>4, <3>1
  <2>6. CASE got' = got /\ i \notin 1 .. NewestOut
    <3>1. i > NewestOut BY <1>7, <1>8, <2>6
    <3> DEFINE f == freshSince'
    <3>2. f = (IF freshSince = 0 THEN now ELSE freshSince) /\ lastFresh' = now
      BY <2>1, <2>6, <3>1 DEF NoteProgress
    <3>3. (freshSince = 0 => f = now) /\ (freshSince # 0 => f = freshSince) BY <3>2
    <3> HIDE DEF f
    <3>4. f \in Nat /\ f <= now BY <1>1, <1>2, <3>3
    <3>5. Starving(s', f, now)
      <4>1. CASE Rejected(i, t, bad) \/ Duplicate(a, i, t, bad)
        BY <1>2, <2>1, <3>1, <3>3, <3>4, <4>1, HeardWaits
      <4>2. ASSUME NEW budget \in Budgets, NEW complete \in BOOLEAN,
                   FirstCopy(a, i, t, budget, bad, complete)
            PROVE  Starving(s', f, now)
        BY <1>2, <2>1, <2>6, <3>3, <3>4, <4>2, CopyWaits
      <4> QED BY <2>2, <4>1, <4>2
    <3>6. f = 0 => now = 0 BY <3>3
    <3> QED BY <1>1, <1>5, <2>1, <2>4, <3>2, <3>4, <3>5, <3>6 DEF f
  <2> QED BY <2>5, <2>6
<1>11. ASSUME NEW st \in StreamStates, SameWindow(st, s), SameGaps(st, s),
              st.firstClamp = s.firstClamp, NEW t, Settle(st, t, {}),
              setup' = setup, now' = now, NoteProgress(0)
       PROVE  ProgressInv'
  <2>1. /\ Outcome /\ s'.held \subseteq s.held /\ s'.firstClamp = s.firstClamp
        /\ \A h \in s.held : h \notin s'.held => got'[h.id] # 0
        /\ s'.maxSeq = s.maxSeq /\ s'.maxBlock = s.maxBlock /\ s.cursor <= s'.cursor
    BY <1>11, PassStep
  <2>2. got'[1] # 0 BY <1>1, <1>2, <1>3, <1>11, SettleGrows
  <2>3. /\ s'.firstClamp <= now /\ \A h \in s'.held : h.at <= now BY <1>2, <2>1
  <2>4. CASE got' # got
    <3>1. freshSince' = 0 /\ lastFresh' = 0 BY <1>9, <1>11, <2>4
    <3> QED BY <1>1, <1>5, <1>6, <1>11, <2>2, <2>3, <3>1
  <2>5. CASE got' = got
    <3>1. freshSince' = freshSince /\ lastFresh' = lastFresh
      BY <1>8, <1>11, <2>5 DEF NoteProgress
    <3>2. s' \in StreamStates /\ Window(s') BY <2>1 DEF Outcome
    <3>3. Starving(s', freshSince, lastFresh) BY <1>2, <2>1, <2>5, <3>2, PassWaits
    <3> QED BY <1>1, <1>2, <1>5, <1>11, <2>2, <2>3, <3>1, <3>3
  <2> QED BY <2>4, <2>5
<1>12. ASSUME NEW t \in Stamps, NEW b \in {Packets[i].block : i \in Index}, CompleteFrame(b, t)
       PROVE  ProgressInv'
  <2> DEFINE mc == MarkComplete(s, b)
             rx == lastRx
             st == EvaluateGaps(mc, rx, t)
  <2>1. Settle(st, t, {}) /\ setup' = setup /\ now' = now /\ NoteProgress(0)
    BY <1>12 DEF CompleteFrame
  <2>2. b \in Nat BY <1>1, SetupFacts
  <2>3. mc \in StreamStates /\ SameWindow(mc, s) /\ mc.firstClamp = s.firstClamp /\ SameGaps(mc, s)
    BY <1>1, <2>2, MarkCompleteFields
  <2> HIDE DEF mc, rx
  <2>4. st \in StreamStates /\ SameWindow(st, mc) /\ st.firstClamp = mc.firstClamp /\ SameGaps(st, mc)
    BY <2>3, EvaluateFields
  <2> HIDE DEF st
  <2>5. SameWindow(st, s) BY <2>3, <2>4 DEF SameWindow
  <2>6. SameGaps(st, s) BY <2>3, <2>4 DEF SameGaps
  <2> QED BY <1>11, <2>1, <2>3, <2>4, <2>5, <2>6
<1>13. ASSUME NEW t \in Stamps, Tick(t) PROVE ProgressInv'
  <2> DEFINE rx == lastRx
             st == EvaluateGaps(s, rx, t)
  <2>1. Settle(st, t, {}) /\ setup' = setup /\ now' = now /\ NoteProgress(0) BY <1>13 DEF Tick
  <2> HIDE DEF rx
  <2>2. st \in StreamStates /\ SameWindow(st, s) /\ st.firstClamp = s.firstClamp /\ SameGaps(st, s)
    BY <1>1, EvaluateFields
  <2> HIDE DEF st
  <2> QED BY <1>11, <2>1, <2>2
<1>14. ASSUME Advance PROVE ProgressInv'
  <2>1. /\ now' = now + 1 /\ setup' = setup /\ s' = s /\ got' = got
        /\ freshSince' = freshSince /\ lastFresh' = lastFresh
    BY <1>14 DEF Advance
  <2>2. now' \in Nat /\ now <= now' /\ \A x \in Int : x <= now => x <= now' BY <1>1, <2>1
  <2>3. /\ s'.firstClamp <= now' /\ (\A h \in s'.held : h.at <= now')
        /\ freshSince' <= now' /\ lastFresh' <= now'
    BY <1>2, <1>3, <1>4, <2>1, <2>2
  <2> QED BY <1>2, <1>5, <2>1, <2>2, <2>3
<1> QED BY <1>10, <1>12, <1>13, <1>14 DEF StreamNext

\* It holds at the first packet.
LEMMA ProgressStart == ASSUME NoWrap, StreamInit PROVE ProgressInv
<1>1. FlowInv BY FlowStart
<1>2. /\ setup \in Setups /\ now \in Nat /\ s \in StreamStates BY <1>1 DEF FlowInv, StreamInv
<1>3. 1 \in Index BY <1>2, SetupFacts
<1>4. freshSince = 0 /\ lastFresh = 0 /\ got = [i \in Index |-> IF i = 1 THEN 1 ELSE 0]
  BY DEF StreamInit
<1>5. got[1] # 0 BY <1>3, <1>4
<1>6. s.firstClamp = 0 /\ \A h \in s.held : h.at <= now BY FlowStart
<1> QED BY <1>2, <1>4, <1>5, <1>6 DEF ProgressInv, Waiting, Starving

\* Fresh traffic never goes on undelivered, and no old copy ends the storm, for longer than
\* the clamp storm, the lateness of a packet, the budget and a tick (RxStream!NoStarvation),
\* on every traffic that ends before the wrap and a clock past its own step back (rx.cpp
\* on_data's clamp and resync, evaluate_gaps and tick).
THEOREM ProgressAlwaysMade == NoWrap /\ PastZero => (StreamSpec => []NoStarvation)
<1> SUFFICES ASSUME NoWrap, PastZero PROVE StreamSpec => []NoStarvation OBVIOUS
<1>1. StreamInit => FlowInv /\ ProgressInv BY FlowStart, ProgressStart
<1>2. FlowInv /\ ProgressInv /\ [StreamNext]_streamVars => FlowInv' /\ ProgressInv'
  <2> SUFFICES ASSUME FlowInv, ProgressInv, [StreamNext]_streamVars PROVE FlowInv' /\ ProgressInv'
    OBVIOUS
  <2>1. CASE StreamNext BY <2>1, FlowStep, ProgressStep
  <2>2. CASE UNCHANGED streamVars
    <3>1. FlowInv'
      BY <2>2 DEF streamVars, FlowInv, StreamInv, Window, Genuine, Clocks, Counted, LastBelow, Top, SeqOf,
                  Packets, FirstSeq, FrameMode, Index, ClampPkts, Longest, Budgets, ClockStep
    <3>2. ProgressInv'
      BY <2>2 DEF streamVars, ProgressInv, Waiting, Starving, Stuck, Storming, Clamped, SeqOf, Packets,
                  FirstSeq, FrameMode, Index, ClampPkts, FwdClampBlocks, ClampResync, MaxLate, ClockStep
    <3> QED BY <3>1, <3>2
  <2> QED BY <2>1, <2>2
<1>3. FlowInv /\ ProgressInv => NoStarvation
  <2> SUFFICES ASSUME FlowInv, ProgressInv PROVE NoStarvation OBVIOUS
  <2>1. /\ setup \in Setups /\ now \in Nat /\ s \in StreamStates
        /\ tickBy \in Int /\ now <= tickBy
        /\ \A h \in s.held : tickBy <= h.at + Longest + ClockStep + TickGap
    BY DEF FlowInv, StreamInv
  <2>2. TickGap \in Nat /\ ClockStep \in Nat /\ ClampResync \in Nat BY <2>1, SetupFacts
  <2>3. Longest \in Nat BY <2>1, LongestFacts
  <2>4. MaxLate \in Nat BY <2>1, RxConstants DEF MaxLate
  <2>5. /\ freshSince \in Nat /\ lastFresh \in Nat /\ lastFresh <= now
        /\ freshSince = 0 => lastFresh = 0
        /\ freshSince # 0 => Stuck(s, freshSince) \/ Storming(s, freshSince, lastFresh)
    BY DEF ProgressInv, Waiting, Starving
  <2>6. lastFresh - freshSince <= ClampResync + MaxLate + Longest + TickGap + ClockStep
    <3>1. CASE freshSince = 0 BY <2>2, <2>3, <2>4, <2>5, <3>1
    <3>2. CASE Stuck(s, freshSince)
      <4>1. PICK h \in s.held : h.at <= freshSince + ClampResync + MaxLate BY <3>2 DEF Stuck
      <4>2. h.at \in Nat BY <2>1 DEF StreamStates, HeldPackets
      <4>3. tickBy <= h.at + Longest + ClockStep + TickGap BY <2>1
      <4> QED BY <2>1, <2>2, <2>3, <2>4, <2>5, <4>1, <4>2, <4>3
    <3>3. CASE Storming(s, freshSince, lastFresh)
      <4>1. lastFresh <= freshSince + ClampResync + ClockStep BY <3>3 DEF Storming
      <4> QED BY <2>2, <2>3, <2>4, <2>5, <4>1
    <3> QED BY <2>5, <3>1, <3>2, <3>3
  <2> QED BY <2>6 DEF NoStarvation, Longest
<1> QED BY <1>1, <1>2, <1>3, PTL DEF StreamSpec
=============================================================================
