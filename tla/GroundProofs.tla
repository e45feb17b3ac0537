---------------------------- MODULE GroundProofs ----------------------------
(***************************************************************************)
(* The ground's components, each by itself and for every value of its      *)
(* constants.  A section gives the inductive invariant of a component,     *)
(* shows that its steps keep it, and states the property that follows.     *)
(***************************************************************************)
EXTENDS RadioRx, RxControl, ReturnLane, RxLink, GroundTuning, SpatialRepair, CacheAssign,
        ProbeEvidence, LatchRecovery, GroundRepair, AdapterBind, SequenceTheorems,
        FiniteSetTheorems, WellFoundedInduction, TLAPS

-----------------------------------------------------------------------------
(* General facts *)

\* A set of naturals that is not empty has a least element.
LEMMA MinNat ==
  ASSUME NEW S \in SUBSET Nat, S # {}
  PROVE  \E x \in S : \A y \in S : x <= y
<1>1. PICK x \in S : \A y \in S : ~(<<y, x>> \in OpToRel(<, Nat))
  BY NatLessThanWellFounded, WFMin
<1>2. \A y \in S : ~(y < x) BY <1>1 DEF OpToRel
<1> QED BY <1>2

Elements(s) == {s[i] : i \in 1..Len(s)}

\* What the queue operations do to the elements.
LEMMA QueueElements ==
  ASSUME NEW S, NEW s \in Seq(S), NEW x \in S
  PROVE  /\ Append(s, x) \in Seq(S) /\ Append(s, x) # << >>
         /\ Elements(Append(s, x)) \subseteq Elements(s) \cup {x}
         /\ s # << >> => /\ Tail(s) \in Seq(S) /\ Head(s) \in Elements(s)
                         /\ Elements(Tail(s)) \subseteq Elements(s)
<1>0. Len(s) \in Nat BY LenProperties
<1>1. /\ Append(s, x) \in Seq(S) /\ Append(s, x) # << >>
      /\ Len(Append(s, x)) = Len(s) + 1
      /\ \A i \in 1..Len(s) : Append(s, x)[i] = s[i]
      /\ Append(s, x)[Len(s) + 1] = x
  BY AppendProperties
<1>2. Elements(Append(s, x)) \subseteq Elements(s) \cup {x}
  <2> SUFFICES ASSUME NEW i \in 1..Len(s) + 1
               PROVE  Append(s, x)[i] \in Elements(s) \cup {x}
    BY <1>1 DEF Elements
  <2>1. CASE i = Len(s) + 1 BY <1>1, <2>1
  <2>2. CASE i # Len(s) + 1
    <3>1. i \in 1..Len(s) BY <1>0, <2>2
    <3> QED BY <3>1, <1>1 DEF Elements
  <2> QED BY <2>1, <2>2
<1>3. ASSUME s # << >>
      PROVE  /\ Tail(s) \in Seq(S) /\ Head(s) \in Elements(s)
             /\ Elements(Tail(s)) \subseteq Elements(s)
  <2>1. /\ Tail(s) \in Seq(S) /\ Len(Tail(s)) = Len(s) - 1
        /\ \A i \in 1..Len(Tail(s)) : Tail(s)[i] = s[i + 1]
    BY <1>3, HeadTailProperties
  <2>2. 1 \in 1..Len(s) /\ Head(s) = s[1] BY <1>0, <1>3, EmptySeq
  <2>3. \A i \in 1..Len(Tail(s)) : i + 1 \in 1..Len(s) BY <1>0, <2>1
  <2> QED BY <2>1, <2>2, <2>3 DEF Elements
<1> QED BY <1>1, <1>2, <1>3

-----------------------------------------------------------------------------
(* The RX threads of the radio backend *)

AirFrames == [ear : Ears \cup {0}, gen : Nat, chan : Tunes \cup {0}, aired : Nat]
MainSteps == {"idle", "swap", "deliver", "retune", "bump", "clear", "stop", "join",
              "undead", "start", "joinall", "gone"}

RadioMain == [at : MainSteps, ears : SUBSET Ears, target : Tunes \cup {0},
              ok : BOOLEAN, local : Seq(AirFrames)]

RadioTypeOK ==
    /\ pipe \in [Ears -> AirFrames]
    /\ thr \in [Ears -> [at : {"loop", "stamped", "queued", "done"}, frame : AirFrames]]
    /\ loop \in [Ears -> [stop : BOOLEAN, dead : BOOLEAN]]
    /\ queue \in Seq(AirFrames) /\ flushGen \in Nat /\ ready \in BOOLEAN
    /\ main \in RadioMain
    /\ noted \in [Ears -> Tunes] /\ tuned = noted
    /\ handed \in AirFrames /\ died \subseteq Ears

\* An operation over the ears in progress works on one of them, and a recovered
\* ear's thread is gone until it is started again.
EarInHand ==
    /\ main.at \in {"retune", "stop", "join", "undead", "start"} => main.target \in Tunes
    /\ main.at \in {"join", "undead", "start"} => main.ears # {}
    /\ main.at \in {"undead", "start"} => thr[NextEar].at = "done"
    /\ main.at \in {"idle", "swap", "deliver"} => main.ok = FALSE

\* The node's belief about the channels is not being changed.
Settled == /\ main.at \notin {"retune", "bump"}
           /\ main.at \in {"stop", "join", "undead", "start"} => ~main.ok

\* Frames on their way to the node.
UnreadFrames == Elements(queue) \cup Elements(main.local)
            \cup {thr[e].frame : e \in {d \in Ears : thr[d].at = "stamped"}}
            \cup {pipe[e] : e \in {d \in Ears : pipe[d] # NoFrame}}

\* A frame heard in the current generation is of the channel the node believes in.
FramesCurrent ==
    \A f \in UnreadFrames : /\ f.aired <= flushGen
                            /\ Settled /\ f.aired = flushGen => f.chan = noted[f.ear]

\* Nothing is handed over while the ears move.
NothingHanded ==
    main.at \in {"retune", "bump", "clear", "stop", "join", "undead", "start"}
        => handed = NoFrame

\* A wakeup is pending for a queued frame, except while the queue is being taken.
WakePending ==
    main.at # "swap" /\ queue # << >> => ready \/ \E e \in Ears : thr[e].at = "queued"

\* A death is untold only between the clearing of the latch and the restart.
DeathKnown == \A e \in died : loop[e].dead \/ (main.at = "start" /\ e = NextEar)

\* Once the units are gone every thread has been joined.
Joins == main.at = "gone" => AllJoined

RadioInv == /\ RadioTypeOK /\ EarInHand /\ FramesCurrent /\ ChannelHonest
            /\ NothingHanded /\ WakePending /\ DeathKnown /\ Joins

\* The ear an operation is at is one of the ears it still has to do.
LEMMA NextEarIn ==
  ASSUME RadioTypeOK, main.ears # {}
  PROVE  NextEar \in main.ears /\ NextEar \in Ears
<1>1. main.ears \in SUBSET Nat BY RadioRxAssumption DEF RadioTypeOK, RadioMain
<1>2. PICK x \in main.ears : \A y \in main.ears : x <= y BY <1>1, MinNat
<1> QED BY <1>2 DEF NextEar, RadioTypeOK, RadioMain

\* Every step keeps the types.
LEMMA RadioType == ASSUME RadioInv, RRNext PROVE RadioTypeOK'
<1> USE RadioRxAssumption DEF RadioInv, RadioTypeOK, RadioMain
<1>1. ASSUME NEW e \in Ears, Hear(e) PROVE RadioTypeOK'
  <2>1. [ear |-> e, gen |-> 0, chan |-> tuned[e], aired |-> flushGen] \in AirFrames
    BY DEF AirFrames
  <2> QED BY <1>1, <2>1 DEF Hear
<1>20. ASSUME NEW e \in Ears, Stamp(e) PROVE RadioTypeOK'
  <2>1. [pipe[e] EXCEPT !.gen = flushGen] \in AirFrames /\ NoFrame \in AirFrames
    BY DEF AirFrames, NoFrame
  <2> QED BY <1>20, <2>1 DEF Stamp
<1>2. ASSUME NEW e \in Ears, Enqueue(e) PROVE RadioTypeOK'
  <2>1. thr[e].frame \in AirFrames /\ NoFrame \in AirFrames BY DEF NoFrame, AirFrames
  <2>2. DropOldest(queue) \in Seq(AirFrames)
    <3>1. Len(queue) >= RxQueueCap => queue # << >> BY EmptySeq
    <3> QED BY <3>1, <2>1, QueueElements DEF DropOldest
  <2>3. queue' \in Seq(AirFrames) BY <1>2, <2>1, <2>2, QueueElements DEF Enqueue
  <2>4. thr' \in [Ears -> [at : {"loop", "stamped", "queued", "done"}, frame : AirFrames]]
    BY <1>2, <2>1 DEF Enqueue
  <2> QED BY <1>2, <2>3, <2>4 DEF Enqueue
<1>3. ASSUME NEW e \in Ears, Notify(e) \/ LoopReturns(e) \/ LoopThrows(e)
      PROVE  RadioTypeOK'
  <2>1. CASE Notify(e) BY <2>1 DEF Notify
  <2>2. CASE LoopReturns(e) BY <2>2 DEF LoopReturns
  <2>3. CASE LoopThrows(e) BY <2>3 DEF LoopThrows
  <2> QED BY <1>3, <2>1, <2>2, <2>3
<1>4. CASE PollBegin BY <1>4 DEF PollBegin, MainSteps
<1>5. CASE PollSwap
  <2>1. << >> \in Seq(AirFrames) BY EmptySeq
  <2> QED BY <1>5, <2>1 DEF PollSwap, MainSteps
<1>6. CASE Deliver
  <2>1. main.local \in Seq(AirFrames) /\ main.local # << >> BY <1>6 DEF Deliver
  <2>2. Head(main.local) \in AirFrames /\ Tail(main.local) \in Seq(AirFrames)
    BY <2>1, HeadTailProperties
  <2>3. NoFrame \in AirFrames BY DEF NoFrame, AirFrames
  <2>4. handed' \in AirFrames BY <1>6, <2>2, <2>3 DEF Deliver
  <2> QED BY <1>6, <2>2, <2>4 DEF Deliver
<1>7. Resting \in RadioMain
  <2>1. << >> \in Seq(AirFrames) BY EmptySeq
  <2> QED BY <2>1 DEF Resting, MainSteps
<1>8. CASE PollEnds BY <1>7, <1>8 DEF PollEnds, WakeupLeft
<1>9. CASE BeginRetune \/ BeginRecover
  <2>1. NoFrame \in AirFrames BY DEF NoFrame, AirFrames
  <2>2. PICK what \in {"retune", "stop"}, c \in Tunes, s \in SUBSET Ears :
           main' = [main EXCEPT !.at = what, !.ears = s, !.target = c]
    BY <1>9 DEF BeginRetune, BeginRecover, Begin
  <2>3. main' \in RadioMain
    BY <2>2 DEF MainSteps
  <2> QED BY <1>9, <2>1, <2>3 DEF BeginRetune, BeginRecover, Begin
<1>10. CASE Retune
  <2>1. NextEar \in Ears BY <1>10, NextEarIn DEF Retune
  <2>2. main.ears # {} /\ main.at = "retune" BY <1>10 DEF Retune
  <2>3. noted' \in [Ears -> Tunes] /\ tuned' = noted'
    <3>1. PICK applied \in BOOLEAN :
            /\ tuned' = [tuned EXCEPT ![NextEar] = IF applied THEN main.target ELSE @]
            /\ noted' = [noted EXCEPT ![NextEar] = IF applied THEN main.target ELSE @]
      BY <1>10 DEF Retune
    <3>2. main.target \in Tunes BY <2>2 DEF EarInHand
    <3> QED BY <2>1, <3>1, <3>2
  <2> QED BY <1>10, <2>3 DEF Retune
<1>11. CASE RetunesDone \/ FlushBump
  <2>1. CASE RetunesDone BY <2>1 DEF RetunesDone, MainSteps
  <2>2. CASE FlushBump
    <3>1. flushGen' \in Nat /\ main' = [main EXCEPT !.at = "clear"] BY <2>2 DEF FlushBump
    <3>2. main' \in RadioMain BY <3>1 DEF MainSteps
    <3> QED BY <2>2, <3>1, <3>2 DEF FlushBump
  <2> QED BY <1>11, <2>1, <2>2
<1>12. CASE FlushClear
  <2>1. << >> \in Seq(AirFrames) BY EmptySeq
  <2> QED BY <1>7, <1>12, <2>1 DEF FlushClear
<1>13. CASE RecoverStop BY <1>13 DEF RecoverStop, MainSteps
<1>14. CASE RecoverTune
  <2>1. main' \in RadioMain
    BY <1>14 DEF RecoverTune, MainSteps, ClearThenRestart
  <2>3. noted' \in [Ears -> Tunes] /\ tuned' = noted'
    <3>0. NextEar \in Ears /\ main.target \in Tunes
      BY <1>14, NextEarIn DEF RecoverTune, EarInHand
    <3>1. PICK applied \in BOOLEAN :
            /\ tuned' = [tuned EXCEPT ![NextEar] = IF applied THEN main.target ELSE @]
            /\ noted' = [noted EXCEPT ![NextEar] = IF applied THEN main.target ELSE @]
      BY <1>14 DEF RecoverTune
    <3> QED BY <3>0, <3>1
  <2> QED BY <1>14, <2>1, <2>3 DEF RecoverTune
<1>15. CASE RecoverUndead
  <2>1. main' = [main EXCEPT !.at = "start"]
    BY <1>15 DEF RecoverUndead, Restarted, AfterRestartStep, ClearThenRestart
  <2>2. main' \in RadioMain
    BY <2>1 DEF MainSteps
  <2> QED BY <1>15, <2>2 DEF RecoverUndead
<1>19. CASE RecoverStart
  <2>1. main' = [main EXCEPT !.at = "stop", !.ears = @ \ {NextEar}]
    BY <1>19 DEF RecoverStart, Restarted, AfterRestartStep, ClearThenRestart
  <2>2. main' \in RadioMain
    BY <2>1 DEF MainSteps
  <2> QED BY <1>19, <2>2 DEF RecoverStart
<1>16. CASE RecoversDone BY <1>7, <1>16 DEF RecoversDone, MainSteps
<1>17. CASE TeardownStop BY <1>17 DEF TeardownStop, MainSteps
<1>18. CASE Destroy BY <1>18 DEF Destroy, MainSteps
<1> QED BY <1>1, <1>2, <1>3, <1>4, <1>5, <1>6, <1>8, <1>9, <1>10, <1>11, <1>12, <1>13,
           <1>14, <1>15, <1>16, <1>17, <1>18, <1>19, <1>20 DEF RRNext

ThreadStep(e) == Stamp(e) \/ Enqueue(e) \/ Notify(e) \/ LoopReturns(e) \/ LoopThrows(e)

\* What a thread's step leaves alone.
LEMMA ThreadFrame ==
  ASSUME RadioTypeOK, NEW e \in Ears, ThreadStep(e)
  PROVE  /\ main' = main /\ noted' = noted /\ tuned' = tuned /\ flushGen' = flushGen
         /\ handed' = handed /\ NextEar' = NextEar
         /\ thr[e].at # "done"
         /\ \A d \in Ears : d # e => thr'[d] = thr[d] /\ loop'[d] = loop[d]
<1>1. /\ main' = main /\ noted' = noted /\ tuned' = tuned /\ flushGen' = flushGen
      /\ handed' = handed /\ thr[e].at # "done"
  BY DEF ThreadStep, Stamp, Enqueue, Notify, LoopReturns, LoopThrows
<1>2. NextEar' = NextEar BY <1>1 DEF NextEar
<1>3. \A d \in Ears : d # e => thr'[d] = thr[d] /\ loop'[d] = loop[d]
  BY DEF ThreadStep, Stamp, Enqueue, Notify, LoopReturns, LoopThrows, RadioTypeOK
<1> QED BY <1>1, <1>2, <1>3

\* The order of a restart: the latch is cleared, then the loop starts.
LEMMA RestartOrder ==
  ASSUME RadioTypeOK
  PROVE  /\ Restarted("undead") = [main EXCEPT !.at = "start"]
         /\ Restarted("start") = [main EXCEPT !.at = "stop", !.ears = @ \ {NextEar}]
         /\ ClearThenRestart[1] = "undead"
  BY DEF Restarted, AfterRestartStep, ClearThenRestart, RadioTypeOK, RadioMain

\* Every step keeps the ear in hand.
LEMMA RadioEar == ASSUME RadioInv, RRNext PROVE EarInHand'
<1> USE DEF RadioInv
<1>1. ASSUME NEW e \in Ears, ThreadStep(e) PROVE EarInHand'
  <2>1. main.at \in {"undead", "start"} => NextEar \in Ears /\ NextEar # e
    BY <1>1, ThreadFrame, NextEarIn DEF EarInHand
  <2> QED BY <1>1, <2>1, ThreadFrame DEF EarInHand
<1>2. CASE PollBegin \/ PollSwap \/ Deliver
  BY <1>2 DEF PollBegin, PollSwap, Deliver, EarInHand, RadioTypeOK, RadioMain
<1>3. CASE PollEnds \/ FlushClear \/ RecoversDone
  BY <1>3 DEF PollEnds, FlushClear, RecoversDone, Resting, EarInHand, RadioTypeOK, RadioMain
<1>4. CASE BeginRetune \/ BeginRecover
  <2>1. PICK what \in {"retune", "stop"}, c \in Tunes, s \in SUBSET Ears :
           main' = [main EXCEPT !.at = what, !.ears = s, !.target = c]
    BY <1>4 DEF BeginRetune, BeginRecover, Begin
  <2>2. main'.at \in {"retune", "stop"} /\ main'.target \in Tunes
    BY <2>1 DEF RadioTypeOK, RadioMain
  <2> QED BY <2>2 DEF EarInHand
<1>5. CASE Retune \/ RetunesDone \/ FlushBump
  BY <1>5 DEF Retune, RetunesDone, FlushBump, EarInHand, RadioTypeOK, RadioMain
<1>6. CASE RecoverStop
  BY <1>6 DEF RecoverStop, EarInHand, RadioTypeOK, RadioMain
<1>7. CASE RecoverTune
  <2>1. main'.at = "undead" /\ main'.ears = main.ears /\ main'.target = main.target
        /\ thr' = thr /\ thr[NextEar].at = "done" /\ main.at = "join"
    BY <1>7, RestartOrder DEF RecoverTune, RadioTypeOK, RadioMain
  <2>2. NextEar' = NextEar BY <2>1 DEF NextEar
  <2> QED BY <2>1, <2>2 DEF EarInHand
<1>8. CASE RecoverUndead
  <2>1. main'.at = "start" /\ main'.ears = main.ears /\ main'.target = main.target
        /\ thr' = thr /\ main.at = "undead"
    BY <1>8, RestartOrder DEF RecoverUndead, RadioTypeOK, RadioMain
  <2>2. NextEar' = NextEar BY <2>1 DEF NextEar
  <2> QED BY <2>1, <2>2 DEF EarInHand
<1>9. CASE RecoverStart
  <2>1. main'.at = "stop" /\ main'.target = main.target /\ main.at = "start"
    BY <1>9, RestartOrder DEF RecoverStart, RadioTypeOK, RadioMain
  <2> QED BY <2>1 DEF EarInHand
<1>10. CASE TeardownStop \/ Destroy
  BY <1>10 DEF TeardownStop, Destroy, EarInHand, RadioTypeOK, RadioMain
<1>11. ASSUME NEW e \in Ears, Hear(e) PROVE EarInHand'
  BY <1>11 DEF Hear, EarInHand, NextEar
<1> QED BY <1>1, <1>2, <1>3, <1>4, <1>5, <1>6, <1>7, <1>8, <1>9, <1>10, <1>11
        DEF RRNext, ThreadStep

\* Every step keeps a wakeup behind a queued frame.
LEMMA RadioWake == ASSUME RadioInv, RRNext PROVE WakePending'
<1> USE DEF RadioInv
<1>1. ASSUME NEW e \in Ears, Stamp(e) \/ LoopReturns(e) \/ LoopThrows(e) PROVE WakePending'
  <2>1. /\ thr[e].at = "loop" /\ main' = main /\ queue' = queue /\ ready' = ready
        /\ \A d \in Ears : d # e => thr'[d] = thr[d]
    BY <1>1 DEF Stamp, LoopReturns, LoopThrows, RadioTypeOK
  <2> QED BY <2>1 DEF WakePending
<1>2. ASSUME NEW e \in Ears, Enqueue(e) PROVE WakePending'
  <2>1. thr'[e].at = "queued" BY <1>2 DEF Enqueue, RadioTypeOK
  <2> QED BY <2>1 DEF WakePending
<1>3. ASSUME NEW e \in Ears, Notify(e) PROVE WakePending'
  BY <1>3 DEF Notify, WakePending
<1>4. CASE PollBegin
  BY <1>4 DEF PollBegin, WakePending, RadioTypeOK, RadioMain
<1>5. CASE PollSwap \/ FlushClear BY <1>5 DEF PollSwap, FlushClear, WakePending
<1>6. CASE RecoverStart
  <2>1. main.at = "start" /\ NextEar \in Ears /\ thr[NextEar].at = "done"
    BY <1>6, NextEarIn DEF RecoverStart, EarInHand
  <2>2. \A d \in Ears : d # NextEar => thr'[d] = thr[d]
    BY <1>6 DEF RecoverStart, RadioTypeOK
  <2>3. queue' = queue /\ ready' = ready BY <1>6 DEF RecoverStart
  <2> QED BY <2>1, <2>2, <2>3 DEF WakePending
<1>7. CASE \/ Deliver \/ PollEnds \/ BeginRetune \/ BeginRecover \/ Retune \/ RetunesDone
           \/ FlushBump \/ RecoverStop \/ RecoverTune \/ RecoverUndead \/ RecoversDone
           \/ TeardownStop \/ Destroy
  <2>1. thr' = thr /\ queue' = queue /\ ready' = ready /\ main.at # "swap"
    BY <1>7 DEF Deliver, PollEnds, WakeupLeft, BeginRetune, BeginRecover, Begin, Retune,
                RetunesDone, FlushBump, RecoverStop, RecoverTune, RecoverUndead,
                RecoversDone, TeardownStop, Destroy
  <2> QED BY <2>1 DEF WakePending
<1>8. ASSUME NEW e \in Ears, Hear(e) PROVE WakePending'
  BY <1>8 DEF Hear, WakePending
<1> QED BY <1>1, <1>2, <1>3, <1>4, <1>5, <1>6, <1>7, <1>8 DEF RRNext

\* Every step keeps a death known.
LEMMA RadioDeath == ASSUME RadioInv, RRNext PROVE DeathKnown'
<1> USE DEF RadioInv
<1>1. ASSUME NEW e \in Ears, ThreadStep(e) PROVE DeathKnown'
  <2>1. CASE LoopThrows(e)
    <3>1. loop'[e].dead BY <2>1 DEF LoopThrows, RadioTypeOK
    <3>2. died' = died \cup {e} /\ \A d \in died : d # e => loop'[d].dead = loop[d].dead
      BY <2>1 DEF LoopThrows, RadioTypeOK
    <3> QED BY <3>1, <3>2, <1>1, ThreadFrame DEF DeathKnown
  <2>2. CASE ~LoopThrows(e)
    <3>1. died' = died /\ loop' = loop
      BY <1>1, <2>2 DEF ThreadStep, Stamp, Enqueue, Notify, LoopReturns
    <3> QED BY <1>1, <3>1, ThreadFrame DEF DeathKnown
  <2> QED BY <2>1, <2>2
<1>2. CASE RecoverUndead
  <2>1. main'.at = "start" /\ main'.ears = main.ears /\ main.at = "undead" /\ died' = died
    BY <1>2, RestartOrder DEF RecoverUndead, RadioTypeOK, RadioMain
  <2>2. NextEar' = NextEar BY <2>1 DEF NextEar
  <2>3. \A d \in died : d # NextEar => loop'[d].dead = loop[d].dead
    BY <1>2 DEF RecoverUndead, RadioTypeOK
  <2> QED BY <2>1, <2>2, <2>3 DEF DeathKnown
<1>3. CASE RecoverStart
  <2>1. main.at = "start" /\ died' = died \ {NextEar} BY <1>3 DEF RecoverStart
  <2>2. \A d \in died : loop'[d].dead = loop[d].dead
    BY <1>3 DEF RecoverStart, RadioTypeOK
  <2> QED BY <2>1, <2>2 DEF DeathKnown
<1>4. CASE TeardownStop
  <2>1. main.at = "idle" /\ died' = died BY <1>4 DEF TeardownStop
  <2>2. \A d \in Ears : loop'[d].dead = loop[d].dead
    BY <1>4 DEF TeardownStop, RadioTypeOK
  <2> QED BY <2>1, <2>2 DEF DeathKnown, RadioTypeOK
<1>5. CASE RecoverStop
  <2>1. main.at = "stop" /\ died' = died BY <1>5 DEF RecoverStop
  <2>2. \A d \in Ears : loop'[d].dead = loop[d].dead
    BY <1>5 DEF RecoverStop, RadioTypeOK
  <2> QED BY <2>1, <2>2 DEF DeathKnown, RadioTypeOK
<1>6. CASE \/ PollBegin \/ PollSwap \/ Deliver \/ PollEnds \/ BeginRetune \/ BeginRecover
           \/ Retune \/ RetunesDone \/ FlushBump \/ FlushClear \/ RecoverTune
           \/ RecoversDone \/ Destroy
  <2>1. loop' = loop /\ died' = died /\ main.at # "start"
    BY <1>6 DEF PollBegin, PollSwap, Deliver, PollEnds, BeginRetune, BeginRecover, Begin,
                Retune, RetunesDone, FlushBump, FlushClear, RecoverTune, RecoversDone, Destroy
  <2> QED BY <2>1 DEF DeathKnown
<1>7. ASSUME NEW e \in Ears, Hear(e) PROVE DeathKnown'
  BY <1>7 DEF Hear, DeathKnown, NextEar
<1> QED BY <1>1, <1>2, <1>3, <1>4, <1>5, <1>6, <1>7 DEF RRNext, ThreadStep

\* Once the units are gone nothing moves any more.
LEMMA RadioJoins == ASSUME RadioInv, RRNext PROVE Joins'
<1> USE DEF RadioInv
<1>1. ASSUME NEW e \in Ears, ThreadStep(e) PROVE Joins'
  BY <1>1, ThreadFrame DEF Joins, AllJoined
<1>2. CASE Destroy BY <1>2 DEF Destroy, Joins, AllJoined
<1>3. CASE \/ PollBegin \/ PollSwap \/ Deliver \/ Retune \/ RetunesDone \/ FlushBump
           \/ RecoverStop \/ TeardownStop
  <2>1. main'.at # "gone"
    BY <1>3 DEF PollBegin, PollSwap, Deliver, Retune, RetunesDone, FlushBump,
                RecoverStop, TeardownStop, RadioTypeOK, RadioMain
  <2> QED BY <2>1 DEF Joins
<1>4. CASE PollEnds \/ FlushClear \/ RecoversDone
  <2>1. main'.at # "gone"
    BY <1>4 DEF PollEnds, FlushClear, RecoversDone, Resting, RadioTypeOK, RadioMain
  <2> QED BY <2>1 DEF Joins
<1>5. CASE BeginRetune \/ BeginRecover
  <2>1. main'.at # "gone"
    BY <1>5 DEF BeginRetune, BeginRecover, Begin, RadioTypeOK, RadioMain
  <2> QED BY <2>1 DEF Joins
<1>6. CASE RecoverTune \/ RecoverUndead \/ RecoverStart
  <2>1. main'.at # "gone"
    BY <1>6, RestartOrder DEF RecoverTune, RecoverUndead, RecoverStart, RadioTypeOK, RadioMain
  <2> QED BY <2>1 DEF Joins
<1>7. ASSUME NEW e \in Ears, Hear(e) PROVE Joins'
  BY <1>7 DEF Hear, Joins, AllJoined
<1> QED BY <1>1, <1>2, <1>3, <1>4, <1>5, <1>6, <1>7 DEF RRNext, ThreadStep

\* Nothing new comes into flight and the channels rest: the frames stay current.
LEMMA FramesKept ==
  ASSUME FramesCurrent, UnreadFrames' \subseteq UnreadFrames, flushGen' = flushGen,
         noted' = noted, Settled' => Settled
  PROVE  FramesCurrent'
  BY DEF FramesCurrent

\* Every step keeps the frames on their way current.
LEMMA RadioFrames == ASSUME RadioInv, RRNext PROVE FramesCurrent'
<1> USE DEF RadioInv
<1>0. RadioTypeOK' BY RadioType
<1>1. ASSUME NEW e \in Ears, Hear(e) PROVE FramesCurrent'
  <2> DEFINE f == [ear |-> e, gen |-> 0, chan |-> tuned[e], aired |-> flushGen]
  <2>1. /\ main' = main /\ queue' = queue /\ flushGen' = flushGen /\ noted' = noted
        /\ thr' = thr /\ pipe'[e] = f /\ \A d \in Ears : d # e => pipe'[d] = pipe[d]
    BY <1>1 DEF Hear, RadioTypeOK
  <2>2. UnreadFrames' \subseteq UnreadFrames \cup {f} BY <2>1 DEF UnreadFrames
  <2>3. f.aired <= flushGen /\ f.aired = flushGen /\ f.chan = noted[f.ear]
    BY DEF RadioTypeOK
  <2>4. Settled' = Settled BY <2>1 DEF Settled
  <2> HIDE DEF f
  <2> QED BY <2>1, <2>2, <2>3, <2>4 DEF FramesCurrent
<1>15. ASSUME NEW e \in Ears, Stamp(e) PROVE FramesCurrent'
  <2> DEFINE f == [pipe[e] EXCEPT !.gen = flushGen]
  <2>1. /\ main' = main /\ queue' = queue /\ flushGen' = flushGen /\ noted' = noted
        /\ thr'[e].frame = f /\ \A d \in Ears : d # e => thr'[d] = thr[d]
        /\ pipe'[e] = NoFrame /\ \A d \in Ears : d # e => pipe'[d] = pipe[d]
        /\ pipe[e] # NoFrame
    BY <1>15 DEF Stamp, RadioTypeOK
  <2>2. f.aired = pipe[e].aired /\ f.chan = pipe[e].chan /\ f.ear = pipe[e].ear
    BY DEF RadioTypeOK, AirFrames
  <2> HIDE DEF f
  <2>3. pipe[e] \in UnreadFrames BY <2>1 DEF UnreadFrames
  <2>4. UnreadFrames' \subseteq UnreadFrames \cup {f} BY <2>1 DEF UnreadFrames
  <2>5. Settled' = Settled BY <2>1 DEF Settled
  <2>6. f.aired <= flushGen /\ (Settled /\ f.aired = flushGen => f.chan = noted[f.ear])
    BY <2>2, <2>3 DEF FramesCurrent
  <2> QED BY <2>1, <2>4, <2>5, <2>6 DEF FramesCurrent
<1>2. ASSUME NEW e \in Ears, Enqueue(e) PROVE FramesCurrent'
  <2>1. /\ main' = main /\ flushGen' = flushGen /\ noted' = noted /\ pipe' = pipe
        /\ queue' = Append(DropOldest(queue), thr[e].frame)
        /\ thr[e].at = "stamped" /\ thr'[e].at = "queued"
        /\ \A d \in Ears : d # e => thr'[d] = thr[d]
    BY <1>2 DEF Enqueue, RadioTypeOK
  <2>2. thr[e].frame \in AirFrames /\ queue \in Seq(AirFrames) BY DEF RadioTypeOK
  <2>3. DropOldest(queue) \in Seq(AirFrames) /\ Elements(DropOldest(queue)) \subseteq Elements(queue)
    <3>1. Len(queue) >= RxQueueCap => queue # << >>
      BY <2>2, EmptySeq, RadioRxAssumption
    <3> QED BY <2>2, <3>1, QueueElements DEF DropOldest
  <2>4. Elements(queue') \subseteq Elements(queue) \cup {thr[e].frame}
    BY <2>1, <2>2, <2>3, QueueElements
  <2>5. UnreadFrames' \subseteq UnreadFrames
    <3> SUFFICES ASSUME NEW f \in UnreadFrames' PROVE f \in UnreadFrames OBVIOUS
    <3>1. CASE f \in Elements(queue') BY <2>1, <2>4, <3>1 DEF UnreadFrames
    <3>2. CASE f \in Elements(main.local) BY <3>2 DEF UnreadFrames
    <3>3. CASE f \in {thr'[d].frame : d \in {c \in Ears : thr'[c].at = "stamped"}}
      BY <2>1, <3>3 DEF UnreadFrames
    <3>4. CASE f \in {pipe[d] : d \in {c \in Ears : pipe[c] # NoFrame}}
      BY <3>4 DEF UnreadFrames
    <3> QED BY <2>1, <3>1, <3>2, <3>3, <3>4 DEF UnreadFrames
  <2>6. Settled' = Settled BY <2>1 DEF Settled
  <2> QED BY <2>1, <2>5, <2>6, FramesKept
<1>3. ASSUME NEW e \in Ears, Notify(e) \/ LoopReturns(e) \/ LoopThrows(e)
      PROVE  FramesCurrent'
  <2>1. /\ main' = main /\ queue' = queue /\ flushGen' = flushGen /\ noted' = noted
        /\ pipe' = pipe
        /\ thr'[e].at \in {"loop", "done"} /\ \A d \in Ears : d # e => thr'[d] = thr[d]
    BY <1>3 DEF Notify, LoopReturns, LoopThrows, RadioTypeOK
  <2>2. UnreadFrames' \subseteq UnreadFrames BY <2>1 DEF UnreadFrames
  <2>3. Settled' = Settled BY <2>1 DEF Settled
  <2> QED BY <2>1, <2>2, <2>3, FramesKept
<1>4. CASE PollBegin \/ TeardownStop \/ Destroy
  <2>1. /\ thr' = thr /\ pipe' = pipe /\ queue' = queue /\ flushGen' = flushGen /\ noted' = noted
        /\ main'.local = main.local
    BY <1>4 DEF PollBegin, TeardownStop, Destroy, RadioTypeOK, RadioMain
  <2>2. UnreadFrames' \subseteq UnreadFrames BY <2>1 DEF UnreadFrames
  <2>3. Settled BY <1>4 DEF PollBegin, TeardownStop, Destroy, Settled
  <2> QED BY <2>1, <2>2, <2>3, FramesKept
<1>5. Elements(<< >>) = {}
  <2>1. Len(<< >>) = 0 BY EmptySeq
  <2> QED BY <2>1 DEF Elements
<1>6. CASE PollSwap
  <2>1. /\ thr' = thr /\ pipe' = pipe /\ queue' = << >> /\ flushGen' = flushGen /\ noted' = noted
        /\ main'.local = queue
    BY <1>6 DEF PollSwap, RadioTypeOK, RadioMain
  <2>2. UnreadFrames' \subseteq UnreadFrames BY <1>5, <2>1 DEF UnreadFrames
  <2>3. Settled BY <1>6 DEF PollSwap, Settled
  <2> QED BY <2>1, <2>2, <2>3, FramesKept
<1>7. CASE Deliver
  <2>1. /\ thr' = thr /\ pipe' = pipe /\ queue' = queue /\ flushGen' = flushGen /\ noted' = noted
        /\ main'.local = Tail(main.local) /\ main.local # << >>
    BY <1>7 DEF Deliver, RadioTypeOK, RadioMain
  <2>2. Elements(Tail(main.local)) \subseteq Elements(main.local)
    <3>1. main.local \in Seq(AirFrames) /\ NoFrame \in AirFrames
      BY DEF RadioTypeOK, RadioMain, NoFrame, AirFrames
    <3> QED BY <2>1, <3>1, QueueElements
  <2>3. UnreadFrames' \subseteq UnreadFrames BY <2>1, <2>2 DEF UnreadFrames
  <2>4. Settled BY <1>7 DEF Deliver, Settled
  <2> QED BY <2>1, <2>3, <2>4, FramesKept
<1>8. CASE PollEnds \/ FlushClear
  <2>1. /\ thr' = thr /\ pipe' = pipe /\ Elements(queue') \subseteq Elements(queue) /\ flushGen' = flushGen
        /\ noted' = noted /\ main'.local = << >>
    BY <1>5, <1>8 DEF PollEnds, FlushClear, Resting
  <2>2. UnreadFrames' \subseteq UnreadFrames BY <1>5, <2>1 DEF UnreadFrames
  <2>3. Settled BY <1>8 DEF PollEnds, FlushClear, Settled
  <2> QED BY <2>1, <2>2, <2>3, FramesKept
<1>9. CASE BeginRetune \/ BeginRecover
  <2>1. /\ thr' = thr /\ pipe' = pipe /\ queue' = queue /\ flushGen' = flushGen /\ noted' = noted
        /\ main'.local = main.local /\ main.at = "idle"
    BY <1>9 DEF BeginRetune, BeginRecover, Begin, RadioTypeOK, RadioMain
  <2>2. UnreadFrames' \subseteq UnreadFrames BY <2>1 DEF UnreadFrames
  <2>3. Settled BY <2>1 DEF Settled
  <2> QED BY <2>1, <2>2, <2>3, FramesKept
<1>10. CASE Retune \/ RetunesDone
  <2>1. /\ thr' = thr /\ pipe' = pipe /\ queue' = queue /\ flushGen' = flushGen
        /\ main'.local = main.local /\ main'.at \in {"retune", "bump"}
    BY <1>10 DEF Retune, RetunesDone, RadioTypeOK, RadioMain
  <2>2. UnreadFrames' = UnreadFrames BY <2>1 DEF UnreadFrames
  <2>3. ~Settled' BY <2>1 DEF Settled
  <2> QED BY <2>1, <2>2, <2>3 DEF FramesCurrent
<1>11. CASE FlushBump
  <2>1. /\ thr' = thr /\ pipe' = pipe /\ queue' = queue /\ flushGen' = flushGen + 1 /\ main'.local = main.local
    BY <1>11 DEF FlushBump, RadioTypeOK, RadioMain
  <2>2. UnreadFrames' = UnreadFrames BY <2>1 DEF UnreadFrames
  <2>3. \A f \in UnreadFrames : f.aired \in Nat
    <3>1. Elements(queue) \subseteq AirFrames /\ Elements(main.local) \subseteq AirFrames
      BY ElementOfSeq DEF Elements, RadioTypeOK, RadioMain
    <3>2. \A e \in Ears : thr[e].frame \in AirFrames /\ pipe[e] \in AirFrames
      BY DEF RadioTypeOK
    <3> QED BY <3>1, <3>2 DEF UnreadFrames, AirFrames
  <2>4. \A f \in UnreadFrames : f.aired <= flushGen + 1 /\ f.aired # flushGen + 1
    <3>1. flushGen \in Nat BY DEF RadioTypeOK
    <3>2. \A f \in UnreadFrames : f.aired <= flushGen BY DEF FramesCurrent
    <3> QED BY <2>3, <3>1, <3>2
  <2> QED BY <2>1, <2>2, <2>4 DEF FramesCurrent
<1>12. CASE RecoverStop \/ RecoverUndead \/ RecoverStart
  <2>1. /\ queue' = queue /\ flushGen' = flushGen /\ noted' = noted /\ pipe' = pipe
        /\ main'.local = main.local /\ main'.ok = main.ok
        /\ main.at \in {"stop", "undead", "start"}
        /\ main'.at \in {"join", "start", "stop"}
    <3>1. CASE RecoverStop BY <3>1 DEF RecoverStop, RadioTypeOK, RadioMain
    <3>2. CASE RecoverUndead
      BY <3>2, RestartOrder DEF RecoverUndead, RadioTypeOK, RadioMain
    <3>3. CASE RecoverStart
      BY <3>3, RestartOrder DEF RecoverStart, RadioTypeOK, RadioMain
    <3> QED BY <1>12, <3>1, <3>2, <3>3
  <2>2. \A e \in Ears : thr'[e].at = "stamped" => thr'[e] = thr[e]
    BY <1>12 DEF RecoverStop, RecoverUndead, RecoverStart, RadioTypeOK
  <2>3. UnreadFrames' \subseteq UnreadFrames BY <2>1, <2>2 DEF UnreadFrames
  <2>4. Settled' => Settled BY <2>1 DEF Settled
  <2> QED BY <2>1, <2>3, <2>4, FramesKept
<1>13. CASE RecoverTune
  <2>1. PICK applied \in BOOLEAN :
          /\ noted' = [noted EXCEPT ![NextEar] = IF applied THEN main.target ELSE @]
          /\ main' = [main EXCEPT !.at = "undead", !.ok = @ \/ applied]
    BY <1>13, RestartOrder DEF RecoverTune
  <2>2. /\ thr' = thr /\ pipe' = pipe /\ queue' = queue /\ flushGen' = flushGen /\ main.at = "join"
        /\ main'.local = main.local /\ main'.at = "undead" /\ main'.ok = (main.ok \/ applied)
    BY <1>13, <2>1 DEF RecoverTune, RadioTypeOK, RadioMain
  <2>3. UnreadFrames' = UnreadFrames BY <2>2 DEF UnreadFrames
  <2>4. CASE applied
    <3>1. ~Settled' BY <2>2, <2>4 DEF Settled
    <3> QED BY <2>2, <2>3, <3>1 DEF FramesCurrent
  <2>5. CASE ~applied
    <3>1. noted' = noted BY <2>1, <2>5 DEF RadioTypeOK
    <3>2. Settled' => Settled BY <2>2, <2>5 DEF Settled
    <3> QED BY <2>2, <2>3, <3>1, <3>2, FramesKept
  <2> QED BY <2>4, <2>5
<1>14. CASE RecoversDone
  <2>1. /\ thr' = thr /\ pipe' = pipe /\ queue' = queue /\ flushGen' = flushGen /\ noted' = noted
        /\ main'.local \in {main.local, << >>} /\ main.at = "stop"
        /\ main.ok => main'.at = "bump"
    BY <1>14 DEF RecoversDone, Resting, RadioTypeOK, RadioMain
  <2>2. UnreadFrames' \subseteq UnreadFrames BY <1>5, <2>1 DEF UnreadFrames
  <2>3. Settled' => Settled BY <2>1 DEF Settled
  <2> QED BY <2>1, <2>2, <2>3, FramesKept
<1> QED BY <1>1, <1>2, <1>3, <1>4, <1>6, <1>7, <1>8, <1>9, <1>10, <1>11, <1>12, <1>13,
           <1>14, <1>15 DEF RRNext

\* Every step keeps what was handed over honest.
LEMMA RadioHanded == ASSUME RadioInv, RRNext PROVE ChannelHonest' /\ NothingHanded'
<1> USE DEF RadioInv
<1>1. ASSUME NEW e \in Ears, ThreadStep(e) PROVE ChannelHonest' /\ NothingHanded'
  BY <1>1, ThreadFrame DEF ChannelHonest, NothingHanded
<1>2. CASE Deliver
  <2>1. /\ noted' = noted /\ main.local # << >> /\ main'.at = "deliver"
        /\ main.at = "deliver"
        /\ handed' = IF SinceFlush(Head(main.local)) THEN Head(main.local) ELSE NoFrame
    BY <1>2 DEF Deliver, RadioTypeOK, RadioMain
  <2>2. Head(main.local) \in UnreadFrames
    <3>1. main.local \in Seq(AirFrames) /\ NoFrame \in AirFrames
      BY DEF RadioTypeOK, RadioMain, NoFrame, AirFrames
    <3> QED BY <2>1, <3>1, QueueElements DEF UnreadFrames
  <2>3. Settled BY <2>1 DEF Settled
  <2> DEFINE h == Head(main.local)
  <2>4. SinceFlush(h) /\ h.chan # noted[h.ear] => h.aired < h.gen
    <3>1. h.aired <= flushGen /\ (h.aired = flushGen => h.chan = noted[h.ear])
      BY <2>2, <2>3 DEF FramesCurrent
    <3>2. h.aired \in Nat /\ flushGen \in Nat
      <4>1. h \in AirFrames
        BY <2>1, HeadTailProperties DEF RadioTypeOK, RadioMain
      <4> QED BY <4>1 DEF AirFrames, RadioTypeOK
    <3> QED BY <3>1, <3>2 DEF SinceFlush
  <2>5. NothingHanded' BY <2>1 DEF NothingHanded
  <2> HIDE DEF h
  <2>6. handed' = h \/ handed' = NoFrame BY <2>1 DEF h
  <2>7. handed' # NoFrame => handed' = h /\ SinceFlush(h) BY <2>1 DEF h
  <2>8. ChannelHonest' BY <2>1, <2>4, <2>7 DEF ChannelHonest
  <2> QED BY <2>5, <2>8
<1>3. CASE BeginRetune \/ BeginRecover
  BY <1>3 DEF BeginRetune, BeginRecover, Begin, ChannelHonest, NothingHanded
<1>4. CASE PollBegin \/ PollSwap \/ TeardownStop \/ Destroy \/ PollEnds \/ FlushClear
  <2>1. handed' = handed /\ noted' = noted
        /\ main'.at \in {"swap", "deliver", "joinall", "gone", "idle"}
    <3>1. CASE PollBegin \/ PollSwap
      BY <3>1 DEF PollBegin, PollSwap, RadioTypeOK, RadioMain
    <3>2. CASE TeardownStop \/ Destroy
      BY <3>2 DEF TeardownStop, Destroy, RadioTypeOK, RadioMain
    <3>3. CASE PollEnds \/ FlushClear BY <3>3 DEF PollEnds, FlushClear, Resting
    <3> QED BY <1>4, <3>1, <3>2, <3>3
  <2> QED BY <2>1 DEF ChannelHonest, NothingHanded
<1>5. CASE \/ Retune \/ RetunesDone \/ FlushBump \/ RecoverStop \/ RecoverTune
           \/ RecoverUndead \/ RecoverStart \/ RecoversDone
  <2>1. handed' = handed /\ main.at \in {"retune", "bump", "clear", "stop", "join",
                                         "undead", "start"}
    BY <1>5 DEF Retune, RetunesDone, FlushBump, RecoverStop, RecoverTune, RecoverUndead,
                RecoverStart, RecoversDone
  <2> QED BY <2>1 DEF ChannelHonest, NothingHanded
<1>6. ASSUME NEW e \in Ears, Hear(e) PROVE ChannelHonest' /\ NothingHanded'
  BY <1>6 DEF Hear, ChannelHonest, NothingHanded
<1> QED BY <1>1, <1>2, <1>3, <1>4, <1>5, <1>6 DEF RRNext, ThreadStep

\* Initially every thread listens and nothing is queued.
LEMMA RadioInitially == RRInit => RadioInv
<1> SUFFICES ASSUME RRInit PROVE RadioInv OBVIOUS
<1> USE RadioRxAssumption DEF RRInit
<1>1. NoFrame \in AirFrames /\ << >> \in Seq(AirFrames)
  BY EmptySeq DEF NoFrame, AirFrames
<1>2. AnyTune \in Tunes BY DEF AnyTune
<1>3. main \in RadioMain /\ main.at = "idle" /\ main.ok = FALSE /\ main.local = << >>
  BY <1>1 DEF Resting, RadioMain, MainSteps
<1>4. RadioTypeOK BY <1>1, <1>2, <1>3 DEF RadioTypeOK
<1>5. Elements(<< >>) = {}
  <2>1. Len(<< >>) = 0 BY EmptySeq
  <2> QED BY <2>1 DEF Elements
<1>6. UnreadFrames = {} BY <1>3, <1>5 DEF UnreadFrames
<1> QED BY <1>3, <1>4, <1>6
        DEF RadioInv, EarInHand, FramesCurrent, ChannelHonest, NothingHanded, WakePending,
            DeathKnown, Joins

\* Whatever the interleaving of the RX threads with polling, retunes, recoveries
\* and teardown: frames handed over are of the believed channel unless they were
\* still in the USB pipeline when it was flushed, no queued frame sleeps, no death
\* is hidden and no thread outlives the units (air_radio.cpp).
THEOREM EarsAlwaysSound == RRSpec => []EarsSound
<1>1. RRInit => RadioInv BY RadioInitially
<1>2. RadioInv /\ [RRNext]_rrVars => RadioInv'
  <2> SUFFICES ASSUME RadioInv, [RRNext]_rrVars PROVE RadioInv' OBVIOUS
  <2>1. CASE RRNext
    BY <2>1, RadioType, RadioEar, RadioFrames, RadioHanded, RadioWake, RadioDeath, RadioJoins
       DEF RadioInv
  <2>2. CASE UNCHANGED rrVars
    BY <2>2 DEF rrVars, RadioInv, RadioTypeOK, EarInHand, NextEar, FramesCurrent, UnreadFrames,
                Settled, ChannelHonest, NothingHanded, WakePending, DeathKnown, Joins, AllJoined
  <2> QED BY <2>1, <2>2
<1>3. RadioInv => EarsSound
  BY DEF RadioInv, EarsSound, WakePending, FrameWakes, DeathKnown, DeathTold, Joins,
         TeardownQuiet, AllJoined
<1> QED BY <1>1, <1>2, <1>3, PTL DEF RRSpec

-----------------------------------------------------------------------------
(* The mailbox of an embedding *)

RunStates == {"out", "refused", "claimed", "starting", "loading", "looping", "closing",
              "ok", "failed", "stored", "returned"}
Kinds == {"none", "scout", "vehicle"}

RuntimeTypeOK ==
    /\ node \in [stop : BOOLEAN, used : BOOLEAN, state : {"created", "running", "exited"},
                 rc : {"unset", "failing", "ok", "failed"}]
    /\ run \in [Runners -> RunStates]
    /\ box \in [running : BOOLEAN, next : Nat, applied : Nat,
                pending : [gen : Nat, kind : Kinds], request : BOOLEAN,
                snap : [there : BOOLEAN, gen : Nat, verdict : Nat, age : Nat]]
    /\ iter \in [at : {"off", "top", "apply", "publish", "serve", "request", "refresh",
                       "final"},
                 cmd : [gen : Nat, kind : Kinds], gen : Nat]
    /\ world \in Nat /\ rtEvents \in Nat

Active(r) == run[r] \notin {"out", "refused"}

\* The handle is used by at most one call.
OneRun == /\ \A r, q \in Runners : Active(r) /\ Active(q) => r = q
          /\ node.used => \E r \in Runners : Active(r)
          /\ ~node.used => \A r \in Runners : ~Active(r)

\* Nothing was accepted, applied or published.
Untouched == /\ box.applied = 0 /\ box.snap = NoSnap /\ iter.cmd = NoCmd
Unopened == Untouched /\ box.next = 0 /\ box.pending = NoCmd

\* A snapshot, if there is one, is of the state the loop ended in.
LastWord == box.snap # NoSnap => box.snap.age = world /\ box.snap.gen = box.applied

\* The mailbox and the loop follow the call that owns the handle.
RunPhases ==
    /\ ~node.used => /\ Unopened /\ ~box.running /\ iter.at = "off"
                     /\ node.state # "exited"
    /\ \A r \in Runners : Active(r) =>
          /\ run[r] = "looping" <=> iter.at # "off"
          /\ box.running <=> run[r] \in {"loading", "looping", "closing"}
          /\ run[r] \in {"claimed", "starting"} => Unopened
          /\ run[r] = "loading" => Untouched
          /\ run[r] = "closing" /\ node.rc # "failing" => LastWord
          /\ run[r] = "ok" => LastWord
          /\ run[r] \in {"stored", "returned"} /\ node.rc = "ok" => LastWord
          /\ run[r] \in {"stored", "returned"} => node.rc \in {"ok", "failed"}
          /\ node.state = "exited" => run[r] = "returned"

\* Where the commands are: at most one waits, at most one is in hand, in this order.
Mail ==
    /\ box.pending # NoCmd => /\ box.pending.gen = box.next /\ box.applied < box.next
                              /\ iter.cmd.gen < box.next
    /\ box.pending = NoCmd => \/ box.next \in {0, iter.cmd.gen, box.applied}
                              \/ ~box.running \/ node.rc = "failing"
    /\ iter.cmd.gen <= box.next /\ box.applied <= box.next
    /\ iter.at = "apply" => iter.cmd.gen > box.applied
    /\ iter.at = "publish" => iter.cmd.gen = box.applied
    /\ iter.at \notin {"apply", "publish"} => iter.cmd = NoCmd
    /\ iter.at \in {"request", "refresh", "final"} => iter.gen = box.applied
    /\ box.snap.gen <= box.applied

RuntimeInv == RuntimeTypeOK /\ OneRun /\ RunPhases /\ Mail

\* The calls of the handle: one action of runner r.
RunnerStep(r) == \/ ClaimRun(r) \/ Running(r) \/ PreStopped(r) \/ StartRun(r) \/ StopRun(r)
                 \/ StoreRc(r) \/ Exited(r) \/ PublishFinal(r) \/ RunThrows(r)
                 \/ \E ok \in BOOLEAN : Load(r, ok)
CallerStep == \/ RequestStop \/ CopyCommand
              \/ \E k \in {"scout", "vehicle"} : EnqueueCommand(k)
LoopStep == \/ LoopEnds \/ TakeCommand \/ ApplyCommand \/ PublishApplied \/ CampaignMoves
            \/ ReadApplied \/ TakeRequest \/ PublishRequested

\* A caller of the control block keeps the invariant.
LEMMA CallerKeeps == ASSUME RuntimeInv, CallerStep PROVE RuntimeInv'
<1> USE DEF RuntimeInv
<1>1. CASE RequestStop
  <2>1. /\ node' = [node EXCEPT !.stop = TRUE] /\ run' = run /\ box' = box
        /\ iter' = iter /\ world' = world /\ rtEvents' = rtEvents
    BY <1>1 DEF RequestStop
  <2>2. RuntimeTypeOK' BY <2>1 DEF RuntimeTypeOK
  <2>3. node'.used = node.used /\ node'.state = node.state /\ node'.rc = node.rc
    BY <2>1 DEF RuntimeTypeOK
  <2> QED BY <2>1, <2>2, <2>3 DEF OneRun, RunPhases, Mail, Active, Unopened, Untouched, LastWord
<1>2. CASE CopyCommand
  <2>1. /\ box' = [box EXCEPT !.request = TRUE] /\ run' = run /\ node' = node
        /\ iter' = iter /\ world' = world /\ rtEvents' = rtEvents + 1
    BY <1>2 DEF CopyCommand, RuntimeEvent
  <2>2. RuntimeTypeOK'
    <3>1. rtEvents' \in Nat BY <2>1 DEF RuntimeTypeOK
    <3>2. box' \in [running : BOOLEAN, next : Nat, applied : Nat,
                    pending : [gen : Nat, kind : Kinds], request : BOOLEAN,
                    snap : [there : BOOLEAN, gen : Nat, verdict : Nat, age : Nat]]
      BY <2>1 DEF RuntimeTypeOK
    <3> QED BY <2>1, <3>1, <3>2 DEF RuntimeTypeOK
  <2>3. /\ box'.running = box.running /\ box'.next = box.next /\ box'.applied = box.applied
        /\ box'.pending = box.pending /\ box'.snap = box.snap
    BY <2>1 DEF RuntimeTypeOK
  <2>4. OneRun' /\ RunPhases'
    BY <2>1, <2>3 DEF OneRun, RunPhases, Active, Unopened, Untouched, LastWord
  <2>5. Mail' BY <2>1, <2>3 DEF Mail
  <2> QED BY <2>2, <2>4, <2>5
<1>3. ASSUME NEW k \in {"scout", "vehicle"}, EnqueueCommand(k) PROVE RuntimeInv'
  <2> DEFINE c == [gen |-> box.next + 1, kind |-> k]
  <2>1. /\ box' = [box EXCEPT !.next = @ + 1, !.pending = c] /\ run' = run /\ node' = node
        /\ iter' = iter /\ world' = world /\ rtEvents' = rtEvents /\ box.running
    BY <1>3 DEF EnqueueCommand, MailSlot
  <2>2. c \in [gen : Nat, kind : Kinds] /\ c # NoCmd /\ c.gen = box.next + 1
    BY DEF RuntimeTypeOK, Kinds, NoCmd
  <2> HIDE DEF c
  <2>3. RuntimeTypeOK' BY <2>1, <2>2 DEF RuntimeTypeOK
  <2>4. /\ box'.running = box.running /\ box'.next = box.next + 1
        /\ box'.applied = box.applied /\ box'.pending = c /\ box'.snap = box.snap
    BY <2>1 DEF RuntimeTypeOK
  <2>5. OneRun' /\ RunPhases'
    BY <2>1, <2>4 DEF OneRun, RunPhases, Active, Unopened, Untouched, LastWord
  <2>6. Mail'
    <3>1. box.next \in Nat /\ box.applied \in Nat /\ iter.cmd.gen \in Nat
      BY DEF RuntimeTypeOK
    <3> QED BY <2>1, <2>2, <2>4, <3>1 DEF Mail
  <2> QED BY <2>3, <2>5, <2>6
<1> QED BY <1>1, <1>2, <1>3 DEF CallerStep

\* The loop belongs to the one call that is looping, and keeps the invariant.
LEMMA LoopKeeps == ASSUME RuntimeInv, LoopStep PROVE RuntimeInv'
<1> USE DEF RuntimeInv
<1>0. /\ node' = node /\ run' = run
      /\ iter.at # "off" /\ iter'.at # "off"
      /\ box'.running = box.running /\ box'.next = box.next
  BY DEF LoopStep, LoopEnds, TakeCommand, ApplyCommand, PublishApplied, CampaignMoves,
         ReadApplied, TakeRequest, PublishRequested, Published, RuntimeTypeOK
<1>1. node.used /\ \E r \in Runners : Active(r) BY <1>0 DEF RunPhases, OneRun
<1>2. OneRun' BY <1>0 DEF OneRun, Active
<1>3. RunPhases'
  <2>1. \A r \in Runners : Active(r) => run[r] = "looping" BY <1>0 DEF RunPhases
  <2> QED BY <1>0, <1>1, <2>1 DEF RunPhases, Active
<1>4. RuntimeTypeOK'
  <2> USE DEF RuntimeTypeOK
  <2>1. CASE LoopEnds BY <2>1 DEF LoopEnds
  <2>2. CASE TakeCommand BY <2>2 DEF TakeCommand, NoCmd, Kinds
  <2>3. CASE ApplyCommand BY <2>3 DEF ApplyCommand
  <2>4. CASE PublishApplied BY <2>4 DEF PublishApplied, Published, NoCmd, Kinds
  <2>5. CASE CampaignMoves BY <2>5 DEF CampaignMoves, RuntimeEvent
  <2>6. CASE ReadApplied BY <2>6 DEF ReadApplied
  <2>7. CASE TakeRequest BY <2>7 DEF TakeRequest
  <2>8. CASE PublishRequested BY <2>8 DEF PublishRequested, Published
  <2> QED BY <2>1, <2>2, <2>3, <2>4, <2>5, <2>6, <2>7, <2>8 DEF LoopStep
<1>5. Mail'
  <2>0. /\ box.next \in Nat /\ box.applied \in Nat /\ iter.cmd.gen \in Nat
        /\ box.snap.gen \in Nat /\ box.pending.gen \in Nat
    BY DEF RuntimeTypeOK
  <2>1. CASE LoopEnds BY <2>0, <2>1 DEF LoopEnds, RuntimeTypeOK, Mail
  <2>2. CASE TakeCommand
    <3>1. iter.at = "top" /\ box' = [box EXCEPT !.pending = NoCmd] /\ iter.cmd = NoCmd
      BY <2>2 DEF TakeCommand, Mail
    <3>2. /\ box'.applied = box.applied /\ box'.pending = NoCmd /\ box'.snap = box.snap
          /\ box'.next = box.next
      BY <3>1 DEF RuntimeTypeOK
    <3>3. CASE box.pending = NoCmd
      <4>1. iter'.at = "serve" /\ iter'.cmd = iter.cmd
        BY <2>2, <3>3 DEF TakeCommand, RuntimeTypeOK
      <4> QED BY <1>0, <3>1, <3>2, <3>3, <4>1 DEF Mail
    <3>4. CASE box.pending # NoCmd
      <4>1. iter'.at = "apply" /\ iter'.cmd = box.pending
        BY <2>2, <3>4 DEF TakeCommand, RuntimeTypeOK
      <4> QED BY <1>0, <2>0, <3>1, <3>2, <3>4, <4>1 DEF Mail
    <3> QED BY <3>3, <3>4
  <2>3. CASE ApplyCommand
    <3>1. /\ iter.at = "apply" /\ iter'.at = "publish" /\ iter'.cmd = iter.cmd
          /\ box'.applied = iter.cmd.gen /\ box'.pending = box.pending
          /\ box'.snap = box.snap /\ box'.next = box.next
      BY <2>3 DEF ApplyCommand, RuntimeTypeOK
    <3> QED BY <1>0, <2>0, <3>1 DEF Mail
  <2>4. CASE PublishApplied
    <3>1. /\ iter.at = "publish" /\ iter'.at = "serve" /\ iter'.cmd = NoCmd
          /\ box'.applied = box.applied /\ box'.pending = box.pending
          /\ box'.snap.gen = iter.cmd.gen /\ box'.next = box.next
      BY <2>4 DEF PublishApplied, Published, RuntimeTypeOK
    <3>2. NoCmd.gen = 0 BY DEF NoCmd
    <3> QED BY <1>0, <2>0, <3>1, <3>2 DEF Mail
  <2>5. CASE CampaignMoves BY <2>5 DEF CampaignMoves, Mail
  <2>6. CASE ReadApplied
    <3>1. /\ iter.at = "serve" /\ iter'.at = "request" /\ iter'.cmd = iter.cmd
          /\ iter'.gen = box.applied /\ box' = box
      BY <2>6 DEF ReadApplied, RuntimeTypeOK
    <3> QED BY <1>0, <3>1 DEF Mail
  <2>7. CASE TakeRequest
    <3>1. /\ iter.at = "request" /\ iter'.at \in {"refresh", "top"} /\ iter'.cmd = iter.cmd
          /\ iter'.gen = iter.gen /\ box'.applied = box.applied /\ box'.pending = box.pending
          /\ box'.snap = box.snap /\ box'.next = box.next
      BY <2>7 DEF TakeRequest, RuntimeTypeOK
    <3> QED BY <1>0, <3>1 DEF Mail
  <2>8. CASE PublishRequested
    <3>1. /\ iter.at = "refresh" /\ iter'.at = "top" /\ iter'.cmd = iter.cmd
          /\ box'.applied = box.applied /\ box'.pending = box.pending
          /\ box'.snap.gen = iter.gen /\ box'.next = box.next
      BY <2>8 DEF PublishRequested, Published, RuntimeTypeOK
    <3> QED BY <1>0, <2>0, <3>1 DEF Mail
  <2> QED BY <2>1, <2>2, <2>3, <2>4, <2>5, <2>6, <2>7, <2>8 DEF LoopStep
<1> QED BY <1>2, <1>3, <1>4, <1>5

\* A call of the handle keeps the invariant.
LEMMA RunnerKeeps ==
  ASSUME RuntimeInv, NEW r \in Runners, RunnerStep(r)
  PROVE  RuntimeInv'
<1> USE DEF RuntimeInv
<1>0. \A q \in Runners : q # r => run'[q] = run[q]
  BY DEF RunnerStep, ClaimRun, Running, PreStopped, StartRun, StopRun, StoreRc, Exited,
         PublishFinal, RunThrows, Load, RuntimeTypeOK
<1>1. CASE ClaimRun(r)
  <2>1. /\ run[r] = "out" /\ run'[r] = (IF node.used THEN "refused" ELSE "claimed")
        /\ run' \in [Runners -> RunStates]
        /\ node' = [node EXCEPT !.used = TRUE]
        /\ box' = box /\ iter' = iter /\ world' = world /\ rtEvents' = rtEvents
    BY <1>1 DEF ClaimRun, RuntimeTypeOK, RunStates
  <2>2. node'.used /\ node'.state = node.state /\ node'.rc = node.rc
    BY <2>1 DEF RuntimeTypeOK
  <2>3. RuntimeTypeOK' BY <2>1 DEF RuntimeTypeOK
  <2>4. Mail' BY <2>1 DEF Mail
  <2>5. CASE node.used
    <3>1. \A q \in Runners : Active(q)' <=> Active(q) BY <1>0, <2>1, <2>5 DEF Active
    <3>2. \A q \in Runners : Active(q) => run'[q] = run[q] BY <1>0, <2>1 DEF Active
    <3>3. OneRun' BY <2>2, <2>5, <3>1 DEF OneRun
    <3>4. RunPhases' BY <2>1, <2>2, <3>1, <3>2 DEF RunPhases, Unopened, Untouched, LastWord
    <3> QED BY <2>3, <2>4, <3>3, <3>4
  <2>6. CASE ~node.used
    <3>1. \A q \in Runners : Active(q)' <=> q = r
      BY <1>0, <2>1, <2>6 DEF Active, OneRun
    <3>2. OneRun' BY <2>2, <3>1 DEF OneRun
    <3>3. run'[r] = "claimed" BY <2>1, <2>6
    <3>4. RunPhases' BY <2>1, <2>2, <2>6, <3>1, <3>3 DEF RunPhases, Unopened, Untouched, LastWord
    <3> QED BY <2>3, <2>4, <3>2, <3>4
  <2> QED BY <2>5, <2>6
<1>2. CASE ~ClaimRun(r)
  <2>1. Active(r) /\ run'[r] \in RunStates /\ run'[r] \notin {"out", "refused"}
        /\ run' \in [Runners -> RunStates] /\ node'.used = node.used
    BY <1>2 DEF RunnerStep, Running, PreStopped, StartRun, StopRun, StoreRc, Exited,
                PublishFinal, RunThrows, Load, RuntimeTypeOK, RunStates, Active
  <2>2. node.used /\ \A q \in Runners : Active(q) <=> q = r BY <2>1 DEF OneRun
  <2>3. \A q \in Runners : Active(q)' <=> q = r BY <1>0, <2>1, <2>2 DEF Active
  <2>4. OneRun' BY <2>1, <2>2, <2>3 DEF OneRun
  <2> DEFINE Phase ==
          /\ run[r] = "looping" <=> iter.at # "off"
          /\ box.running <=> run[r] \in {"loading", "looping", "closing"}
          /\ run[r] \in {"claimed", "starting"} => Unopened
          /\ run[r] = "loading" => Untouched
          /\ run[r] = "closing" /\ node.rc # "failing" => LastWord
          /\ run[r] = "ok" => LastWord
          /\ run[r] \in {"stored", "returned"} /\ node.rc = "ok" => LastWord
          /\ run[r] \in {"stored", "returned"} => node.rc \in {"ok", "failed"}
          /\ node.state = "exited" => run[r] = "returned"
  <2>5. Phase BY <2>1 DEF RunPhases
  <2>6. Phase' => RunPhases' BY <2>1, <2>2, <2>3 DEF RunPhases
  <2> HIDE DEF Phase, LastWord
  <2>7. CASE Running(r)
    <3>1. /\ run[r] = "claimed" /\ run'[r] = "starting"
          /\ node' = [node EXCEPT !.state = "running"]
          /\ box' = box /\ iter' = iter /\ world' = world /\ rtEvents' = rtEvents
      BY <2>7 DEF Running, RuntimeTypeOK
    <3>2. node'.state = "running" /\ node'.rc = node.rc BY <3>1 DEF RuntimeTypeOK
    <3>3. RuntimeTypeOK' BY <2>1, <3>1 DEF RuntimeTypeOK
    <3>4. Phase' BY <2>5, <3>1, <3>2 DEF Phase, Unopened, Untouched, LastWord
    <3>5. Mail' BY <3>1, <3>2 DEF Mail
    <3> QED BY <2>4, <2>6, <3>3, <3>4, <3>5
  <2>8. CASE PreStopped(r)
    <3>1. /\ run[r] = "starting" /\ run'[r] = "ok" /\ node' = node
          /\ box' = box /\ iter' = iter /\ world' = world /\ rtEvents' = rtEvents
      BY <2>8 DEF PreStopped, RuntimeTypeOK
    <3>2. RuntimeTypeOK' BY <2>1, <3>1 DEF RuntimeTypeOK
    <3>3. Phase' BY <2>5, <3>1 DEF Phase, Unopened, Untouched, LastWord
    <3> QED BY <2>4, <2>6, <3>1, <3>2, <3>3 DEF Mail
  <2>9. CASE StartRun(r)
    <3>1. /\ run[r] = "starting" /\ run'[r] = "loading" /\ node' = node
          /\ box' = [box EXCEPT !.running = TRUE]
          /\ iter' = iter /\ world' = world /\ rtEvents' = rtEvents
      BY <2>9 DEF StartRun, RuntimeTypeOK
    <3>2. RuntimeTypeOK' BY <2>1, <3>1 DEF RuntimeTypeOK
    <3>3. /\ box'.running /\ box'.next = box.next /\ box'.applied = box.applied
          /\ box'.pending = box.pending /\ box'.snap = box.snap
      BY <3>1 DEF RuntimeTypeOK
    <3>4. Phase' BY <2>5, <3>1, <3>3 DEF Phase, Unopened, Untouched, LastWord
    <3>5. Mail' BY <2>5, <3>1, <3>3 DEF Mail, Phase, Unopened
    <3> QED BY <2>4, <2>6, <3>2, <3>4, <3>5
  <2>10. ASSUME NEW ok \in BOOLEAN, Load(r, ok) PROVE RuntimeInv'
    <3>1. /\ run[r] = "loading" /\ box' = box /\ world' = world /\ rtEvents' = rtEvents
          /\ iter' = (IF ok THEN [iter EXCEPT !.at = "top"] ELSE iter)
          /\ node' = (IF ok THEN node ELSE [node EXCEPT !.rc = "failing"])
          /\ run'[r] = (IF ok THEN "looping" ELSE "closing")
      BY <2>10 DEF Load, RuntimeTypeOK
    <3>2. RuntimeTypeOK' BY <2>1, <3>1 DEF RuntimeTypeOK
    <3>3. /\ iter'.at = (IF ok THEN "top" ELSE iter.at) /\ iter'.cmd = iter.cmd
          /\ node'.state = node.state
      BY <3>1 DEF RuntimeTypeOK
    <3>4. Phase' BY <2>5, <3>1, <3>3 DEF Phase, Untouched, LastWord
    <3>5. Mail'
      <4>1. iter.at = "off" BY <2>5, <3>1 DEF Phase, LastWord
      <4> QED BY <3>1, <3>3, <4>1 DEF Mail
    <3> QED BY <2>4, <2>6, <3>2, <3>4, <3>5
  <2>11. CASE StopRun(r)
    <3>1. /\ run[r] = "closing" /\ node' = node
          /\ run'[r] = (IF node.rc = "failing" THEN "failed" ELSE "ok")
          /\ box' = [box EXCEPT !.running = FALSE, !.pending = NoCmd]
          /\ iter' = iter /\ world' = world /\ rtEvents' = rtEvents
      BY <2>11 DEF StopRun, RuntimeTypeOK
    <3>2. RuntimeTypeOK' BY <2>1, <3>1 DEF RuntimeTypeOK, NoCmd, Kinds
    <3>3. /\ ~box'.running /\ box'.next = box.next /\ box'.applied = box.applied
          /\ box'.pending = NoCmd /\ box'.snap = box.snap
      BY <3>1 DEF RuntimeTypeOK
    <3>4. Phase' BY <2>5, <3>1, <3>3 DEF Phase, LastWord
    <3>5. Mail' BY <3>1, <3>3 DEF Mail
    <3> QED BY <2>4, <2>6, <3>2, <3>4, <3>5
  <2>12. CASE StoreRc(r)
    <3>1. /\ run[r] \in {"ok", "failed"} /\ run'[r] = "stored"
          /\ node' = [node EXCEPT !.rc = run[r]]
          /\ box' = box /\ iter' = iter /\ world' = world /\ rtEvents' = rtEvents
      BY <2>12 DEF StoreRc, RuntimeTypeOK
    <3>2. RuntimeTypeOK' BY <2>1, <3>1 DEF RuntimeTypeOK
    <3>3. node'.state = node.state /\ node'.rc = run[r] BY <3>1 DEF RuntimeTypeOK
    <3>4. Phase' BY <2>5, <3>1, <3>3 DEF Phase, LastWord
    <3>5. Mail' BY <2>5, <3>1 DEF Mail, Phase
    <3> QED BY <2>4, <2>6, <3>2, <3>4, <3>5
  <2>13. CASE Exited(r)
    <3>1. /\ run[r] = "stored" /\ run'[r] = "returned"
          /\ node' = [node EXCEPT !.state = "exited"]
          /\ box' = box /\ iter' = iter /\ world' = world /\ rtEvents' = rtEvents
      BY <2>13 DEF Exited, RuntimeTypeOK
    <3>2. RuntimeTypeOK' BY <2>1, <3>1 DEF RuntimeTypeOK
    <3>3. node'.rc = node.rc BY <3>1 DEF RuntimeTypeOK
    <3>4. Phase' BY <2>5, <3>1, <3>3 DEF Phase, LastWord
    <3>5. Mail' BY <3>1, <3>3 DEF Mail
    <3> QED BY <2>4, <2>6, <3>2, <3>4, <3>5
  <2>14. CASE PublishFinal(r)
    <3>1. /\ run[r] = "looping" /\ run'[r] = "closing" /\ iter.at = "final"
          /\ box' = [box EXCEPT !.snap = [there |-> TRUE, gen |-> iter.gen,
                                          verdict |-> 0, age |-> world]]
          /\ iter' = [iter EXCEPT !.at = "off"]
          /\ node' = node /\ world' = world /\ rtEvents' = rtEvents
      BY <2>14 DEF PublishFinal, FinalPublished, Published, RuntimeTypeOK
    <3>2. RuntimeTypeOK' BY <2>1, <3>1 DEF RuntimeTypeOK
    <3>3. /\ box'.running = box.running /\ box'.next = box.next
          /\ box'.applied = box.applied /\ box'.pending = box.pending
          /\ box'.snap.gen = iter.gen /\ box'.snap.age = world
          /\ iter'.at = "off" /\ iter'.cmd = iter.cmd
      BY <3>1 DEF RuntimeTypeOK
    <3>4. iter.gen = box.applied /\ box.applied \in Nat /\ iter.cmd = NoCmd
      BY <3>1 DEF Mail, RuntimeTypeOK
    <3>5. Phase' BY <2>5, <3>1, <3>3, <3>4 DEF Phase, LastWord
    <3>6. Mail' BY <3>1, <3>3, <3>4 DEF Mail
    <3> QED BY <2>4, <2>6, <3>2, <3>5, <3>6
  <2>15. CASE RunThrows(r)
    <3>1. /\ run[r] = "looping" /\ run'[r] = "closing" /\ box' = box
          /\ iter' = [at |-> "off", cmd |-> NoCmd, gen |-> 0]
          /\ node' = [node EXCEPT !.rc = "failing"] /\ rtEvents' = rtEvents
          /\ world' \in Nat
      BY <2>15 DEF RunThrows, RuntimeTypeOK
    <3>2. RuntimeTypeOK' BY <2>1, <3>1 DEF RuntimeTypeOK, NoCmd, Kinds
    <3>3. node'.state = node.state /\ node'.rc = "failing" BY <3>1 DEF RuntimeTypeOK
    <3>4. Phase' BY <2>5, <3>1, <3>3 DEF Phase
    <3>5. Mail'
      <4>1. iter'.at = "off" /\ iter'.cmd = NoCmd /\ NoCmd.gen = 0 BY <3>1 DEF NoCmd
      <4>2. box.next \in Nat /\ box.applied \in Nat BY DEF RuntimeTypeOK
      <4> QED BY <3>1, <3>3, <4>1, <4>2 DEF Mail
    <3> QED BY <2>4, <2>6, <3>2, <3>4, <3>5
  <2> QED BY <1>2, <2>7, <2>8, <2>9, <2>10, <2>11, <2>12, <2>13, <2>14, <2>15 DEF RunnerStep
<1> QED BY <1>1, <1>2

\* For any number of callers and runners and any interleaving with the loop, no
\* accepted command is lost while the loop runs, and whoever sees EXITED reads the
\* run's own code and, unless an exception or a failed load ended it, the state the
\* loop ended in (rx_runtime_control.cpp, rx_node_c.cpp).
THEOREM RuntimeAlwaysTold == RCSpec => []RuntimeTold
<1>1. RCInit => RuntimeInv
  <2> SUFFICES ASSUME RCInit PROVE RuntimeInv OBVIOUS
  <2>1. RuntimeTypeOK BY DEF RCInit, RuntimeTypeOK, NoCmd, NoSnap, Kinds, RunStates
  <2>2. /\ \A r \in Runners : ~Active(r)
        /\ ~node.used /\ node.state = "created" /\ ~box.running /\ box.next = 0
        /\ box.applied = 0 /\ box.pending = NoCmd /\ box.snap = NoSnap
        /\ iter.at = "off" /\ iter.cmd = NoCmd /\ NoCmd.gen = 0 /\ NoSnap.gen = 0
    BY DEF RCInit, Active, NoCmd, NoSnap
  <2>3. OneRun /\ RunPhases BY <2>2 DEF OneRun, RunPhases, Unopened, Untouched, LastWord
  <2>4. Mail BY <2>2 DEF Mail
  <2> QED BY <2>1, <2>3, <2>4 DEF RuntimeInv
<1>2. RuntimeInv /\ [RCNext]_rcVars => RuntimeInv'
  <2> SUFFICES ASSUME RuntimeInv, [RCNext]_rcVars PROVE RuntimeInv' OBVIOUS
  <2>1. CASE RCNext
    <3>1. CallerStep \/ LoopStep \/ \E r \in Runners : RunnerStep(r)
      BY <2>1 DEF RCNext, CallerStep, LoopStep, RunnerStep
    <3> QED BY <3>1, CallerKeeps, LoopKeeps, RunnerKeeps
  <2>2. CASE UNCHANGED rcVars
    BY <2>2 DEF rcVars, RuntimeInv, RuntimeTypeOK, OneRun, RunPhases, Mail, Active,
                Unopened, Untouched, LastWord
  <2> QED BY <2>1, <2>2
<1>3. RuntimeInv => RuntimeTold
  <2> SUFFICES ASSUME RuntimeInv PROVE RuntimeTold OBVIOUS
  <2>1. NewestIntent
    <3>1. box.pending = NoCmd => box.pending.gen = 0 BY DEF NoCmd
    <3> QED BY <3>1 DEF RuntimeInv, Mail, NewestIntent
  <2>2. FinalTold
    <3> SUFFICES ASSUME node.state = "exited"
                 PROVE  /\ node.rc \in {"ok", "failed"}
                        /\ ~box.running /\ iter.at = "off"
                        /\ node.rc = "ok" => LastWord
      BY DEF FinalTold, LastWord
    <3>1. PICK r \in Runners : Active(r) BY DEF RuntimeInv, OneRun, RunPhases
    <3>2. run[r] = "returned" BY <3>1 DEF RuntimeInv, RunPhases
    <3> QED BY <3>1, <3>2 DEF RuntimeInv, RunPhases, RuntimeTypeOK
  <2> QED BY <2>1, <2>2 DEF RuntimeTold
<1> QED BY <1>1, <1>2, <1>3, PTL DEF RCSpec

-----------------------------------------------------------------------------
(* Where the ground's ears are *)

\* A tuple names a craft, or none; never every craft.
IsLink(t) == t = Tuple(t.craft, t.chan) /\ t.craft \in Flyers \cup {NoFlyer}

TuningShape ==
    /\ sweep = [on |-> sweep.on, todo |-> sweep.todo, ready |-> sweep.ready,
                heard |-> sweep.heard, ext |-> sweep.ext]
    /\ sweep.on \in BOOLEAN /\ sweep.heard \subseteq Flyers
    /\ camp = [phase |-> camp.phase, pend |-> camp.pend, prev |-> camp.prev,
               pstate |-> camp.pstate, intent |-> camp.intent, seen |-> camp.seen]
    /\ camp.phase \in {"idle", "arming", "verifying"} /\ camp.seen \in BOOLEAN
    /\ camp.phase # "idle" => IsLink(camp.pend)
    /\ IsLink(link) /\ \A t \in found : IsLink(t)
    /\ spectator \in BOOLEAN

\* A spectator never runs a switch; everyone else rests on its craft, and where it
\* operates, which is where its link is unless the follower has moved it.
Restful ==
    /\ spectator => /\ camp.phase = "idle"
                    /\ lstate \in {"configured", "tuned", "spectating"}
    /\ ~spectator => rest.craft = link.craft
    /\ ~spectator /\ "followed" \notin slip => op = link.chan /\ rest = link

\* A switch under way remembers the link it may have to go back to, and one that
\* committed and saw the craft's video has its filter.
Switching ==
    /\ camp.phase = "arming" => camp.prev = link /\ lstate = "claiming" /\ ~camp.seen
    /\ camp.phase = "verifying" => /\ lstate = "verifying"
                                   /\ camp.seen => filt \in {link.craft, Wide}

\* The filter lets everything through only in a sweep.
WideInSweep == ~spectator /\ filt = Wide => sweep.on

\* Outside a sweep the ears are together unless a retune of them was refused; under a
\* link that is held or being verified they are on its channel.
Homed ==
    ~sweep.on => /\ "refused" \notin slip => ears.roam = ears.stay
                 /\ slip = {} /\ ~spectator /\ lstate \in {"verifying", "committed"}
                       => ears = All(link.chan)

\* A held link has its filter.
Filtered == lstate = "committed" /\ ~sweep.on => filt = link.craft

TuningInv == TuningShape /\ Restful /\ Switching /\ WideInSweep /\ Homed /\ Filtered

\* Where a retune of all ears leaves them.
LEMMA RestoredTogether ==
  ASSUME NEW ch, NEW ok \in BOOLEAN, NEW tried, Restored(ch, ok, tried)
  PROVE  /\ ok => ears' = All(ch) /\ ears'.roam = ears'.stay /\ Refusal(ok) = {}
         /\ ~ok => "refused" \in Refusal(ok)
         /\ "followed" \notin Refusal(ok)
  BY DEF Restored, All, Refusal

\* What was heard in a dwell names crafts.
LEMMA CandidatesNamed ==
  ASSUME TuningShape
  PROVE  (\A t \in Finalized : IsLink(t)) /\ (\A t \in Abandoned : IsLink(t))
<1>1. \A ch : \A c \in Flyers : IsLink(Tuple(c, ch)) BY DEF IsLink, Tuple
<1> QED BY <1>1 DEF Finalized, Abandoned, TuningShape

\* A sweep that ends puts the filter, and the ears that answer, back on the link.
LEMMA RestKeeps ==
  ASSUME TuningInv, NEW ok \in BOOLEAN, Rest(ok), found' = Finalized,
         UNCHANGED <<rest, op, link, lstate, camp, spectator>>
  PROVE  TuningInv'
<1> USE DEF TuningInv
<1>1. /\ sweep' = Idle /\ Restored(rest.chan, ok, {}) /\ filt' = rest.craft
      /\ slip' = Followed \cup Refusal(ok) /\ ~Idle.on /\ Idle.heard = {}
  BY DEF Rest, Idle
<1>2. TuningShape'
  <2>1. sweep' = [on |-> sweep'.on, todo |-> sweep'.todo, ready |-> sweep'.ready,
                  heard |-> sweep'.heard, ext |-> sweep'.ext]
    BY <1>1 DEF Idle
  <2>2. sweep'.on \in BOOLEAN /\ sweep'.heard \subseteq Flyers BY <1>1 DEF Idle
  <2> QED BY <2>1, <2>2, CandidatesNamed DEF TuningShape, IsLink
<1>3. "followed" \notin slip' => "followed" \notin slip BY <1>1 DEF Followed
<1>4. Restful' BY <1>3 DEF Restful
<1>5. ~spectator => filt' = link.craft BY <1>1 DEF Restful
<1>6. Switching' BY <1>5 DEF Switching, Restful
<1>7. link.craft # Wide BY TuningAssumption DEF TuningShape, IsLink, NoFlyer, Wide
<1>8. WideInSweep' BY <1>5, <1>7 DEF WideInSweep
<1>9. Homed'
  <2>1. "refused" \notin slip' => ok BY <1>1, RestoredTogether
  <2>2. ok => ears' = All(rest.chan) /\ ears'.roam = ears'.stay BY <1>1, RestoredTogether
  <2>3. slip' = {} => "followed" \notin slip BY <1>3
  <2> QED BY <2>1, <2>2, <2>3 DEF Homed, Restful, All
<1>10. Filtered' BY <1>5 DEF Filtered, Restful
<1> QED BY <1>2, <1>4, <1>6, <1>8, <1>9, <1>10

\* A dwell on a new channel leaves everything to the sweep.
LEMMA EnterKeeps ==
  ASSUME TuningInv, NEW todo, NEW ok \in BOOLEAN, Enter(todo, ok),
         \A t \in found' : IsLink(t), filt' = Wide \/ filt' = filt,
         rest' = rest \/ rest' = Tuple(link.craft, op),
         UNCHANGED <<op, link, lstate, camp, slip, spectator>>
  PROVE  TuningInv'
<1> USE DEF TuningInv
<1>1. /\ sweep' = [on |-> TRUE, todo |-> todo, ready |-> ok, heard |-> {}, ext |-> FALSE]
      /\ sweep'.on
  BY DEF Enter
<1>2. TuningShape'
  <2>1. sweep' = [on |-> sweep'.on, todo |-> sweep'.todo, ready |-> sweep'.ready,
                  heard |-> sweep'.heard, ext |-> sweep'.ext]
    BY <1>1
  <2>2. sweep'.on \in BOOLEAN /\ sweep'.heard \subseteq Flyers BY <1>1
  <2> QED BY <2>1, <2>2 DEF TuningShape, IsLink
<1>3. Restful'
  <2>1. Tuple(link.craft, op).craft = link.craft BY DEF Tuple
  <2>2. op = link.chan => Tuple(link.craft, op) = link BY DEF TuningShape, IsLink
  <2> QED BY <2>1, <2>2 DEF Restful
<1> QED BY <1>1, <1>2, <1>3 DEF Switching, WideInSweep, Homed, Filtered

\* The sweep's own steps keep the invariant.
LEMMA SweepKeeps ==
  ASSUME TuningInv,
         \/ \E q \in Orders, ok \in BOOLEAN : StartSweep(q, ok)
         \/ \E ok \in BOOLEAN : StopSweep(ok)
         \/ \E c \in Flyers : FrameHeard(c)
         \/ \E ok \in BOOLEAN : DwellEnds(ok)
  PROVE  TuningInv'
<1>1. ASSUME NEW q \in Orders, NEW ok \in BOOLEAN, StartSweep(q, ok) PROVE TuningInv'
  BY <1>1, EnterKeeps DEF StartSweep
<1>2. ASSUME NEW ok \in BOOLEAN, StopSweep(ok) PROVE TuningInv'
  BY <1>2, RestKeeps DEF StopSweep
<1>3. ASSUME UNCHANGED <<rest, found, ears, filt, op, link, lstate, camp, slip, spectator>>,
             sweep' = [on |-> sweep.on, todo |-> sweep'.todo, ready |-> sweep'.ready,
                       heard |-> sweep'.heard, ext |-> sweep'.ext],
             sweep'.heard \subseteq Flyers
      PROVE  TuningInv'
  <2>1. sweep'.on = sweep.on BY <1>3
  <2> QED BY <1>3, <2>1 DEF TuningInv, TuningShape, IsLink, Restful, Switching, WideInSweep,
             Homed, Filtered
<1>4. ASSUME NEW c \in Flyers, FrameHeard(c) PROVE TuningInv'
  <2>1. /\ sweep' = [on |-> sweep.on, todo |-> sweep'.todo, ready |-> sweep'.ready,
                     heard |-> sweep'.heard, ext |-> sweep'.ext]
        /\ sweep'.heard \subseteq Flyers
    BY <1>4 DEF FrameHeard, TuningInv, TuningShape
  <2> QED BY <1>3, <1>4, <2>1 DEF FrameHeard
<1>5. ASSUME NEW ok \in BOOLEAN, DwellEnds(ok) PROVE TuningInv'
  <2>1. CASE sweep.heard # {} /\ ~sweep.ext
    <3>1. /\ sweep' = [on |-> sweep.on, todo |-> sweep'.todo, ready |-> sweep'.ready,
                       heard |-> sweep'.heard, ext |-> sweep'.ext]
          /\ sweep'.heard \subseteq Flyers
      BY <1>5, <2>1 DEF DwellEnds, TuningInv, TuningShape
    <3> QED BY <1>3, <1>5, <2>1, <3>1 DEF DwellEnds
  <2>2. CASE ~(sweep.heard # {} /\ ~sweep.ext) /\ Len(sweep.todo) = 1
    BY <1>5, <2>2, RestKeeps DEF DwellEnds
  <2>3. CASE ~(sweep.heard # {} /\ ~sweep.ext) /\ Len(sweep.todo) # 1
    <3>1. \A t \in Finalized : IsLink(t) BY CandidatesNamed DEF TuningInv
    <3> QED BY <1>5, <2>3, <3>1, EnterKeeps DEF DwellEnds
  <2> QED BY <2>1, <2>2, <2>3
<1> QED BY <1>1, <1>2, <1>4, <1>5

\* A selection, a switch, a follow or a move keeps the invariant.
LEMMA OperatorKeeps ==
  ASSUME TuningInv,
         \/ \E t \in found, ok, back \in BOOLEAN : Claim(t, ok, back)
         \/ \E t \in found, ok \in BOOLEAN : SpectatorSelect(t, ok)
         \/ \E ch \in Chans : Csa(ch)
         \/ \E ch \in Chans, ok \in BOOLEAN : FollowRetune(ch, ok)
         \/ \E ch \in Chans, ok, back \in BOOLEAN : Move(ch, ok, back)
  PROVE  TuningInv'
<1> USE DEF TuningInv
<1>0. /\ Idle = [on |-> Idle.on, todo |-> Idle.todo, ready |-> Idle.ready,
                 heard |-> Idle.heard, ext |-> Idle.ext]
      /\ Idle.on = FALSE /\ Idle.heard = {} /\ Wide \notin Flyers /\ NoFlyer # Wide
  BY TuningAssumption DEF Idle, NoFlyer, Wide
<1>a. \A ch : All(ch).roam = All(ch).stay BY DEF All
<1>b. "refused" \notin Followed /\ ("followed" \notin Followed => "followed" \notin slip)
  BY DEF Followed
<1>1. ASSUME NEW t \in found, NEW back \in BOOLEAN, Claim(t, TRUE, back) PROVE TuningInv'
  <2>1. /\ sweep' = Idle /\ found' = Abandoned /\ ears' = All(t.chan) /\ filt' = t.craft
        /\ lstate' = "claiming" /\ ~spectator /\ spectator' = spectator /\ slip' = Followed
        /\ camp' = [phase |-> "arming", pend |-> t, prev |-> link, pstate |-> lstate,
                    intent |-> "acquire", seen |-> FALSE]
        /\ rest' = rest /\ op' = op /\ link' = link
    BY <1>1 DEF Claim
  <2>2. camp'.phase = "arming" /\ camp'.pend = t /\ camp'.prev = link /\ ~camp'.seen BY <2>1
  <2>3. IsLink(t) BY DEF TuningShape
  <2>4. TuningShape' BY <1>0, <2>1, <2>2, <2>3, CandidatesNamed DEF TuningShape, IsLink
  <2>5. Restful' /\ Switching' BY <1>b, <2>1, <2>2 DEF Restful, Switching
  <2>6. WideInSweep' BY <1>0, <2>1, <2>3 DEF WideInSweep, IsLink
  <2>7. Homed' /\ Filtered' BY <1>a, <2>1 DEF Homed, Filtered
  <2> QED BY <2>4, <2>5, <2>6, <2>7
<1>2. ASSUME NEW t \in found, NEW back \in BOOLEAN, Claim(t, FALSE, back) PROVE TuningInv'
  <2>1. /\ sweep' = Idle /\ found' = Abandoned /\ Restored(link.chan, back, {t.chan})
        /\ filt' = link.craft /\ lstate' = lstate /\ camp' = camp /\ ~Campaign
        /\ ~spectator /\ spectator' = spectator /\ rest' = rest /\ op' = op /\ link' = link
        /\ slip' = Followed \cup Refusal(back)
    BY <1>2 DEF Claim
  <2>2. TuningShape' BY <1>0, <2>1, CandidatesNamed DEF TuningShape, IsLink
  <2>3. Restful' /\ Switching' BY <1>b, <2>1 DEF Restful, Switching, Campaign
  <2>4. /\ "refused" \notin slip' => back
        /\ back => ears' = All(link.chan) /\ ears'.roam = ears'.stay
    BY <2>1, RestoredTogether
  <2>5. Homed' /\ Filtered' BY <2>1, <2>4 DEF Homed, Filtered, All
  <2>6. WideInSweep' BY <1>0, <2>1 DEF WideInSweep, TuningShape, IsLink
  <2> QED BY <2>2, <2>3, <2>5, <2>6
<1>3. ASSUME NEW t \in found, NEW ok \in BOOLEAN, SpectatorSelect(t, ok) PROVE TuningInv'
  <2>1. /\ sweep' = Idle /\ found' = Abandoned /\ spectator /\ spectator' = spectator
        /\ camp' = camp /\ link' \in {t, link} /\ lstate' \in {"tuned", lstate}
        /\ ears' = All(t.chan) \/ "refused" \in slip'
    BY <1>3 DEF SpectatorSelect
  <2>2. TuningShape' BY <1>0, <2>1, CandidatesNamed DEF TuningShape, IsLink
  <2>3. Restful' BY <2>1 DEF Restful
  <2>4. lstate' \in {"configured", "tuned", "spectating"} BY <2>1 DEF Restful
  <2>5. Homed' /\ Filtered' BY <1>a, <2>1, <2>4 DEF Homed, Filtered
  <2> QED BY <2>1, <2>2, <2>3, <2>5 DEF Restful, Switching, WideInSweep
<1>4. ASSUME NEW ch \in Chans, Csa(ch) PROVE TuningInv'
  <2>1. /\ camp' = [phase |-> "arming", pend |-> Tuple(link.craft, ch), prev |-> link,
                    pstate |-> lstate, intent |-> "retune", seen |-> FALSE]
        /\ lstate' = "claiming" /\ ~spectator /\ ~Campaign
        /\ UNCHANGED <<sweep, rest, found, ears, filt, op, link, slip, spectator>>
    BY <1>4 DEF Csa
  <2>2. /\ camp'.phase = "arming" /\ camp'.pend = Tuple(link.craft, ch) /\ camp'.prev = link
        /\ ~camp'.seen
    BY <2>1
  <2>3. IsLink(Tuple(link.craft, ch)) BY DEF TuningShape, IsLink, Tuple
  <2>4. TuningShape' BY <2>1, <2>2, <2>3 DEF TuningShape, IsLink
  <2> QED BY <2>1, <2>2, <2>4 DEF Restful, Switching, WideInSweep, Homed, Filtered
<1>5. ASSUME NEW ch \in Chans, NEW ok \in BOOLEAN, FollowRetune(ch, ok) PROVE TuningInv'
  <2>1. /\ UNCHANGED <<sweep, rest, found, filt, link, lstate, camp, spectator>>
        /\ Restored(ch, ok, {}) /\ slip' = {"followed"} \cup Refusal(ok)
    BY <1>5 DEF FollowRetune
  <2>2. TuningShape' BY <2>1 DEF TuningShape, IsLink
  <2>3. /\ "refused" \notin slip' => ears'.roam = ears'.stay
        /\ "followed" \in slip'
    BY <2>1, RestoredTogether
  <2>4. Homed' BY <2>1, <2>3 DEF Homed
  <2> QED BY <2>1, <2>2, <2>3, <2>4 DEF Restful, Switching, WideInSweep, Filtered
<1>6. ASSUME NEW ch \in Chans, NEW back \in BOOLEAN, Move(ch, TRUE, back) PROVE TuningInv'
  <2>1. /\ sweep' = Idle /\ found' = Abandoned /\ ears' = All(ch) /\ filt' = NoFlyer
        /\ op' = ch /\ link' = Tuple(NoFlyer, ch) /\ rest' = Tuple(NoFlyer, ch)
        /\ lstate' = "spectating" /\ camp' = camp /\ spectator' = spectator /\ ~Campaign
    BY <1>6 DEF Move
  <2>2. IsLink(link') /\ link'.chan = ch BY <2>1 DEF IsLink, Tuple
  <2>3. TuningShape' BY <1>0, <2>1, <2>2, CandidatesNamed DEF TuningShape, IsLink
  <2>4. Restful' BY <2>1, <2>2 DEF Restful
  <2>5. Homed' /\ Filtered' BY <1>a, <2>1 DEF Homed, Filtered
  <2> QED BY <1>0, <2>1, <2>3, <2>4, <2>5 DEF Switching, WideInSweep, Campaign
<1>7. ASSUME NEW ch \in Chans, NEW back \in BOOLEAN, Move(ch, FALSE, back) PROVE TuningInv'
  <2>1. /\ Restored(op, back, {ch}) /\ ~Campaign /\ slip' = Followed \cup Refusal(back)
        /\ UNCHANGED <<sweep, found, filt, op, link, rest, lstate, camp, spectator>>
    BY <1>7 DEF Move
  <2>2. TuningShape' BY <2>1 DEF TuningShape, IsLink
  <2>3. /\ "refused" \notin slip' => back
        /\ back => ears' = All(op) /\ ears'.roam = ears'.stay
    BY <2>1, RestoredTogether
  <2>4. Restful' BY <1>b, <2>1 DEF Restful
  <2>5. Homed' BY <1>b, <2>1, <2>3 DEF Homed, Restful, All
  <2> QED BY <2>1, <2>2, <2>4, <2>5 DEF Switching, WideInSweep, Filtered, Campaign
<1> QED BY <1>1, <1>2, <1>3, <1>4, <1>5, <1>6, <1>7

\* The steps of a switch keep the invariant.
LEMMA IssuerKeeps ==
  ASSUME TuningInv,
         \/ \E ok \in BOOLEAN : IssuerAborts(ok)
         \/ \E ok, back, went \in BOOLEAN : IssuerCommits(ok, back, went)
         \/ VideoHeard \/ IssuerCloses
  PROVE  TuningInv'
<1> USE DEF TuningInv
<1>0. /\ NoCamp.phase = "idle" /\ NoCamp.seen = FALSE
      /\ NoCamp = [phase |-> NoCamp.phase, pend |-> NoCamp.pend, prev |-> NoCamp.prev,
                   pstate |-> NoCamp.pstate, intent |-> NoCamp.intent, seen |-> NoCamp.seen]
      /\ Wide \notin Flyers /\ NoFlyer # Wide
  BY TuningAssumption DEF NoCamp, NoFlyer, Wide
<1>b. "refused" \notin Followed /\ ("followed" \notin Followed => "followed" \notin slip)
  BY DEF Followed
<1>1. ASSUME NEW ok \in BOOLEAN, IssuerAborts(ok), camp.intent = "acquire" PROVE TuningInv'
  <2>1. /\ camp.phase = "arming" /\ link' = camp.pend /\ op' = camp.pend.chan
        /\ rest' = camp.pend /\ lstate' = "select_failed" /\ camp' = NoCamp
        /\ UNCHANGED <<ears, filt, sweep, found, slip, spectator>>
    BY <1>1 DEF IssuerAborts
  <2>2. ~spectator BY <2>1 DEF Restful, TuningShape
  <2>3. TuningShape' BY <1>0, <2>1 DEF TuningShape, IsLink
  <2> QED BY <1>0, <2>1, <2>2, <2>3 DEF Restful, Switching, WideInSweep, Homed, Filtered
<1>2. ASSUME NEW ok \in BOOLEAN, IssuerAborts(ok), camp.intent # "acquire" PROVE TuningInv'
  <2>1. /\ camp.phase = "arming" /\ Restored(link.chan, ok, {}) /\ filt' = link.craft
        /\ op' = link.chan /\ lstate' = camp.pstate /\ camp' = NoCamp
        /\ slip' = Followed \cup Refusal(ok)
        /\ UNCHANGED <<link, rest, sweep, found, spectator>>
    BY <1>2 DEF IssuerAborts
  <2>2. ~spectator BY <2>1 DEF Restful, TuningShape
  <2>3. TuningShape' BY <1>0, <2>1 DEF TuningShape, IsLink
  <2>4. WideInSweep' BY <1>0, <2>1 DEF WideInSweep, TuningShape, IsLink
  <2>5. /\ "refused" \notin slip' => ok
        /\ ok => ears' = All(link.chan) /\ ears'.roam = ears'.stay
    BY <2>1, RestoredTogether
  <2>6. Homed' /\ Filtered' BY <2>1, <2>5 DEF Homed, Filtered, All
  <2> QED BY <1>0, <1>b, <2>1, <2>2, <2>3, <2>4, <2>6 DEF Restful, Switching
<1>3. ASSUME NEW back \in BOOLEAN, NEW went \in BOOLEAN, IssuerCommits(TRUE, back, went)
      PROVE  TuningInv'
  <2>1. /\ camp.phase = "arming" /\ ears' = All(camp.pend.chan) /\ op' = camp.pend.chan
        /\ link' = camp.pend /\ rest' = camp.pend /\ lstate' = "verifying"
        /\ camp' = [camp EXCEPT !.phase = "verifying"] /\ filt' = filt /\ slip' = {}
        /\ UNCHANGED <<sweep, found, spectator>>
    BY <1>3 DEF IssuerCommits, RestMoved
  <2>2. ~spectator BY <2>1 DEF Restful, TuningShape
  <2>3. /\ camp'.phase = "verifying" /\ camp'.pend = camp.pend /\ camp'.seen = camp.seen
        /\ camp' = [phase |-> camp'.phase, pend |-> camp'.pend, prev |-> camp'.prev,
                    pstate |-> camp'.pstate, intent |-> camp'.intent, seen |-> camp'.seen]
    BY <2>1 DEF TuningShape
  <2>4. TuningShape' BY <2>1, <2>3 DEF TuningShape, IsLink
  <2>5. Homed' /\ Filtered' BY <2>1 DEF Homed, Filtered, All
  <2>6. ~camp.seen BY <2>1 DEF Switching
  <2> QED BY <2>1, <2>2, <2>3, <2>4, <2>5, <2>6 DEF Restful, Switching, WideInSweep
<1>4. ASSUME NEW back \in BOOLEAN, NEW went \in BOOLEAN, IssuerCommits(FALSE, back, went)
      PROVE  TuningInv'
  <2>1. /\ camp.phase = "arming" /\ Restored(camp.prev.chan, back, {camp.pend.chan})
        /\ op' = camp.prev.chan /\ slip' = Refusal(back)
        /\ filt' = camp.prev.craft /\ link' = camp.prev /\ rest' = camp.prev
        /\ lstate' = camp.pstate /\ camp' = NoCamp
        /\ UNCHANGED <<sweep, found, spectator>>
    BY <1>4 DEF IssuerCommits
  <2>2. ~spectator /\ camp.prev = link BY <2>1 DEF Restful, TuningShape, Switching
  <2>3. TuningShape' BY <1>0, <2>1, <2>2 DEF TuningShape, IsLink
  <2>4. WideInSweep' BY <1>0, <2>1, <2>2 DEF WideInSweep, TuningShape, IsLink
  <2>5. /\ "refused" \notin slip' => back
        /\ back => ears' = All(link.chan) /\ ears'.roam = ears'.stay
    BY <2>1, <2>2, RestoredTogether
  <2>6. Homed' /\ Filtered' BY <2>1, <2>2, <2>5 DEF Homed, Filtered, All
  <2> QED BY <1>0, <2>1, <2>2, <2>3, <2>4, <2>6 DEF Restful, Switching
<1>5. CASE VideoHeard
  <2>1. /\ camp.phase = "verifying" /\ filt \in {link.craft, Wide}
        /\ camp' = [camp EXCEPT !.seen = TRUE]
        /\ UNCHANGED <<sweep, rest, found, ears, filt, op, link, lstate, slip, spectator>>
    BY <1>5 DEF VideoHeard
  <2>2. /\ camp'.phase = "verifying" /\ camp'.pend = camp.pend /\ camp'.seen = TRUE
        /\ camp' = [phase |-> camp'.phase, pend |-> camp'.pend, prev |-> camp'.prev,
                    pstate |-> camp'.pstate, intent |-> camp'.intent, seen |-> camp'.seen]
    BY <2>1 DEF TuningShape
  <2>3. TuningShape' BY <2>1, <2>2 DEF TuningShape, IsLink
  <2> QED BY <2>1, <2>2, <2>3 DEF Restful, Switching, WideInSweep, Homed, Filtered
<1>6. CASE IssuerCloses
  <2>1. /\ camp.phase = "verifying" /\ camp' = NoCamp
        /\ lstate' = (IF ~camp.seen THEN "select_failed"
                     ELSE IF lstate = "verifying" THEN "committed" ELSE lstate)
        /\ UNCHANGED <<sweep, rest, found, ears, filt, op, link, slip, spectator>>
    BY <1>6 DEF IssuerCloses
  <2>2. ~spectator /\ lstate = "verifying" /\ (camp.seen => filt \in {link.craft, Wide})
    BY <2>1 DEF Restful, TuningShape, Switching
  <2>3. TuningShape' BY <1>0, <2>1 DEF TuningShape, IsLink
  <2>4. Homed' BY <2>1, <2>2 DEF Homed
  <2>5. Filtered' BY <2>1, <2>2 DEF Filtered, WideInSweep
  <2> QED BY <1>0, <2>1, <2>2, <2>3, <2>4, <2>5 DEF Restful, Switching, WideInSweep
<1> QED BY <1>1, <1>2, <1>3, <1>4, <1>5, <1>6

\* For every set of crafts and channels and any interleaving of sweeps, claims,
\* switches, moves, follows and retunes that fail, a craft reported committed is the one
\* the filter is on; every ear is on its channel unless a refused retune, or a followed
\* switch, took them away (rx_node.cpp, discovery.h).
THEOREM CommittedAlwaysTuned == GTSpec => []CommittedTuned
<1>1. GTInit => TuningInv
  <2> SUFFICES ASSUME GTInit PROVE TuningInv OBVIOUS
  <2>1. TuningShape
    BY DEF GTInit, TuningShape, Idle, NoCamp, IsLink, Tuple
  <2>2. Restful /\ Switching
    BY DEF GTInit, Restful, Switching, Tuple, NoCamp
  <2>3. WideInSweep BY DEF GTInit, WideInSweep, Wide, NoFlyer
  <2>4. Homed /\ Filtered BY DEF GTInit, Homed, Filtered, Tuple, All
  <2> QED BY <2>1, <2>2, <2>3, <2>4 DEF TuningInv
<1>2. TuningInv /\ [GTNext]_gtVars => TuningInv'
  <2> SUFFICES ASSUME TuningInv, [GTNext]_gtVars PROVE TuningInv' OBVIOUS
  <2>1. CASE GTNext BY <2>1, SweepKeeps, OperatorKeeps, IssuerKeeps DEF GTNext
  <2>2. CASE UNCHANGED gtVars
    BY <2>2 DEF gtVars, TuningInv, TuningShape, IsLink, Restful, Switching, WideInSweep,
                Homed, Filtered
  <2> QED BY <2>1, <2>2
<1>3. TuningInv => CommittedTuned
  <2> SUFFICES ASSUME TuningInv, lstate = "committed", ~sweep.on, ~Campaign
               PROVE  /\ filt = link.craft
                      /\ "refused" \notin slip => ears.roam = ears.stay
                      /\ slip = {} => ears = All(link.chan) /\ op = link.chan
    BY DEF CommittedTuned
  <2>1. ~spectator BY DEF TuningInv, Restful, TuningShape
  <2> QED BY <2>1 DEF TuningInv, Homed, Filtered, Restful
<1> QED BY <1>1, <1>2, <1>3, PTL DEF GTSpec

-----------------------------------------------------------------------------
(* The return lane *)

Stamps == Nat \X Nat
LaneTypeOK ==
    /\ gap \in [at : BOOLEAN, anchored : BOOLEAN]
    /\ fallback \in [reports : BOOLEAN, uplink : BOOLEAN]
    /\ returns \in [urgent : Nat, fresh : Seq(Nat), again : Seq(Stamps)]
    /\ uplink \in [Streams -> [seq : Nat, held : Seq(Nat)]]
    /\ epoch \in Nat /\ aired \in SUBSET Stamps
    /\ made \in [reports : Nat, urgent : Nat]

\* A window that is not set is not anchored, so what waits for the anchor has a window.
AnchorIsSet == gap.anchored => gap.at

\* Unless the radio refused a report, the epochs on the air are spent ones and a
\* repeat is of a report that was on the air under that epoch.
StampsSpent ==
    ~refused => /\ \A a \in aired : a[1] <= epoch
                /\ Elements(returns.again) \subseteq aired

LaneInv == LaneTypeOK /\ AnchorIsSet /\ StampsSpent /\ LaneSound

\* The stamps of a batch the radio took whole are the next epochs, in order.
LEMMA StampsOfWholeBatch ==
  ASSUME NEW batch \in Seq(Nat), epoch \in Nat
  PROVE  LET s == StampedBatch(batch, DOMAIN batch) IN
         /\ DOMAIN batch = 1..Len(batch) /\ Len(batch) \in Nat
         /\ Cardinality(DOMAIN batch) = Len(batch)
         /\ s \in Seq(Stamps) /\ Len(s) = Len(batch)
         /\ \A i \in 1..Len(batch) : s[i] = <<epoch + i, batch[i]>>
<1> DEFINE n == Len(batch)
           s == StampedBatch(batch, DOMAIN batch)
<1>1. n \in Nat /\ DOMAIN batch = 1..n /\ batch \in [1..n -> Nat] BY LenProperties
<1>2. Cardinality(DOMAIN batch) = n
  <2>1. n \in Int /\ 1 \in Int BY <1>1
  <2>2. Cardinality(1..n) = IF 1 > n THEN 0 ELSE n - 1 + 1 BY <2>1, FS_Interval, Zenon
  <2> HIDE DEF n
  <2> QED BY <1>1, <2>2
<1>3. ASSUME NEW i \in 1..n PROVE SpentBefore(DOMAIN batch, i) = i - 1
  <2>1. {j \in DOMAIN batch : j < i} = 1..(i - 1) BY <1>1
  <2> DEFINE k == i - 1
  <2>2. k \in Nat /\ k \in Int /\ 1 \in Int BY <1>1
  <2>3. Cardinality(1..k) = IF 1 > k THEN 0 ELSE k - 1 + 1 BY <2>2, FS_Interval, Zenon
  <2>4. SpentBefore(DOMAIN batch, i) = Cardinality(1..k) BY <2>1 DEF SpentBefore
  <2> HIDE DEF k
  <2>5. Cardinality(1..k) = k BY <2>2, <2>3
  <2> QED BY <2>4, <2>5 DEF k
<1>4. \A i \in 1..n : s[i] = <<epoch + i, batch[i]>>
  BY <1>1, <1>3 DEF StampedBatch
<1>5. s = [i \in 1..n |-> s[i]] BY <1>1 DEF StampedBatch
<1>6. \A i \in 1..n : s[i] \in Stamps
  <2> SUFFICES ASSUME NEW i \in 1..n PROVE s[i] \in Stamps OBVIOUS
  <2>1. epoch + i \in Nat /\ batch[i] \in Nat BY <1>1
  <2>2. s[i] = <<epoch + i, batch[i]>> BY <1>4
  <2> HIDE DEF s
  <2> QED BY <2>1, <2>2 DEF Stamps
<1>7. s \in Seq(Stamps) /\ Len(s) = n
  <2>1. s \in [1..n -> Stamps] BY <1>5, <1>6
  <2> QED BY <1>1, <2>1, SeqDef, LenProperties
<1> QED BY <1>1, <1>2, <1>4, <1>7

\* The stamps of any batch have the shape of stamps.
LEMMA StampsOfBatch ==
  ASSUME NEW batch \in Seq(Nat), epoch \in Nat, NEW took \in SUBSET DOMAIN batch
  PROVE  /\ StampedBatch(batch, took) \in Seq(Stamps)
         /\ DOMAIN StampedBatch(batch, took) = DOMAIN batch
         /\ Cardinality(took) \in Nat
<1> DEFINE n == Len(batch)
           s == StampedBatch(batch, took)
<1>1. n \in Nat /\ DOMAIN batch = 1..n /\ batch \in [1..n -> Nat] BY LenProperties
<1>2. IsFiniteSet(1..n) BY <1>1, FS_Interval
<1>3. ASSUME NEW i \in 1..n PROVE SpentBefore(took, i) \in Nat
  BY <1>1, <1>2, FS_Subset, FS_CardinalityType DEF SpentBefore
<1>4. Cardinality(took) \in Nat BY <1>1, <1>2, FS_Subset, FS_CardinalityType
<1>5. s = [i \in 1..n |-> s[i]] BY <1>1 DEF StampedBatch
<1>6. \A i \in 1..n : s[i] \in Stamps BY <1>1, <1>3 DEF Stamps, StampedBatch
<1>7. s \in [1..n -> Stamps] BY <1>5, <1>6
<1> QED BY <1>1, <1>4, <1>7, SeqDef

\* What the radio did not take of a batch is not among what it took.
LEMMA TakenStamps ==
  ASSUME NEW s \in Seq(Stamps), NEW took \in SUBSET DOMAIN s
  PROVE  /\ TakenOf(s, took) \in SUBSET Stamps
         /\ TakenOf(s, took) \subseteq Elements(s)
<1>1. DOMAIN s = 1..Len(s) /\ s \in [1..Len(s) -> Stamps] BY LenProperties
<1> QED BY <1>1 DEF TakenOf, Elements

\* Flushing the uplink leaves nothing held.
LEMMA FlushedHeld ==
  ASSUME LaneTypeOK
  PROVE  /\ FlushedUplink \in [Streams -> [seq : Nat, held : Seq(Nat)]]
         /\ \A s \in Streams : FlushedUplink[s].held = << >>
<1>1. << >> \in Seq(Nat) BY EmptySeq
<1>2. ASSUME NEW s \in Streams
      PROVE  FlushedUplink[s] \in [seq : Nat, held : Seq(Nat)] /\ FlushedUplink[s].held = << >>
  <2>1. uplink[s] \in [seq : Nat, held : Seq(Nat)] BY DEF LaneTypeOK
  <2>2. FlushedUplink[s] = [uplink[s] EXCEPT !.held = << >>] BY DEF FlushedUplink
  <2> QED BY <1>1, <2>1, <2>2
<1> QED BY <1>2 DEF FlushedUplink

\* A batch that fires.
LEMMA FireKeeps == ASSUME LaneInv, Fire PROVE LaneInv'
<1> USE DEF LaneInv
<1>1. PICK took \in SUBSET DOMAIN returns.fresh, tookAgain \in SUBSET DOMAIN returns.again :
        LET stamped == StampedBatch(returns.fresh, took) IN
        /\ aired' = aired \cup TakenOf(returns.again, tookAgain) \cup TakenOf(stamped, took)
        /\ epoch' = epoch + Cardinality(took)
        /\ refused' = (refused \/ took # DOMAIN returns.fresh)
        /\ returns' = [urgent |-> 0, fresh |-> << >>,
                       again |-> IF gap.at /\ Redundancy > 1 THEN stamped ELSE << >>]
  BY DEF Fire
<1> DEFINE stamped == StampedBatch(returns.fresh, took)
<1>2. /\ uplink' = FlushedUplink /\ gap' = LaneCleared
      /\ fallback' = [reports |-> FALSE, uplink |-> FALSE] /\ made' = made
  BY DEF Fire
<1>3. /\ returns.fresh \in Seq(Nat) /\ returns.again \in Seq(Stamps) /\ epoch \in Nat
      /\ aired \in SUBSET Stamps
  BY DEF LaneTypeOK
<1>4. /\ stamped \in Seq(Stamps) /\ DOMAIN stamped = DOMAIN returns.fresh
      /\ Cardinality(took) \in Nat
  BY <1>3, StampsOfBatch
<1>5. /\ TakenOf(stamped, took) \in SUBSET Stamps
      /\ TakenOf(stamped, took) \subseteq Elements(stamped)
  BY <1>4, TakenStamps
<1>6. /\ TakenOf(returns.again, tookAgain) \in SUBSET Stamps
      /\ TakenOf(returns.again, tookAgain) \subseteq Elements(returns.again)
  BY <1>3, TakenStamps
<1>7. << >> \in Seq(Nat) /\ << >> \in Seq(Stamps) /\ Elements(<< >>) = {}
  BY EmptySeq DEF Elements
<1>9. uplink' \in [Streams -> [seq : Nat, held : Seq(Nat)]]
  BY <1>2, FlushedHeld
<1>10. /\ returns'.urgent = 0 /\ returns'.fresh = << >>
       /\ returns'.again \in {stamped, << >>}
       /\ returns' \in [urgent : Nat, fresh : Seq(Nat), again : Seq(Stamps)]
  BY <1>1, <1>4, <1>7
<1>11. LaneTypeOK'
  BY <1>1, <1>2, <1>3, <1>4, <1>5, <1>6, <1>9, <1>10 DEF LaneTypeOK, LaneCleared
<1>12. AnchorIsSet' BY <1>2 DEF AnchorIsSet, LaneCleared
<1>13. HeldHasDeadline'
  <2>1. \A s \in Streams : uplink'[s].held = << >> BY <1>2, FlushedHeld
  <2>2. ~(returns'.urgent > 0) /\ returns'.fresh = << >> BY <1>10
  <2> QED BY <2>1, <2>2 DEF HeldHasDeadline
<1>14. ASSUME ~refused' PROVE StampsSpent' /\ EpochIdentifies'
  <2>1. ~refused /\ took = DOMAIN returns.fresh BY <1>1, <1>14
  <2> DEFINE n == Len(returns.fresh)
  <2>2. /\ DOMAIN returns.fresh = 1..n /\ n \in Nat /\ Cardinality(took) = n
        /\ Len(stamped) = n
        /\ \A i \in 1..n : stamped[i] = <<epoch + i, returns.fresh[i]>>
    BY <1>3, <2>1, StampsOfWholeBatch
  <2>3. TakenOf(stamped, took) = Elements(stamped) BY <2>1, <2>2 DEF TakenOf, Elements
  <2>4. /\ \A a \in aired : a[1] <= epoch /\ a[1] \in Nat
        /\ Elements(returns.again) \subseteq aired
        /\ \A a, b \in aired : a[1] = b[1] => a[2] = b[2]
    BY <1>3, <2>1 DEF StampsSpent, LaneSound, EpochIdentifies, Stamps
  <2>5. aired' = aired \cup Elements(stamped) /\ epoch' = epoch + n
    BY <1>1, <1>6, <2>2, <2>3, <2>4
  <2>6. \A a \in Elements(stamped) : \E i \in 1..n : a = <<epoch + i, returns.fresh[i]>>
    BY <2>2 DEF Elements
  <2>7. StampsSpent'
    BY <1>3, <1>7, <1>10, <2>2, <2>4, <2>5, <2>6 DEF StampsSpent
  <2>8. ASSUME NEW a \in aired', NEW b \in aired', a[1] = b[1] PROVE a[2] = b[2]
    <3>1. CASE a \in aired /\ b \in aired BY <2>4, <2>8, <3>1
    <3>2. CASE a \in aired /\ b \in Elements(stamped)
      BY <1>3, <2>2, <2>4, <2>6, <2>8, <3>2
    <3>3. CASE a \in Elements(stamped) /\ b \in aired
      BY <1>3, <2>2, <2>4, <2>6, <2>8, <3>3
    <3>4. CASE a \in Elements(stamped) /\ b \in Elements(stamped)
      BY <1>3, <2>2, <2>6, <2>8, <3>4
    <3> QED BY <2>5, <3>1, <3>2, <3>3, <3>4
  <2> QED BY <2>7, <2>8 DEF EpochIdentifies
<1>15. StampsSpent' /\ EpochIdentifies' BY <1>14 DEF StampsSpent, EpochIdentifies
<1> QED BY <1>11, <1>12, <1>13, <1>15 DEF LaneSound

\* The other steps of the lane.
LEMMA LaneKeeps == ASSUME LaneInv, RLNext, ~Fire PROVE LaneInv'
<1> USE DEF LaneInv, LaneSound
<1>1. CASE Report
  <2> DEFINE r == made.reports + 1
  <2>1. /\ made' = [made EXCEPT !.reports = r] /\ UNCHANGED <<gap, uplink, refused>>
        /\ r \in Nat
    BY <1>1 DEF Report, LaneTypeOK
  <2>2. CASE paced
    <3>1. /\ returns' = [returns EXCEPT !.fresh = Append(@, r)]
          /\ fallback' = [fallback EXCEPT !.reports = TRUE] /\ UNCHANGED <<epoch, aired>>
      BY <1>1, <2>2 DEF Report
    <3>2. /\ returns'.urgent = returns.urgent /\ returns'.again = returns.again
          /\ returns'.fresh = Append(returns.fresh, r)
          /\ fallback'.reports /\ fallback'.uplink = fallback.uplink
      BY <3>1 DEF LaneTypeOK
    <3>3. Append(returns.fresh, r) \in Seq(Nat) BY <2>1 DEF LaneTypeOK
    <3>4. LaneTypeOK' BY <2>1, <3>1, <3>3 DEF LaneTypeOK
    <3> QED BY <2>1, <3>1, <3>2, <3>4
            DEF AnchorIsSet, StampsSpent, HeldHasDeadline, EpochIdentifies
  <2>3. CASE ~paced
    <3>1. UNCHANGED <<returns, fallback>> BY <1>1, <2>3 DEF Report
    <3>2. CASE UNCHANGED <<epoch, aired>>
      <4>1. LaneTypeOK' BY <2>1, <3>1, <3>2 DEF LaneTypeOK
      <4> QED BY <2>1, <3>1, <3>2, <4>1
              DEF AnchorIsSet, StampsSpent, HeldHasDeadline, EpochIdentifies
    <3>3. CASE epoch' = epoch + 1 /\ aired' = aired \cup {<<epoch + 1, r>>}
      <4>1. epoch \in Nat /\ \A a \in aired : a[1] \in Nat BY DEF LaneTypeOK, Stamps
      <4>2. LaneTypeOK'
        <5>1. <<epoch + 1, r>> \in Stamps BY <2>1, <4>1 DEF Stamps
        <5>2. made' \in [reports : Nat, urgent : Nat] BY <2>1 DEF LaneTypeOK
        <5>3. epoch' \in Nat /\ aired' \in SUBSET Stamps
          <6> HIDE DEF r
          <6>1. aired \in SUBSET Stamps BY DEF LaneTypeOK
          <6> QED BY <3>3, <4>1, <5>1, <6>1
        <5> QED BY <2>1, <3>1, <5>2, <5>3 DEF LaneTypeOK
      <4>3. StampsSpent' BY <2>1, <3>1, <3>3, <4>1 DEF StampsSpent
      <4>4. EpochIdentifies' BY <2>1, <3>3, <4>1 DEF EpochIdentifies, StampsSpent
      <4> QED BY <2>1, <3>1, <4>2, <4>3, <4>4 DEF AnchorIsSet, HeldHasDeadline
    <3> QED BY <1>1, <2>3, <3>2, <3>3 DEF Report
  <2> QED BY <2>2, <2>3
<1>2. CASE Urgent
  <2>1. /\ returns' = [returns EXCEPT !.urgent = IF paced /\ gap.anchored THEN @ + 1 ELSE @]
        /\ made' = [made EXCEPT !.urgent = @ + 1]
        /\ UNCHANGED <<gap, fallback, uplink, epoch, aired, refused>>
    BY <1>2 DEF Urgent
  <2>2. /\ returns'.fresh = returns.fresh /\ returns'.again = returns.again
        /\ returns'.urgent > 0 => returns.urgent > 0 \/ gap.anchored
    BY <2>1 DEF LaneTypeOK
  <2> DEFINE u == IF paced /\ gap.anchored THEN returns.urgent + 1 ELSE returns.urgent
  <2>a. u \in Nat BY DEF LaneTypeOK
  <2>b. returns' = [returns EXCEPT !.urgent = u] BY <2>1 DEF LaneTypeOK
  <2> HIDE DEF u
  <2>c. returns' \in [urgent : Nat, fresh : Seq(Nat), again : Seq(Stamps)]
    BY <2>a, <2>b DEF LaneTypeOK
  <2>3. made' \in [reports : Nat, urgent : Nat]
    <3>1. made.urgent + 1 \in Nat /\ made \in [reports : Nat, urgent : Nat] BY DEF LaneTypeOK
    <3> QED BY <2>1, <3>1
  <2>4. LaneTypeOK' BY <2>1, <2>c, <2>3 DEF LaneTypeOK
  <2> QED BY <2>1, <2>2, <2>4
          DEF AnchorIsSet, StampsSpent, HeldHasDeadline, EpochIdentifies
<1>3. CASE UplinkFallback
  <2>1. /\ fallback' = [fallback EXCEPT !.uplink = FALSE] /\ uplink' = FlushedUplink
        /\ UNCHANGED <<gap, returns, epoch, aired, made, refused>>
    BY <1>3 DEF UplinkFallback
  <2>4. uplink' \in [Streams -> [seq : Nat, held : Seq(Nat)]] BY <2>1, FlushedHeld
  <2>5. LaneTypeOK' /\ fallback'.reports = fallback.reports BY <2>1, <2>4 DEF LaneTypeOK
  <2>6. \A s \in Streams : uplink'[s].held = << >> BY <2>1, FlushedHeld
  <2>7. HeldHasDeadline' BY <2>1, <2>5, <2>6 DEF HeldHasDeadline
  <2> QED BY <2>1, <2>5, <2>7 DEF AnchorIsSet, StampsSpent, EpochIdentifies
<1>4. ASSUME NEW s \in Streams, Datagram(s) PROVE LaneInv'
  <2> DEFINE q == uplink[s].seq + 1
             old == uplink[s].held
             kept == IF s \in Control THEN << >>
                     ELSE IF Len(old) >= TelemetryHold THEN Tail(old) ELSE old
  <2>1. UNCHANGED <<gap, returns, epoch, aired, made, refused>> BY <1>4 DEF Datagram
  <2>2. q \in Nat /\ old \in Seq(Nat) BY DEF LaneTypeOK
  <2>3. kept \in Seq(Nat)
    <3>1. Len(old) >= TelemetryHold => old # << >>
      BY <2>2, ReturnLaneAssumption, EmptySeq
    <3> QED BY <2>2, <3>1, EmptySeq, HeadTailProperties
  <2>4. CASE paced /\ gap.anchored
    <3>1. /\ uplink' = [uplink EXCEPT ![s] = [seq |-> q, held |-> Append(kept, q)]]
          /\ fallback' = [fallback EXCEPT !.uplink = TRUE]
      BY <1>4, <2>4 DEF Datagram
    <3>2. Append(kept, q) \in Seq(Nat) BY <2>2, <2>3
    <3>3. [seq |-> q, held |-> Append(kept, q)] \in [seq : Nat, held : Seq(Nat)]
      BY <2>2, <3>2
    <3>4. uplink' \in [Streams -> [seq : Nat, held : Seq(Nat)]] BY <3>1, <3>3 DEF LaneTypeOK
    <3>5. LaneTypeOK' /\ fallback'.uplink /\ fallback'.reports = fallback.reports
      BY <2>1, <3>1, <3>4 DEF LaneTypeOK
    <3> QED BY <2>1, <3>5 DEF AnchorIsSet, StampsSpent, HeldHasDeadline, EpochIdentifies
  <2>5. CASE ~(paced /\ gap.anchored)
    <3>1. uplink' = [uplink EXCEPT ![s].seq = q] /\ fallback' = fallback
      BY <1>4, <2>5 DEF Datagram
    <3>2. /\ uplink' \in [Streams -> [seq : Nat, held : Seq(Nat)]]
          /\ \A t \in Streams : uplink'[t].held = uplink[t].held
      BY <2>2, <3>1 DEF LaneTypeOK
    <3>3. LaneTypeOK' BY <2>1, <3>1, <3>2 DEF LaneTypeOK
    <3> QED BY <2>1, <3>1, <3>2, <3>3
            DEF AnchorIsSet, StampsSpent, HeldHasDeadline, EpochIdentifies
  <2> QED BY <2>4, <2>5
<1>5. ASSUME NEW b \in BOOLEAN, EndOfBlock(b) PROVE LaneInv'
  <2>1. /\ gap' = [at |-> TRUE, anchored |-> b]
        /\ UNCHANGED <<fallback, returns, uplink, epoch, aired, made, refused>>
    BY <1>5 DEF EndOfBlock
  <2>2. LaneTypeOK' BY <2>1 DEF LaneTypeOK
  <2> QED BY <2>1, <2>2 DEF AnchorIsSet, StampsSpent, HeldHasDeadline, EpochIdentifies
<1> QED BY <1>1, <1>2, <1>3, <1>4, <1>5 DEF RLNext

\* For every set of uplink streams and every hold, whatever windows open, move or
\* lose their anchor: what the lane holds has a deadline, and a report epoch names
\* one report (rx_node.cpp's inject_report, inject_return and flush).
THEOREM LaneAlwaysSound == RLSpec => []LaneSound
<1>1. RLInit => LaneInv
  <2> SUFFICES ASSUME RLInit PROVE LaneInv OBVIOUS
  <2>1. << >> \in Seq(Nat) /\ << >> \in Seq(Stamps) /\ Elements(<< >>) = {}
    BY EmptySeq DEF Elements
  <2>2. LaneTypeOK BY <2>1 DEF RLInit, LaneTypeOK
  <2>3. AnchorIsSet /\ StampsSpent BY <2>1 DEF RLInit, AnchorIsSet, StampsSpent
  <2>4. HeldHasDeadline BY DEF RLInit, HeldHasDeadline
  <2>5. EpochIdentifies BY DEF RLInit, EpochIdentifies
  <2> QED BY <2>2, <2>3, <2>4, <2>5 DEF LaneInv, LaneSound
<1>2. LaneInv /\ [RLNext]_rlVars => LaneInv'
  <2> SUFFICES ASSUME LaneInv, [RLNext]_rlVars PROVE LaneInv' OBVIOUS
  <2>1. CASE Fire BY <2>1, FireKeeps
  <2>2. CASE RLNext /\ ~Fire BY <2>2, LaneKeeps
  <2>3. CASE UNCHANGED rlVars
    <3>1. LaneTypeOK' BY <2>3 DEF rlVars, LaneInv, LaneTypeOK
    <3> QED BY <2>3, <3>1 DEF rlVars, LaneInv, AnchorIsSet, StampsSpent, LaneSound,
                              HeldHasDeadline, EpochIdentifies
  <2> QED BY <2>1, <2>2, <2>3
<1>3. LaneInv => LaneSound BY DEF LaneInv
<1> QED BY <1>1, <1>2, <1>3, PTL DEF RLSpec

-----------------------------------------------------------------------------
(* The link's reports and words *)

Counters == [uniq : Nat, lost : Nat]
LinkTypeOK ==
    /\ turns \in 0..MaxTurns
    /\ session \in [Crafts -> 1..turns + 1]
    /\ stream \in [craft : Crafts \cup {NoCraft}, session : Nat, uniq : Nat, lost : Nat]
    /\ base \in [Tuples -> Counters] /\ truth \in Counters
    /\ wanted \in Crafts \cup {NoCraft}

\* The live stream is of a tuple the reporter knows and of the craft wanted, and its
\* counters are far from wrapping.
StreamKnown ==
    stream # NoStream => /\ stream.craft \in Crafts /\ stream.session \in 1..MaxTurns + 1
                         /\ wanted # NoCraft => stream.craft = wanted
                         /\ stream.uniq + stream.lost <= MaxCount

\* Baseline and packets since the last report add up to the counters.
BaselineExact ==
    stream # NoStream /\ ~skewed =>
        /\ base[TupleKey(stream)].uniq + truth.uniq = stream.uniq
        /\ base[TupleKey(stream)].lost + truth.lost = stream.lost

\* The remembered tuple is of the craft wanted.
LatchOfWanted ==
    accepted # NoTuple /\ wanted # NoCraft => accepted.craft = wanted

LinkInv == /\ LinkTypeOK /\ StreamKnown /\ BaselineExact /\ LatchOfWanted
           /\ ReportSound

\* The difference of two counters that did not wrap.
LEMMA DeltaExact ==
  ASSUME NEW now \in Nat, NEW then \in Nat, NEW d \in Nat,
         then + d = now, now < Width
  PROVE  Delta(now, then) = d
<1>1. Width \in Nat \ {0} BY RxLinkAssumption
<1>2. now + Width - then = d + Width BY <1>1
<1>3. d < Width BY <1>1
<1>4. \A w \in Nat \ {0} : d < w => (d + w) % w = d OBVIOUS
<1>5. (d + Width) % Width = d BY <1>1, <1>3, <1>4
<1> QED BY <1>2, <1>5 DEF Delta

\* A live stream's tuple is one the reporter keeps a baseline for.
LEMMA KnownTuple ==
  ASSUME LinkTypeOK, StreamKnown, stream # NoStream
  PROVE  TupleKey(stream) \in Tuples
BY DEF StreamKnown, TupleKey, Tuples

\* The engine's steps: a latch, a packet, a teardown, a reboot of a craft.
LEMMA EngineKeeps ==
  ASSUME LinkInv
  PROVE  /\ \A c \in Crafts : LatchStream(c) \/ CraftReboots(c) => LinkInv'
         /\ \A what \in {"uniq", "lost"} : Count(what) => LinkInv'
         /\ IdleTeardown => LinkInv'
<1> USE DEF LinkInv, ReportSound
<1>0. turns \in Nat /\ MaxTurns \in Nat /\ NoCraft \notin Crafts
  BY RxLinkAssumption DEF LinkTypeOK, NoCraft
<1>1. ASSUME NEW c \in Crafts, LatchStream(c) PROVE LinkInv'
  <2>1. /\ stream' = [craft |-> c, session |-> session[c], uniq |-> 0, lost |-> 0]
        /\ truth' = Zero /\ skewed' = (base[TupleKey(stream')] # Zero)
        /\ turns < MaxTurns /\ turns' = turns + 1 /\ wanted \in {c, NoCraft}
        /\ UNCHANGED <<session, wanted, base, word, accepted, report>>
    BY <1>1 DEF LatchStream, Turn
  <2>2. session[c] \in 1..turns + 1 /\ session[c] \in Nat BY <1>0 DEF LinkTypeOK
  <2>3. LinkTypeOK'
    <3>1. session \in [Crafts -> 1..(turns + 1) + 1] BY <1>0 DEF LinkTypeOK
    <3>2. truth' \in Counters BY <2>1 DEF Zero, Counters
    <3> QED BY <1>0, <2>1, <2>2, <3>1, <3>2 DEF LinkTypeOK
  <2>4. StreamKnown' BY <1>0, <2>1, <2>2, RxLinkAssumption DEF StreamKnown
  <2>5. BaselineExact'
    <3>1. ~skewed' => base'[TupleKey(stream')] = Zero BY <2>1
    <3>2. stream'.uniq = 0 /\ stream'.lost = 0 /\ truth' = Zero BY <2>1
    <3>3. Zero.uniq = 0 /\ Zero.lost = 0 BY DEF Zero
    <3> QED BY <3>1, <3>2, <3>3 DEF BaselineExact
  <2>6. LatchOfWanted' /\ WordOfSelected' /\ LossHonest'
    BY <2>1 DEF LatchOfWanted, WordOfSelected, LossHonest
  <2> QED BY <2>3, <2>4, <2>5, <2>6
<1>2. ASSUME NEW c \in Crafts, CraftReboots(c) PROVE LinkInv'
  <2>1. /\ session' = [session EXCEPT ![c] = @ + 1] /\ turns < MaxTurns /\ turns' = turns + 1
        /\ UNCHANGED <<stream, wanted, base, word, accepted, truth, skewed, report>>
    BY <1>2 DEF CraftReboots, Turn
  <2>2. LinkTypeOK'
    <3>1. session' \in [Crafts -> 1..(turns + 1) + 1] BY <1>0, <2>1 DEF LinkTypeOK
    <3> QED BY <1>0, <2>1, <3>1 DEF LinkTypeOK
  <2> QED BY <2>1, <2>2 DEF StreamKnown, BaselineExact, LatchOfWanted, WordOfSelected,
                            LossHonest
<1>3. ASSUME NEW what \in {"uniq", "lost"}, Count(what) PROVE LinkInv'
  <2>1. /\ stream # NoStream /\ stream.uniq + stream.lost < MaxCount
        /\ stream' = [stream EXCEPT ![what] = @ + 1]
        /\ truth' = [truth EXCEPT ![what] = @ + 1]
        /\ UNCHANGED <<session, wanted, base, word, accepted, skewed, report, turns>>
    BY <1>3 DEF Count
  <2>2. /\ stream.uniq \in Nat /\ stream.lost \in Nat /\ truth.uniq \in Nat
        /\ truth.lost \in Nat
    BY DEF LinkTypeOK, Counters
  <2>3. /\ stream'.craft = stream.craft /\ stream'.session = stream.session
        /\ stream'.uniq = (IF what = "uniq" THEN stream.uniq + 1 ELSE stream.uniq)
        /\ stream'.lost = (IF what = "lost" THEN stream.lost + 1 ELSE stream.lost)
        /\ stream' \in [craft : Crafts \cup {NoCraft}, session : Nat, uniq : Nat, lost : Nat]
    BY <2>1, <2>2 DEF LinkTypeOK
  <2>4. /\ truth'.uniq = (IF what = "uniq" THEN truth.uniq + 1 ELSE truth.uniq)
        /\ truth'.lost = (IF what = "lost" THEN truth.lost + 1 ELSE truth.lost)
        /\ truth' \in Counters
    BY <2>1, <2>2 DEF LinkTypeOK, Counters
  <2>5. LinkTypeOK' BY <2>1, <2>3, <2>4 DEF LinkTypeOK
  <2>6. StreamKnown' BY <2>1, <2>2, <2>3, RxLinkAssumption DEF StreamKnown
  <2>7. BaselineExact'
    <3>1. TupleKey(stream') = TupleKey(stream) BY <2>3 DEF TupleKey
    <3>2. TupleKey(stream) \in Tuples BY <2>1, KnownTuple
    <3>3. base[TupleKey(stream)].uniq \in Nat /\ base[TupleKey(stream)].lost \in Nat
      BY <3>2 DEF LinkTypeOK, Counters
    <3> QED BY <2>1, <2>2, <2>3, <2>4, <3>1, <3>3 DEF BaselineExact
  <2> QED BY <2>1, <2>5, <2>6, <2>7 DEF LatchOfWanted, WordOfSelected, LossHonest
<1>4. ASSUME IdleTeardown PROVE LinkInv'
  <2>1. /\ stream' = NoStream /\ truth' = Zero /\ turns < MaxTurns /\ turns' = turns + 1
        /\ UNCHANGED <<session, wanted, base, word, accepted, skewed, report>>
    BY <1>4 DEF IdleTeardown, Turn
  <2>2. LinkTypeOK'
    <3>1. session \in [Crafts -> 1..(turns + 1) + 1] BY <1>0 DEF LinkTypeOK
    <3> QED BY <1>0, <2>1, <3>1 DEF LinkTypeOK, NoStream, Zero, Counters
  <2> QED BY <2>1, <2>2 DEF StreamKnown, BaselineExact, LatchOfWanted, WordOfSelected,
                            LossHonest
<1> QED BY <1>1, <1>2, <1>3, <1>4

\* What RxCore does: a selection, a reset of the statistics, a report, a word.
LEMMA CoreKeeps ==
  ASSUME LinkInv
  PROVE  /\ \A c \in Crafts : Select(c) => LinkInv'
         /\ \A c \in Crafts, cal \in BOOLEAN : Word(c, cal) => LinkInv'
         /\ Unpin \/ ResetStats \/ Build => LinkInv'
<1> USE DEF LinkInv, ReportSound
<1>0. turns \in Nat /\ MaxTurns \in Nat /\ NoCraft \notin Crafts
  BY RxLinkAssumption DEF LinkTypeOK, NoCraft
<1>a. Zero \in Counters /\ BaselineCleared \in [Tuples -> Counters]
  BY DEF Zero, Counters, BaselineCleared
<1>1. ASSUME NEW c \in Crafts, Select(c) PROVE LinkInv'
  <2>1. /\ wanted' = c /\ base' = BaselineCleared /\ word' = NoWord /\ accepted' = NoTuple
        /\ skewed' = (stream' # NoStream) /\ turns < MaxTurns /\ turns' = turns + 1
        /\ \/ wanted = c /\ UNCHANGED <<stream, truth>>
           \/ stream' = NoStream /\ truth' = Zero
        /\ UNCHANGED <<session, report>>
    BY <1>1 DEF Select, Turn, BaselineCleared, LatchDropped
  <2>2. LinkTypeOK'
    <3>1. session \in [Crafts -> 1..(turns + 1) + 1] BY <1>0 DEF LinkTypeOK
    <3>2. stream' \in [craft : Crafts \cup {NoCraft}, session : Nat, uniq : Nat, lost : Nat]
      BY <2>1 DEF LinkTypeOK, NoStream
    <3>3. truth' \in Counters BY <1>a, <2>1 DEF LinkTypeOK
    <3> QED BY <1>0, <1>a, <2>1, <3>1, <3>2, <3>3 DEF LinkTypeOK
  <2>3. StreamKnown' BY <2>1 DEF StreamKnown
  <2>4. BaselineExact' BY <2>1 DEF BaselineExact
  <2> QED BY <2>1, <2>2, <2>3, <2>4 DEF LatchOfWanted, WordOfSelected, LossHonest
<1>2. ASSUME NEW c \in Crafts, NEW cal \in BOOLEAN, Word(c, cal) PROVE LinkInv'
  <2>1. /\ WordAdmitted(c)
        /\ word' = [craft |-> c, session |-> session[c], calibrating |-> cal]
        /\ accepted' = [craft |-> c, session |-> session[c]]
        /\ UNCHANGED <<session, stream, wanted, base, truth, skewed, report, turns>>
    BY <1>2 DEF Word
  <2>2. wanted # NoCraft => c = wanted
    <3>1. CASE stream # NoStream /\ TupleKey(stream) = [craft |-> c, session |-> session[c]]
      BY <3>1 DEF StreamKnown, TupleKey
    <3>2. CASE stream = NoStream /\ accepted = [craft |-> c, session |-> session[c]]
      <4>1. accepted.craft = c BY <3>2
      <4>2. accepted # NoTuple BY <1>0, <4>1 DEF NoTuple
      <4> QED BY <4>1, <4>2 DEF LatchOfWanted
    <3> QED BY <2>1, <3>1, <3>2 DEF WordAdmitted
  <2>3. LinkTypeOK' BY <2>1 DEF LinkTypeOK
  <2> QED BY <2>1, <2>2, <2>3 DEF StreamKnown, BaselineExact, LatchOfWanted, WordOfSelected,
                                  LossHonest
<1>3. ASSUME Unpin PROVE LinkInv'
  <2>1. /\ wanted' = NoCraft /\ stream' = NoStream /\ truth' = Zero
        /\ base' = BaselineCleared /\ word' = NoWord /\ accepted' = NoTuple
        /\ turns < MaxTurns /\ turns' = turns + 1 /\ UNCHANGED <<session, skewed, report>>
    BY <1>3 DEF Unpin, Turn, BaselineCleared, LatchDropped
  <2>2. LinkTypeOK'
    <3>1. session \in [Crafts -> 1..(turns + 1) + 1] BY <1>0 DEF LinkTypeOK
    <3> QED BY <1>0, <1>a, <2>1, <3>1 DEF LinkTypeOK, NoStream
  <2> QED BY <2>1, <2>2 DEF StreamKnown, BaselineExact, LatchOfWanted, WordOfSelected,
                            LossHonest
<1>4. ASSUME ResetStats PROVE LinkInv'
  <2>1. /\ stream # NoStream /\ stream' = [stream EXCEPT !.uniq = 0, !.lost = 0]
        /\ base' = BaselineCleared /\ truth' = Zero /\ turns < MaxTurns /\ turns' = turns + 1
        /\ UNCHANGED <<session, wanted, word, accepted, skewed, report>>
    BY <1>4 DEF ResetStats, Turn
  <2>2. /\ stream'.craft = stream.craft /\ stream'.session = stream.session
        /\ stream'.uniq = 0 /\ stream'.lost = 0
        /\ stream' \in [craft : Crafts \cup {NoCraft}, session : Nat, uniq : Nat, lost : Nat]
    BY <2>1 DEF LinkTypeOK
  <2>3. LinkTypeOK'
    <3>1. session \in [Crafts -> 1..(turns + 1) + 1] BY <1>0 DEF LinkTypeOK
    <3> QED BY <1>0, <1>a, <2>1, <2>2, <3>1 DEF LinkTypeOK
  <2>4. StreamKnown' BY <2>1, <2>2, RxLinkAssumption DEF StreamKnown
  <2>5. BaselineExact'
    <3>1. TupleKey(stream') = TupleKey(stream) BY <2>2 DEF TupleKey
    <3>2. TupleKey(stream) \in Tuples BY <2>1, KnownTuple
    <3> QED BY <2>1, <2>2, <3>1, <3>2 DEF BaselineExact, BaselineCleared, Zero
  <2> QED BY <2>1, <2>3, <2>4, <2>5 DEF LatchOfWanted, WordOfSelected, LossHonest
<1>5. ASSUME Build PROVE LinkInv'
  <2> DEFINE key == TupleKey(stream)
             du == Delta(stream.uniq, base[key].uniq)
             dl == Delta(stream.lost, base[key].lost)
  <2>1. /\ stream # NoStream
        /\ report' = [uniq |-> du, lost |-> dl, exact |-> du = truth.uniq /\ dl = truth.lost,
                      excused |-> skewed]
        /\ base' = [base EXCEPT ![key] = [uniq |-> stream.uniq, lost |-> stream.lost]]
        /\ truth' = Zero /\ skewed' = FALSE
        /\ UNCHANGED <<session, stream, wanted, word, accepted, turns>>
    BY <1>5 DEF Build
  <2>2. key \in Tuples BY <2>1, KnownTuple
  <2>3. /\ stream.uniq \in Nat /\ stream.lost \in Nat /\ base[key] \in Counters
        /\ truth \in Counters
    BY <2>2 DEF LinkTypeOK
  <2>4. stream.uniq < Width /\ stream.lost < Width
    BY <2>1, <2>3, RxLinkAssumption DEF StreamKnown
  <2>5. ~skewed => du = truth.uniq /\ dl = truth.lost
    <3> SUFFICES ASSUME ~skewed PROVE du = truth.uniq /\ dl = truth.lost OBVIOUS
    <3>1. /\ base[key].uniq + truth.uniq = stream.uniq
          /\ base[key].lost + truth.lost = stream.lost
      BY <2>1 DEF BaselineExact
    <3>2. /\ base[key].uniq \in Nat /\ base[key].lost \in Nat
          /\ truth.uniq \in Nat /\ truth.lost \in Nat
      BY <2>3 DEF Counters
    <3> QED BY <2>3, <2>4, <3>1, <3>2, DeltaExact
  <2>6. LossHonest' BY <2>1, <2>5 DEF LossHonest
  <2>7. [uniq |-> stream.uniq, lost |-> stream.lost] \in Counters BY <2>3 DEF Counters
  <2>8. LinkTypeOK' BY <1>a, <2>1, <2>2, <2>7 DEF LinkTypeOK
  <2>9. base'[key] = [uniq |-> stream.uniq, lost |-> stream.lost]
    BY <2>1, <2>2 DEF LinkTypeOK
  <2>10. BaselineExact' BY <2>1, <2>3, <2>9 DEF BaselineExact, Zero
  <2> QED BY <2>1, <2>6, <2>8, <2>10 DEF StreamKnown, LatchOfWanted, WordOfSelected
<1> QED BY <1>1, <1>2, <1>3, <1>4, <1>5

\* For every set of crafts and every counter width: a report tells the packets since
\* the report before it, across resets and teardowns, and a craft's word does not
\* outlive its selection (rx_core.h, reporter.cpp).
THEOREM ReportAlwaysSound == XLSpec => []ReportSound
<1>1. XLInit => LinkInv
  <2> SUFFICES ASSUME XLInit PROVE LinkInv OBVIOUS
  <2>1. LinkTypeOK
    BY RxLinkAssumption DEF XLInit, LinkTypeOK, NoStream, Zero, Counters
  <2> QED BY <2>1 DEF XLInit, LinkInv, StreamKnown, BaselineExact, LatchOfWanted, ReportSound,
                      WordOfSelected, LossHonest
<1>2. LinkInv /\ [XLNext]_xlVars => LinkInv'
  <2> SUFFICES ASSUME LinkInv, [XLNext]_xlVars PROVE LinkInv' OBVIOUS
  <2>1. CASE XLNext BY <2>1, EngineKeeps, CoreKeeps DEF XLNext
  <2>2. CASE UNCHANGED xlVars
    BY <2>2 DEF xlVars, LinkInv, LinkTypeOK, StreamKnown, BaselineExact, LatchOfWanted,
                ReportSound, WordOfSelected, LossHonest
  <2> QED BY <2>1, <2>2
<1>3. LinkInv => ReportSound BY DEF LinkInv
<1> QED BY <1>1, <1>2, <1>3, PTL DEF XLSpec

-----------------------------------------------------------------------------
(* Spatial repair *)

ClosedInv == since \in Nat /\ FailsClosed

\* Whatever is lost, and however often the sink refuses, nothing is concealed from a geometry
\* or a donor that is older than the last refusal.
THEOREM AlwaysFailsClosed == SRInit /\ [][SRNext]_srVars => []FailsClosed
<1>1. SRInit => ClosedInv BY DEF SRInit, NewRepair, None, ClosedInv, FailsClosed
<1>2. ClosedInv /\ [SRNext]_srVars => ClosedInv'
  <2> SUFFICES ASSUME ClosedInv, [SRNext]_srVars PROVE ClosedInv' OBVIOUS
  <2>1. CASE UNCHANGED <<rep, since>> BY <2>1 DEF ClosedInv, FailsClosed
  <2>2. ASSUME NEW pic, Show(pic, FALSE), rep' = Forgotten(rep) PROVE ClosedInv'
    BY <2>2 DEF Show, Forgotten, NewRepair, None, ClosedInv, FailsClosed
  <2>3. ASSUME NEW pic, Show(pic, TRUE) PROVE ClosedInv'
    BY <2>3 DEF Show, ClosedInv, FailsClosed
  <2>4. ASSUME NEW pic, NEW took \in BOOLEAN, Show(pic, took),
               ~took => rep' = Forgotten(rep)
        PROVE  ClosedInv'
    BY <2>2, <2>3, <2>4
  <2>5. ASSUME NEW intra \in BOOLEAN, NEW shape \in Shapes, NEW took \in BOOLEAN,
               Delivered(intra, shape, took)
        PROVE  ClosedInv'
    BY <2>4, <2>5 DEF Delivered, Egress
  <2>6. ASSUME NEW shape \in Shapes, NEW left, NEW meta \in BOOLEAN, NEW took \in BOOLEAN,
               Conceal(shape, left, meta, took)
        PROVE  ClosedInv'
    BY <2>4, <2>6 DEF Conceal, Egress
  <2>7. ASSUME NEW took \in BOOLEAN, Freeze(took) PROVE ClosedInv'
    BY <2>4, <2>7 DEF Freeze, Egress
  <2>8. ASSUME NEW intra \in BOOLEAN, Lost(intra) PROVE ClosedInv' BY <2>1, <2>8 DEF Lost
  <2> QED BY <2>1, <2>5, <2>6, <2>7, <2>8 DEF SRNext, srVars
<1>3. ClosedInv => FailsClosed BY DEF ClosedInv
<1> QED BY <1>1, <1>2, <1>3, PTL

-----------------------------------------------------------------------------
(* Assignment of a cache *)

Assigns == [session : 1 .. MaxSessions, epoch : Nat, target : Targets \cup {0}]

\* While no retired session has been forgotten, the gate knows every session that was ever
\* current: the current one, and each other exactly once.
GateInv ==
    /\ ground \in Assigns
    /\ wire \subseteq {a \in Assigns : a.epoch > 0}
    /\ past \subseteq 1 .. MaxSessions /\ gate.retired \in Seq(past)
    /\ IF gate.current = NoAssign THEN past = {} /\ gate.retired = << >>
       ELSE /\ gate.current \in Assigns
            /\ past = ToSet(gate.retired) \cup {gate.current.session}
            /\ Len(gate.retired) + 1 = Cardinality(past)

\* The elements of a queue with one more.
LEMMA ToSetAppend ==
  ASSUME NEW S, NEW q \in Seq(S), NEW x \in S
  PROVE  ToSet(Append(q, x)) = ToSet(q) \cup {x}
<1> DEFINE r == Append(q, x)
<1>1. Len(r) = Len(q) + 1 /\ Len(q) \in Nat /\ (\A i \in 1 .. Len(q) : r[i] = q[i])
      /\ r[Len(q) + 1] = x /\ DOMAIN r = 1 .. Len(q) + 1 /\ DOMAIN q = 1 .. Len(q)
  OBVIOUS
<1> HIDE DEF r
<1>2. ToSet(r) = {r[i] : i \in 1 .. Len(q) + 1} /\ ToSet(q) = {q[i] : i \in 1 .. Len(q)}
  BY <1>1 DEF ToSet
<1>3. 1 .. Len(q) + 1 = (1 .. Len(q)) \cup {Len(q) + 1} BY <1>1
<1> QED BY <1>1, <1>2, <1>3 DEF r

\* An assignment that applies is of the current session and newer, or of one never current.
LEMMA AppliesKeeps ==
  ASSUME GateInv, MaxSessions <= RetiredCap + 1, NEW a \in wire, Applies(a),
         gate' = [current |-> a, retired |-> Retired(a)], past' = past \cup {a.session},
         UNCHANGED ground, wire' \subseteq wire
  PROVE  /\ GateInv'
         /\ IF a.session = gate.current.session THEN a.epoch > gate.current.epoch
            ELSE a.session \notin past
<1>1. a \in Assigns /\ a.epoch > 0 /\ a.session \in 1 .. MaxSessions BY DEF GateInv, Assigns
<1>2. a # NoAssign /\ a.session # NoAssign.session BY <1>1, CacheAssignAssumption DEF NoAssign
<1>3. gate'.current = a /\ gate'.retired = Retired(a) OBVIOUS
<1>4. past \subseteq 1 .. MaxSessions /\ gate.retired \in Seq(past) BY DEF GateInv
<1>5. past' \subseteq 1 .. MaxSessions /\ past \subseteq past' BY <1>1, <1>4
<1>6. ground' \in Assigns /\ wire' \subseteq {x \in Assigns : x.epoch > 0} BY DEF GateInv
<1>7. IsFiniteSet(past) /\ Cardinality(past) \in Nat /\ Cardinality(past') <= MaxSessions
  <2>1. IsFiniteSet(1 .. MaxSessions) /\ Cardinality(1 .. MaxSessions) = MaxSessions
    BY FS_Interval, CacheAssignAssumption
  <2>2. IsFiniteSet(past) BY <1>4, <2>1, FS_Subset
  <2> QED BY <1>5, <2>1, <2>2, FS_Subset, FS_CardinalityType
<1>8. CASE gate.current = NoAssign
  <2>1. past = {} /\ gate.retired = << >> BY <1>8 DEF GateInv
  <2>2. Retired(a) = << >> BY <1>8, <2>1 DEF Retired
  <2>3. past' = {a.session} BY <2>1
  <2>4. Cardinality(past') = 1 BY <2>3, FS_Singleton
  <2>5. ToSet(<< >>) = {} BY DEF ToSet
  <2>6. << >> \in Seq(past') /\ Len(<< >>) = 0 OBVIOUS
  <2>7. GateInv' BY <1>1, <1>2, <1>3, <1>5, <1>6, <2>2, <2>3, <2>4, <2>5, <2>6 DEF GateInv
  <2> QED BY <1>2, <1>8, <2>1, <2>7
<1>9. CASE gate.current # NoAssign /\ a.session = gate.current.session
  <2>1. /\ past = ToSet(gate.retired) \cup {gate.current.session}
        /\ Len(gate.retired) + 1 = Cardinality(past)
    BY <1>9 DEF GateInv
  <2>2. Retired(a) = gate.retired BY <1>9 DEF Retired
  <2>3. past' = past BY <1>9, <2>1
  <2>4. GateInv' BY <1>1, <1>2, <1>3, <1>4, <1>6, <1>9, <2>1, <2>2, <2>3 DEF GateInv
  <2>5. a.epoch > gate.current.epoch BY <1>9 DEF Applies
  <2> QED BY <1>9, <2>4, <2>5
<1>10. CASE gate.current # NoAssign /\ a.session # gate.current.session
  <2> DEFINE q == Append(gate.retired, gate.current.session)
  <2>1. /\ past = ToSet(gate.retired) \cup {gate.current.session}
        /\ Len(gate.retired) + 1 = Cardinality(past)
    BY <1>10 DEF GateInv
  <2>2. a.session \notin ToSet(gate.retired) BY <1>10 DEF Applies
  <2>3. a.session \notin past BY <1>10, <2>1, <2>2
  <2>4. Cardinality(past') = Cardinality(past) + 1 BY <1>7, <2>3, FS_AddElement
  <2>5. q \in Seq(past) /\ Len(q) = Len(gate.retired) + 1 /\ Len(gate.retired) \in Nat
    BY <1>4, <2>1
  <2>6. ToSet(q) = past BY <1>4, <2>1, ToSetAppend
  <2> HIDE DEF q
  <2>7. ~(Len(q) > RetiredCap) BY <1>7, <2>1, <2>4, <2>5, CacheAssignAssumption
  <2>8. Retired(a) = q BY <1>10, <2>7 DEF Retired, q
  <2>9. q \in Seq(past') BY <1>5, <2>5
  <2>10. GateInv'
    BY <1>1, <1>2, <1>3, <1>5, <1>6, <2>1, <2>4, <2>5, <2>6, <2>8, <2>9 DEF GateInv
  <2> QED BY <1>10, <2>3, <2>10
<1> QED BY <1>8, <1>9, <1>10

\* As long as a ground has no more sessions than the gate remembers, a session the cache has
\* left never takes it back, and within a session an older selection never does.
THEOREM SessionNeverReturns ==
  MaxSessions <= RetiredCap + 1 => (CAInit /\ [][CANext]_caVars => NoReturn)
<1> SUFFICES ASSUME MaxSessions <= RetiredCap + 1 PROVE CAInit /\ [][CANext]_caVars => NoReturn
  OBVIOUS
<1> DEFINE A == gate'.current # gate.current =>
                  IF gate'.current.session = gate.current.session
                  THEN gate'.current.epoch > gate.current.epoch
                  ELSE gate'.current.session \notin past
<1>1. CAInit => GateInv
  BY CacheAssignAssumption DEF CAInit, GateInv, Assigns, NoAssign
<1>2. GateInv /\ [CANext]_caVars => GateInv' /\ [A]_caVars
  <2> SUFFICES ASSUME GateInv, [CANext]_caVars PROVE GateInv' /\ [A]_caVars OBVIOUS
  <2>1. ASSUME UNCHANGED <<gate, past>>, ground' \in Assigns,
               wire' \subseteq {a \in Assigns : a.epoch > 0}
        PROVE  GateInv' /\ A
    BY <2>1 DEF GateInv
  <2>2. ground \in Assigns /\ wire \subseteq {a \in Assigns : a.epoch > 0} BY DEF GateInv
  <2>3. CASE UNCHANGED caVars BY <2>1, <2>2, <2>3 DEF caVars
  <2>4. ASSUME NEW t \in Targets, SelectCraft(t) PROVE GateInv' /\ A
    <3>1. ground.epoch + 1 \in Nat /\ t \in Targets \cup {0} BY <2>2 DEF Assigns
    <3>2. ground' = [ground EXCEPT !.epoch = ground.epoch + 1, !.target = t]
      BY <2>4 DEF SelectCraft
    <3>3. ground' \in Assigns BY <2>2, <3>1, <3>2 DEF Assigns
    <3> QED BY <2>1, <2>2, <2>4, <3>3 DEF SelectCraft
  <2>5. CASE GroundRestart
    <3>1. ground' \in Assigns BY <2>2, <2>5, CacheAssignAssumption DEF GroundRestart, Assigns
    <3> QED BY <2>1, <2>2, <2>5, <3>1 DEF GroundRestart
  <2>6. CASE SendAssign BY <2>1, <2>2, <2>6 DEF SendAssign
  <2>7. ASSUME NEW a \in wire, NEW keep \in BOOLEAN, NEW there \in BOOLEAN,
               ReceiveAssign(a, keep, there)
        PROVE  GateInv' /\ A
    <3>1. wire' \subseteq wire /\ UNCHANGED ground BY <2>7 DEF ReceiveAssign
    <3>2. CASE Applies(a) /\ there
      <4>1. /\ gate' = [current |-> a, retired |-> Retired(a)]
            /\ past' = past \cup {a.session}
        BY <2>7, <3>2 DEF ReceiveAssign
      <4> QED BY <3>1, <3>2, <4>1, AppliesKeeps
    <3>3. CASE ~(Applies(a) /\ there) BY <2>1, <2>2, <2>7, <3>1, <3>3 DEF ReceiveAssign
    <3> QED BY <3>2, <3>3
  <2> QED BY <2>3, <2>4, <2>5, <2>6, <2>7 DEF CANext
<1> QED BY <1>1, <1>2, PTL DEF NoReturn

-----------------------------------------------------------------------------
(* Probe evidence *)

Windows == [on : BOOLEAN, profile : Nat, cand : Nat, confirmed : BOOLEAN, succ : Nat, fail : Nat,
            old : BOOLEAN, headed : BOOLEAN, head : Nat, walked : Nat, seen : SUBSET Nat]
FlyingFrames == [seq : Nat \ {0}, profile : Nat, rate : Nat, left : Int, session : Nat]
Hits(H) == {q \in H : SlotHit(q)}

\* The window w against H, all it heard, and C, all it charged.
Memory(w, H) ==
    \A q \in 1 .. w.head : w.head - q < Span /\ q > w.walked => (Bit(q) \in w.seen <=> q \in H)
Honest(w, H, C) ==
    /\ w \in Windows /\ w.walked <= w.head /\ (~w.headed => w.head = 0)
    /\ H \subseteq 1 .. w.head /\ C \subseteq 1 .. w.walked /\ C \cap H = {}
    /\ w.succ <= Cardinality(Hits(H)) /\ Memory(w, H)

PEInv ==
    /\ sender \in [seq : Nat \ {0}, profile : Nat, pin : Nat, probes : BOOLEAN, session : Nat]
    /\ flying \subseteq FlyingFrames
    /\ Honest(win, heardSeqs, charged)

\* Two numbers less than a span apart have different bits.
LEMMA BitsApart ==
  ASSUME NEW a \in Nat, NEW b \in Nat, a < b, b - a < Span
  PROVE  Bit(a) # Bit(b)
<1> DEFINE x == a \div Span
           y == b \div Span
<1>1. Span \in Nat \ {0} BY ProbeAssumption
<1>2. /\ x \in Nat /\ y \in Nat /\ a = Span * x + Bit(a) /\ b = Span * y + Bit(b)
      /\ Bit(a) \in 0 .. Span - 1 /\ Bit(b) \in 0 .. Span - 1
  BY <1>1 DEF Bit
<1> HIDE DEF x, y
<1> SUFFICES ASSUME Bit(a) = Bit(b) PROVE FALSE OBVIOUS
<1>3. b - a = Span * (y - x) BY <1>1, <1>2
<1>4. y > x
  <2> SUFFICES ASSUME y <= x PROVE FALSE BY <1>2
  <2>1. x - y \in Nat BY <1>2
  <2>2. Span * (x - y) \in Nat BY <1>1, <2>1
  <2>3. Span * (y - x) = 0 - Span * (x - y) BY <1>1, <1>2
  <2> QED BY <1>3, <2>2, <2>3
<1>5. y - x - 1 \in Nat BY <1>2, <1>4
<1>6. Span * (y - x - 1) \in Nat BY <1>1, <1>5
<1>7. Span * (y - x) = Span * (y - x - 1) + Span BY <1>1, <1>2
<1> QED BY <1>1, <1>3, <1>6, <1>7

\* What was heard can be counted.
LEMMA HitsCounted ==
  ASSUME NEW n \in Nat, NEW H \in SUBSET (1 .. n)
  PROVE  /\ IsFiniteSet(Hits(H)) /\ Cardinality(Hits(H)) \in Nat
         /\ \A s \in Nat : s \notin H =>
               Cardinality(Hits(H \cup {s})) =
                  IF SlotHit(s) THEN Cardinality(Hits(H)) + 1 ELSE Cardinality(Hits(H))
         /\ \A s \in H : H \cup {s} = H
<1>1. IsFiniteSet(1 .. n) BY FS_Interval
<1>2. Hits(H) \in SUBSET (1 .. n) BY DEF Hits
<1>3. IsFiniteSet(Hits(H)) /\ Cardinality(Hits(H)) \in Nat
  BY <1>1, <1>2, FS_Subset, FS_CardinalityType
<1>4. ASSUME NEW s \in Nat, s \notin H
      PROVE  Cardinality(Hits(H \cup {s})) =
                IF SlotHit(s) THEN Cardinality(Hits(H)) + 1 ELSE Cardinality(Hits(H))
  <2>1. s \notin Hits(H) BY <1>4 DEF Hits
  <2>2. CASE SlotHit(s)
    <3>1. Hits(H \cup {s}) = Hits(H) \cup {s} BY <2>2 DEF Hits
    <3> QED BY <1>3, <2>1, <2>2, <3>1, FS_AddElement
  <2>3. CASE ~SlotHit(s)
    <3>1. Hits(H \cup {s}) = Hits(H) BY <2>3 DEF Hits
    <3> QED BY <2>3, <3>1
  <2> QED BY <2>2, <2>3
<1> QED BY <1>3, <1>4

\* A number past the head: the window moves up to it and forgets exactly what it left.
LEMMA HeadedHonest ==
  ASSUME NEW w, NEW H, NEW C, Honest(w, H, C), NEW s \in Nat \ {0}, s > w.head
  PROVE  LET h == Headed(w, s)
         IN Honest(h, H \cup {s}, C) /\ h.headed /\ h.head = s /\ h.succ = w.succ /\ s \notin H
            /\ (SlotHit(s) => h.succ + 1 <= Cardinality(Hits(H \cup {s})))
<1> DEFINE h == Headed(w, s)
<1>1. /\ w \in Windows /\ w.walked <= w.head /\ (~w.headed => w.head = 0)
      /\ H \subseteq 1 .. w.head /\ C \subseteq 1 .. w.walked /\ C \cap H = {}
      /\ w.succ <= Cardinality(Hits(H)) /\ Memory(w, H)
  BY DEF Honest
<1>2. w.head \in Nat /\ w.walked \in Nat /\ w.succ \in Nat /\ w.seen \in SUBSET Nat BY <1>1 DEF Windows
<1>3. Span \in Nat \ {0} BY ProbeAssumption
<1>4. \A q \in Nat : Bit(q) \in Nat BY <1>3 DEF Bit
<1>5. s \notin H /\ s \notin C BY <1>1, <1>2
<1>6. H \cup {s} \subseteq 1 .. s BY <1>1, <1>2
<1>7. /\ Cardinality(Hits(H)) \in Nat
      /\ w.succ <= Cardinality(Hits(H \cup {s}))
      /\ (SlotHit(s) => w.succ + 1 <= Cardinality(Hits(H \cup {s})))
  <2>1. /\ Cardinality(Hits(H)) \in Nat
        /\ Cardinality(Hits(H \cup {s})) =
              IF SlotHit(s) THEN Cardinality(Hits(H)) + 1 ELSE Cardinality(Hits(H))
    BY <1>1, <1>2, <1>5, HitsCounted
  <2> QED BY <1>1, <1>2, <2>1
<1>8. SUFFICES /\ h \in Windows /\ h.headed /\ h.head = s /\ h.succ = w.succ
               /\ w.walked <= h.walked /\ h.walked <= s /\ h.walked \in Nat
               /\ Memory(h, H \cup {s})
  <2> HIDE DEF h
  <2>1. C \subseteq 1 .. h.walked BY <1>1, <1>2, <1>8
  <2>2. Honest(h, H \cup {s}, C) BY <1>1, <1>5, <1>6, <1>7, <1>8, <2>1 DEF Honest
  <2> QED BY <1>5, <1>7, <1>8, <2>2 DEF h
<1>9. ASSUME ~w.headed \/ s - w.head >= Span
      PROVE  /\ h \in Windows /\ h.headed /\ h.head = s /\ h.succ = w.succ
             /\ w.walked <= h.walked /\ h.walked <= s /\ h.walked \in Nat
             /\ Memory(h, H \cup {s})
  <2>1. {Bit(s)} \in SUBSET Nat BY <1>4
  <2>2. h \in Windows /\ h.headed /\ h.head = s /\ h.walked = s /\ h.succ = w.succ
    <3>1. CASE ~w.headed BY <1>1, <2>1, <3>1 DEF Headed, Windows
    <3>2. CASE w.headed /\ s - w.head >= Span BY <1>1, <2>1, <3>2 DEF Headed, Windows
    <3> QED BY <1>9, <3>1, <3>2
  <2> HIDE DEF h
  <2>3. Memory(h, H \cup {s}) BY <2>2 DEF Memory
  <2> QED BY <1>1, <1>2, <2>2, <2>3
<1>10. ASSUME w.headed, ~(s - w.head >= Span)
       PROVE  /\ h \in Windows /\ h.headed /\ h.head = s /\ h.succ = w.succ
              /\ w.walked <= h.walked /\ h.walked <= s /\ h.walked \in Nat
              /\ Memory(h, H \cup {s})
  <2> DEFINE E == Recycled(w, s) \cup {Bit(s)}
  <2>1. E \in SUBSET Nat BY <1>2, <1>4 DEF Recycled
  <2>2. h = [w EXCEPT !.head = s, !.seen = E] BY <1>10 DEF Headed
  <2>3. /\ h \in Windows /\ h.headed /\ h.head = s /\ h.walked = w.walked /\ h.succ = w.succ
        /\ h.seen = E
    BY <1>1, <1>10, <2>1, <2>2 DEF Windows
  <2>4. \A b \in Nat : b \in E <=> \/ b = Bit(s)
                                   \/ b \in w.seen /\ \A p \in w.head + 1 .. s : b # Bit(p)
    BY DEF Recycled
  <2> HIDE DEF h, E
  <2>5. ASSUME NEW q \in 1 .. s, s - q < Span, q > w.walked
        PROVE  Bit(q) \in E <=> q \in H \cup {s}
    <3>1. CASE q = s BY <1>4, <2>4, <3>1
    <3>2. CASE q # s /\ q > w.head
      <4>1. q \in w.head + 1 .. s /\ q \in Nat BY <1>2, <3>2
      <4>2. Bit(q) # Bit(s) BY <2>5, <3>2, <4>1, BitsApart
      <4>3. Bit(q) \notin E BY <1>4, <2>4, <4>1, <4>2
      <4>4. q \notin H BY <1>1, <1>2, <3>2
      <4> QED BY <3>2, <4>3, <4>4
    <3>3. CASE q # s /\ ~(q > w.head)
      <4>1. q \in 1 .. w.head /\ q \in Nat /\ w.head - q < Span BY <1>2, <1>3, <2>5, <3>3
      <4>2. Bit(q) \in w.seen <=> q \in H BY <1>1, <2>5, <4>1 DEF Memory
      <4>3. ASSUME NEW p \in w.head + 1 .. s PROVE Bit(q) # Bit(p)
        <5>1. p \in Nat /\ q < p /\ p - q < Span BY <1>2, <1>3, <2>5, <4>1
        <5> QED BY <4>1, <5>1, BitsApart
      <4>4. s \in w.head + 1 .. s BY <1>2
      <4>5. Bit(q) # Bit(s) BY <4>3, <4>4
      <4>6. Bit(q) \in E <=> Bit(q) \in w.seen BY <1>4, <2>4, <4>1, <4>3, <4>5
      <4> QED BY <3>3, <4>2, <4>6
    <3> QED BY <3>1, <3>2, <3>3
  <2>6. Memory(h, H \cup {s}) BY <2>3, <2>5 DEF Memory
  <2> QED BY <1>1, <1>2, <2>3, <2>6
<1> QED BY <1>9, <1>10

\* The gap walk charges only what was not heard, and nothing it passes is heard later.
LEMMA WalkHonest ==
  ASSUME NEW h, NEW H, NEW C, Honest(h, H, C), h.headed
  PROVE  Honest(Walk(h), H, C \cup Charges(h)) /\ Walk(h).succ = h.succ
<1> DEFINE F == WalkFrom(h)
           T == WalkedTo(h)
           w == Walk(h)
<1>1. /\ h \in Windows /\ h.walked <= h.head
      /\ H \subseteq 1 .. h.head /\ C \subseteq 1 .. h.walked /\ C \cap H = {}
      /\ h.succ <= Cardinality(Hits(H)) /\ Memory(h, H)
  BY DEF Honest
<1>2. h.head \in Nat /\ h.walked \in Nat /\ h.fail \in Nat BY <1>1 DEF Windows
<1>3. Span \in Nat \ {0} /\ Horizon \in 1 .. Span - 1 /\ Horizon \in Nat BY ProbeAssumption
<1>4. F \in Nat /\ h.walked <= F /\ F <= h.head /\ h.head - F <= Span BY <1>1, <1>2, <1>3 DEF WalkFrom
<1>5. T = IF F + Horizon >= h.head THEN F ELSE h.head - Horizon BY DEF WalkedTo
<1> HIDE DEF F, T
<1>6. T \in Nat /\ F <= T /\ T <= h.head BY <1>2, <1>3, <1>4, <1>5
<1>7. ASSUME NEW q \in Charges(h) PROVE q \in 1 .. T /\ q \notin H
  <2>1. q \in F + 1 .. h.head /\ h.head - q >= Horizon /\ Bit(q) \notin h.seen
    BY DEF Charges, Passed, F
  <2>2. q \in 1 .. h.head /\ h.head - q < Span /\ q > h.walked BY <1>2, <1>3, <1>4, <2>1
  <2>3. q \notin H BY <1>1, <2>1, <2>2 DEF Memory
  <2>4. q <= T BY <1>2, <1>3, <1>4, <1>5, <2>1
  <2> QED BY <1>6, <2>2, <2>3, <2>4
<1>8. Cardinality(Charges(h)) \in Nat
  <2>1. IsFiniteSet(1 .. T) BY <1>6, FS_Interval
  <2>2. Charges(h) \in SUBSET (1 .. T) BY <1>7
  <2> QED BY <2>1, <2>2, FS_Subset, FS_CardinalityType
<1>9. w = [h EXCEPT !.fail = h.fail + Cardinality(Charges(h)), !.walked = T] BY DEF Walk, T
<1>10. h.fail + Cardinality(Charges(h)) \in Nat BY <1>2, <1>8
<1>11. /\ w \in Windows /\ w.headed /\ w.head = h.head /\ w.walked = T /\ w.succ = h.succ
       /\ w.seen = h.seen
  BY <1>1, <1>6, <1>9, <1>10 DEF Windows
<1> HIDE DEF w
<1>12. C \cup Charges(h) \subseteq 1 .. w.walked
  <2>1. C \subseteq 1 .. T BY <1>1, <1>2, <1>4, <1>6
  <2> QED BY <1>7, <1>11, <2>1
<1>13. (C \cup Charges(h)) \cap H = {} BY <1>1, <1>7
<1>14. Memory(w, H)
  <2> SUFFICES ASSUME NEW q \in 1 .. h.head, h.head - q < Span, q > T
               PROVE  Bit(q) \in h.seen <=> q \in H
    BY <1>11 DEF Memory
  <2>1. q > h.walked BY <1>2, <1>4, <1>6
  <2> QED BY <1>1, <2>1 DEF Memory
<1>15. Honest(w, H, C \cup Charges(h)) BY <1>1, <1>6, <1>11, <1>12, <1>13, <1>14 DEF Honest
<1> QED BY <1>11, <1>15 DEF w

\* A success is credited for a probe heard for the first time.
LEMMA JudgedHonest ==
  ASSUME NEW w, NEW H, NEW C, Honest(w, H, C), NEW s, NEW rate, NEW first \in BOOLEAN,
         SlotHit(s) /\ first => w.succ + 1 <= Cardinality(Hits(H))
  PROVE  Honest(Judged(w, s, rate, first), H, C)
<1> DEFINE j == Judged(w, s, rate, first)
<1>1. /\ w \in Windows /\ w.walked <= w.head /\ (~w.headed => w.head = 0)
      /\ H \subseteq 1 .. w.head /\ C \subseteq 1 .. w.walked /\ C \cap H = {}
      /\ w.succ <= Cardinality(Hits(H)) /\ Memory(w, H)
  BY DEF Honest
<1>2. w.succ + 1 \in Nat /\ (rate = w.profile) \in BOOLEAN BY <1>1 DEF Windows
<1>3. \/ j = w
      \/ j = [w EXCEPT !.succ = w.succ + 1] /\ w.succ + 1 <= Cardinality(Hits(H))
      \/ j = [w EXCEPT !.confirmed = (rate = w.profile)]
  BY Zenon DEF Judged
<1> HIDE DEF j
<1>4. /\ j \in Windows /\ j.head = w.head /\ j.walked = w.walked /\ j.seen = w.seen
      /\ j.headed = w.headed
      /\ j.succ = w.succ \/ (j.succ = w.succ + 1 /\ w.succ + 1 <= Cardinality(Hits(H)))
  <2>1. CASE j = w BY <1>1, <2>1
  <2>2. CASE j = [w EXCEPT !.succ = w.succ + 1] /\ w.succ + 1 <= Cardinality(Hits(H))
    BY <1>1, <1>2, <2>2 DEF Windows
  <2>3. CASE j = [w EXCEPT !.confirmed = (rate = w.profile)] BY <1>1, <1>2, <2>3 DEF Windows
  <2> QED BY <1>3, <2>1, <2>2, <2>3
<1>5. Memory(j, H) BY <1>1, <1>4 DEF Memory
<1>6. j.succ <= Cardinality(Hits(H)) BY <1>1, <1>4
<1>7. Honest(j, H, C) BY <1>1, <1>4, <1>5, <1>6 DEF Honest
<1> QED BY <1>7 DEF j

\* A late copy inside the window is remembered; copies of what is already in count nothing.
LEMMA LateHonest ==
  ASSUME NEW w, NEW H, NEW C, Honest(w, H, C), NEW s \in Nat \ {0}, w.headed,
         ~(s > w.head), ~(w.head - s >= Span), ~(s <= w.walked), NEW rate
  PROVE  Honest(Judged([w EXCEPT !.seen = w.seen \cup {Bit(s)}], s, rate, Bit(s) \notin w.seen),
                H \cup {s}, C)
<1> DEFINE v == [w EXCEPT !.seen = w.seen \cup {Bit(s)}]
<1>1. /\ w \in Windows /\ w.walked <= w.head
      /\ H \subseteq 1 .. w.head /\ C \subseteq 1 .. w.walked /\ C \cap H = {}
      /\ w.succ <= Cardinality(Hits(H)) /\ Memory(w, H)
  BY DEF Honest
<1>2. w.head \in Nat /\ w.walked \in Nat /\ w.succ \in Nat /\ w.seen \in SUBSET Nat BY <1>1 DEF Windows
<1>3. Span \in Nat \ {0} BY ProbeAssumption
<1>4. \A q \in Nat : Bit(q) \in Nat BY <1>3 DEF Bit
<1>5. s \in 1 .. w.head /\ w.head - s < Span /\ s > w.walked BY <1>2, <1>3
<1>6. w.seen \cup {Bit(s)} \in SUBSET Nat BY <1>2, <1>4
<1>7. /\ v \in Windows /\ v.headed /\ v.head = w.head /\ v.walked = w.walked /\ v.succ = w.succ
      /\ v.seen = w.seen \cup {Bit(s)}
  BY <1>1, <1>6 DEF Windows
<1>8. Bit(s) \in w.seen <=> s \in H BY <1>1, <1>5 DEF Memory
<1> HIDE DEF v
<1>9. Memory(v, H \cup {s})
  <2> SUFFICES ASSUME NEW q \in 1 .. w.head, w.head - q < Span, q > w.walked
               PROVE  Bit(q) \in w.seen \cup {Bit(s)} <=> q \in H \cup {s}
    BY <1>7 DEF Memory
  <2>1. Bit(q) \in w.seen <=> q \in H BY <1>1 DEF Memory
  <2>2. q # s => Bit(q) # Bit(s)
    <3>1. CASE q < s
      <4>1. s - q < Span /\ q \in Nat BY <1>2, <1>3, <1>5
      <4> QED BY <3>1, <4>1, BitsApart
    <3>2. CASE s < q
      <4>1. q - s < Span /\ q \in Nat BY <1>2, <1>3, <1>5
      <4> QED BY <3>2, <4>1, BitsApart
    <3> QED BY <1>2, <3>1, <3>2
  <2> QED BY <2>1, <2>2
<1>10. /\ w.succ <= Cardinality(Hits(H \cup {s}))
       /\ SlotHit(s) /\ Bit(s) \notin w.seen => w.succ + 1 <= Cardinality(Hits(H \cup {s}))
  <2>1. /\ Cardinality(Hits(H)) \in Nat
        /\ s \notin H => Cardinality(Hits(H \cup {s})) =
              IF SlotHit(s) THEN Cardinality(Hits(H)) + 1 ELSE Cardinality(Hits(H))
        /\ s \in H => H \cup {s} = H
    BY <1>1, <1>2, HitsCounted
  <2>2. CASE s \in H
    <3>1. H \cup {s} = H BY <2>1, <2>2
    <3> QED BY <1>1, <1>8, <2>2, <3>1
  <2>3. CASE s \notin H
    <3>1. w.succ <= Cardinality(Hits(H)) BY <1>1
    <3> QED BY <1>2, <2>1, <2>3, <3>1
  <2> QED BY <2>2, <2>3
<1>11. H \cup {s} \subseteq 1 .. w.head /\ C \cap (H \cup {s}) = {}
  <2>1. s \notin C BY <1>1, <1>2, <1>5
  <2> QED BY <1>1, <1>5, <2>1
<1>12. Honest(v, H \cup {s}, C) BY <1>1, <1>7, <1>9, <1>10, <1>11 DEF Honest
<1>13. SlotHit(s) /\ Bit(s) \notin w.seen => v.succ + 1 <= Cardinality(Hits(H \cup {s}))
  BY <1>7, <1>10
<1>14. (Bit(s) \notin w.seen) \in BOOLEAN OBVIOUS
<1>15. Honest(Judged(v, s, rate, Bit(s) \notin w.seen), H \cup {s}, C)
  BY <1>12, <1>13, <1>14, JudgedHonest
<1> QED BY <1>15 DEF v

\* Evidence that starts over, by age or in a new context, claims nothing.
LEMMA RenewedHonest ==
  ASSUME NEW w, NEW H, NEW C, Honest(w, H, C)
  PROVE  /\ Honest(Renewed(w), H, C)
         /\ Honest([w EXCEPT !.old = TRUE], H, C)
         /\ \A n \in Nat : Honest([w EXCEPT !.fail = n], H, C)
<1>1. /\ w \in Windows /\ w.walked <= w.head /\ (~w.headed => w.head = 0)
      /\ H \subseteq 1 .. w.head /\ C \subseteq 1 .. w.walked /\ C \cap H = {}
      /\ w.succ <= Cardinality(Hits(H)) /\ Memory(w, H)
  BY DEF Honest
<1>2. w.head \in Nat BY <1>1 DEF Windows
<1>3. 0 <= Cardinality(Hits(H))
  <2>1. Cardinality(Hits(H)) \in Nat BY <1>1, <1>2, HitsCounted
  <2> QED BY <2>1
<1>4. ASSUME NEW v \in Windows, v.head = w.head, v.walked = w.walked, v.seen = w.seen,
             v.headed = w.headed, v.succ = w.succ \/ v.succ = 0
      PROVE  Honest(v, H, C)
  <2>1. Memory(v, H) BY <1>1, <1>4 DEF Memory
  <2>2. v.succ <= Cardinality(Hits(H)) BY <1>1, <1>3, <1>4
  <2> QED BY <1>1, <1>4, <2>1, <2>2 DEF Honest
<1>5. Honest(Renewed(w), H, C)
  <2>1. CASE w.old
    <3> DEFINE v == [w EXCEPT !.succ = 0, !.fail = 0, !.old = FALSE]
    <3>1. /\ v \in Windows /\ v.head = w.head /\ v.walked = w.walked /\ v.seen = w.seen
          /\ v.headed = w.headed /\ v.succ = 0
      BY <1>1 DEF Windows
    <3>2. Renewed(w) = v BY <2>1 DEF Renewed
    <3> HIDE DEF v
    <3> QED BY <1>4, <3>1, <3>2
  <2>2. CASE ~w.old BY <2>2 DEF Renewed
  <2> QED BY <2>1, <2>2
<1>6. Honest([w EXCEPT !.old = TRUE], H, C)
  <2> DEFINE v == [w EXCEPT !.old = TRUE]
  <2>1. /\ v \in Windows /\ v.head = w.head /\ v.walked = w.walked /\ v.seen = w.seen
        /\ v.headed = w.headed /\ v.succ = w.succ
    BY <1>1 DEF Windows
  <2> HIDE DEF v
  <2>2. Honest(v, H, C) BY <1>4, <2>1
  <2> QED BY <2>2 DEF v
<1>7. ASSUME NEW n \in Nat PROVE Honest([w EXCEPT !.fail = n], H, C)
  <2> DEFINE v == [w EXCEPT !.fail = n]
  <2>1. /\ v \in Windows /\ v.head = w.head /\ v.walked = w.walked /\ v.seen = w.seen
        /\ v.headed = w.headed /\ v.succ = w.succ
    BY <1>1 DEF Windows
  <2> HIDE DEF v
  <2>2. Honest(v, H, C) BY <1>4, <2>1
  <2> QED BY <2>2 DEF v
<1> QED BY <1>5, <1>6, <1>7

\* A window that has heard nothing.
LEMMA ContextHonest ==
  ASSUME NEW p \in Nat
  PROVE  Honest(NoContext, {}, {}) /\ Honest(Context(p), {}, {})
<1>1. Hits({}) = {} BY DEF Hits
<1>2. Cardinality(Hits({})) = 0 BY <1>1, FS_EmptySet
<1>3. UpCandidate(p, Top) \in Nat BY ProbeAssumption DEF UpCandidate, NoRate
<1>4. NoContext \in Windows /\ NoContext.head = 0 /\ NoContext.walked = 0 /\ NoContext.succ = 0
  BY DEF NoContext, Windows, NoRate
<1>5. /\ Context(p) \in Windows /\ Context(p).head = 0 /\ Context(p).walked = 0
      /\ Context(p).succ = 0
  BY <1>3, <1>4 DEF Context, Windows, NoContext
<1> HIDE DEF NoContext
<1>6. Memory(NoContext, {}) /\ Memory(Context(p), {}) BY <1>4, <1>5 DEF Memory
<1> QED BY <1>2, <1>4, <1>5, <1>6 DEF Honest

\* One copy at the ground.
LEMMA HearCopyKeeps ==
  ASSUME Honest(win, heardSeqs, charged), NEW f \in FlyingFrames, HearCopy(f)
  PROVE  Honest(win', heardSeqs', charged')
<1> DEFINE same == owner = f.session /\ win.on /\ win.profile = f.profile
           w0 == IF same THEN Renewed(win) ELSE Context(f.profile)
           h0 == IF same THEN heardSeqs ELSE {}
           c0 == IF same THEN charged ELSE {}
           s == f.seq
           ahead == ~w0.headed \/ s > w0.head
           late == ~ahead /\ (w0.head - s >= Span \/ s <= w0.walked)
           v == [w0 EXCEPT !.seen = w0.seen \cup {Bit(s)}]
<1>1. s \in Nat \ {0} /\ f.profile \in Nat BY DEF FlyingFrames
<1>2. Honest(w0, h0, c0)
  <2>1. CASE same BY <2>1, RenewedHonest
  <2>2. CASE ~same BY <1>1, <2>2, ContextHonest
  <2> QED BY <2>1, <2>2
<1>3. /\ heardSeqs' = IF late THEN h0 ELSE h0 \cup {s}
      /\ ahead => /\ win' = Judged(Walk(Headed(w0, s)), s, f.rate, TRUE)
                  /\ charged' = c0 \cup Charges(Headed(w0, s))
      /\ ~ahead => /\ charged' = c0
                   /\ win' = IF late THEN w0
                             ELSE Judged(v, s, f.rate, Bit(s) \notin w0.seen)
  BY Zenon DEF HearCopy
<1> HIDE DEF w0, h0, c0, s
<1>4. CASE ahead
  <2> DEFINE h == Headed(w0, s)
  <2>1. w0.head \in Nat /\ (~w0.headed => w0.head = 0) BY <1>2 DEF Honest, Windows
  <2>2. s > w0.head BY <1>1, <1>4, <2>1
  <2>3. /\ Honest(h, h0 \cup {s}, c0) /\ h.headed
        /\ (SlotHit(s) => h.succ + 1 <= Cardinality(Hits(h0 \cup {s})))
    BY <1>1, <1>2, <2>2, HeadedHonest
  <2> HIDE DEF h
  <2>4. Honest(Walk(h), h0 \cup {s}, c0 \cup Charges(h)) /\ Walk(h).succ = h.succ
    BY <2>3, WalkHonest
  <2>5. SlotHit(s) /\ TRUE => Walk(h).succ + 1 <= Cardinality(Hits(h0 \cup {s})) BY <2>3, <2>4
  <2>6. Honest(Judged(Walk(h), s, f.rate, TRUE), h0 \cup {s}, c0 \cup Charges(h))
    BY <2>4, <2>5, JudgedHonest
  <2>7. /\ win' = Judged(Walk(h), s, f.rate, TRUE) /\ charged' = c0 \cup Charges(h)
        /\ heardSeqs' = h0 \cup {s}
    BY <1>3, <1>4 DEF h
  <2> QED BY <2>6, <2>7
<1>5. CASE ~ahead /\ late
  <2>1. win' = w0 /\ charged' = c0 /\ heardSeqs' = h0 BY <1>3, <1>5
  <2> QED BY <1>2, <2>1
<1>6. CASE ~ahead /\ ~late
  <2>1. w0.headed /\ ~(s > w0.head) /\ ~(w0.head - s >= Span) /\ ~(s <= w0.walked) BY <1>6
  <2>2. Honest(Judged(v, s, f.rate, Bit(s) \notin w0.seen), h0 \cup {s}, c0)
    BY <1>1, <1>2, <2>1, LateHonest
  <2>3. /\ win' = Judged(v, s, f.rate, Bit(s) \notin w0.seen) /\ charged' = c0
        /\ heardSeqs' = h0 \cup {s}
    BY <1>3, <1>6
  <2> HIDE DEF v
  <2> QED BY <2>2, <2>3
<1> QED BY <1>4, <1>5, <1>6

\* A copy that fails its checksum charges the rate and nothing else.
LEMMA CorruptKeeps ==
  ASSUME Honest(win, heardSeqs, charged), NEW f \in FlyingFrames, Corrupt(f)
  PROVE  Honest(win', heardSeqs', charged')
<1> DEFINE w == Renewed(win)
<1>1. UNCHANGED <<heardSeqs, charged>> BY DEF Corrupt
<1>2. win' = win \/ win' = w \/ win' = [w EXCEPT !.fail = w.fail + 1] BY DEF Corrupt
<1>3. Honest(w, heardSeqs, charged) BY RenewedHonest
<1> HIDE DEF w
<1>4. w.fail + 1 \in Nat BY <1>3 DEF Honest, Windows
<1>5. Honest([w EXCEPT !.fail = w.fail + 1], heardSeqs, charged) BY <1>3, <1>4, RenewedHonest
<1> QED BY <1>1, <1>2, <1>3, <1>5

\* For every span, horizon and schedule, and for every loss, corruption and order of copies: the
\* bitmap over residues never differs from a memory without bounds where the walk and the
\* credit look at it.
THEOREM EvidenceAlwaysExact == PESpec => []EvidenceExact
<1>1. PEInit => PEInv
  <2> SUFFICES ASSUME PEInit PROVE PEInv OBVIOUS
  <2>1. sender \in [seq : Nat \ {0}, profile : Nat, pin : Nat, probes : BOOLEAN, session : Nat]
    BY ProbeAssumption DEF PEInit
  <2>2. Honest(NoContext, {}, {}) BY ContextHonest
  <2> QED BY <2>1, <2>2 DEF PEInit, PEInv
<1>2. PEInv /\ [PENext]_peVars => PEInv'
  <2> SUFFICES ASSUME PEInv, [PENext]_peVars PROVE PEInv' OBVIOUS
  <2>1. /\ sender \in [seq : Nat \ {0}, profile : Nat, pin : Nat, probes : BOOLEAN, session : Nat]
        /\ flying \subseteq FlyingFrames /\ Honest(win, heardSeqs, charged)
    BY DEF PEInv
  <2>2. CASE UNCHANGED peVars BY <2>1, <2>2 DEF peVars, PEInv
  <2>3. CASE SendFrame
    <3> DEFINE g == [seq |-> sender.seq, profile |-> sender.profile, rate |-> Rate(sender.seq),
                     left |-> Copies, session |-> sender.session]
    <3>1. /\ flying' = flying \cup {g} /\ sender' = [sender EXCEPT !.seq = sender.seq + 1]
          /\ UNCHANGED <<win, heardSeqs, charged>>
      BY <2>3 DEF SendFrame
    <3>2. Rate(sender.seq) \in Nat BY <2>1 DEF Rate, UpCandidate, NoRate
    <3>3. g \in FlyingFrames BY <2>1, <3>2, ProbeAssumption DEF FlyingFrames
    <3>4. sender' \in [seq : Nat \ {0}, profile : Nat, pin : Nat, probes : BOOLEAN, session : Nat]
      <4>1. sender.seq + 1 \in Nat \ {0} BY <2>1
      <4> QED BY <2>1, <3>1, <4>1
    <3> QED BY <2>1, <3>1, <3>3, <3>4 DEF PEInv
  <2>4. CASE Reboot
    <3>1. sender.session + 1 \in Nat BY <2>1
    <3>2. sender' = [sender EXCEPT !.session = sender.session + 1] BY <2>4 DEF Reboot
    <3>3. sender' \in [seq : Nat \ {0}, profile : Nat, pin : Nat, probes : BOOLEAN, session : Nat]
      BY <2>1, <3>1, <3>2
    <3> QED BY <2>1, <2>4, <3>3 DEF Reboot, PEInv
  <2>5. CASE CopyArrives
    <3>1. PICK f \in flying :
             /\ flying' = (flying \ {f}) \cup {[f EXCEPT !.left = @ - 1] : x \in {1} \ {f.left}}
             /\ HearCopy(f) \/ Corrupt(f)
      BY <2>5 DEF CopyArrives
    <3>2. f \in FlyingFrames BY <2>1
    <3>3. f.left - 1 \in Int BY <3>2 DEF FlyingFrames
    <3>4. [f EXCEPT !.left = f.left - 1] \in FlyingFrames BY <3>2, <3>3 DEF FlyingFrames
    <3>5. flying' \subseteq FlyingFrames BY <2>1, <3>1, <3>4
    <3>6. Honest(win', heardSeqs', charged') BY <2>1, <3>1, <3>2, HearCopyKeeps, CorruptKeeps
    <3>7. UNCHANGED sender BY <2>5 DEF CopyArrives
    <3> QED BY <2>1, <3>5, <3>6, <3>7 DEF PEInv
  <2>6. CASE CopiesLost BY <2>1, <2>6 DEF CopiesLost, PEInv
  <2>7. CASE WindowAges
    <3>1. win' = [win EXCEPT !.old = TRUE] /\ UNCHANGED <<sender, flying, heardSeqs, charged>>
      BY <2>7 DEF WindowAges
    <3>2. Honest([win EXCEPT !.old = TRUE], heardSeqs, charged) BY <2>1, RenewedHonest
    <3> QED BY <2>1, <3>1, <3>2 DEF PEInv
  <2>8. ASSUME NEW p \in 1 .. Top, NEW pin_ \in 1 .. Top, Reprofile(p, pin_) PROVE PEInv'
    <3>1. p \in Nat /\ pin_ \in Nat BY ProbeAssumption
    <3>2. sender' = [sender EXCEPT !.profile = p, !.pin = pin_] BY <2>8 DEF Reprofile
    <3>3. sender' \in [seq : Nat \ {0}, profile : Nat, pin : Nat, probes : BOOLEAN, session : Nat]
      BY <2>1, <3>1, <3>2
    <3> QED BY <2>1, <2>8, <3>3 DEF Reprofile, PEInv
  <2> QED BY <2>2, <2>3, <2>4, <2>5, <2>6, <2>7, <2>8 DEF PENext
<1>3. PEInv => EvidenceExact BY DEF PEInv, Honest, Memory, Hits, EvidenceExact
<1> QED BY <1>1, <1>2, <1>3, PTL DEF PESpec
-----------------------------------------------------------------------------
(* Recovery requests *)

\* The schedules of the egress stream.
Entries == [key : Sessions \cup {Unlatched}, attempts : 0 .. Attempts, next : Nat,
            done : BOOLEAN, answered : BOOLEAN, rearm : Nat]

\* What a handler writes into a schedule leaves a schedule.
LEMMA EntryUpdates ==
  ASSUME NEW e \in Entries, NEW k \in Sessions \cup {Unlatched}, NEW a \in 0 .. Attempts,
         NEW n \in Nat, NEW d \in BOOLEAN, NEW w \in BOOLEAN, NEW r \in Nat
  PROVE  /\ [e EXCEPT !.key = k] \in Entries
         /\ [e EXCEPT !.attempts = a, !.next = n, !.rearm = r] \in Entries
         /\ [e EXCEPT !.attempts = a, !.done = d, !.next = n, !.answered = w] \in Entries
BY DEF Entries

\* The requests a schedule still remembers never outnumber its attempts: a schedule that
\* was answered remembers none, and one that is spent waits until the youngest is forgotten.
LRInv ==
  /\ entry \in Entries
  /\ tuple \in Sessions \cup {Unlatched}
  /\ asks \in Seq(0 .. RearmBackoff - 1) /\ Len(asks) <= entry.attempts
  /\ entry.key = Unlatched => entry = NoEntry
  /\ entry.done <=> entry.answered
  /\ entry.answered => asks = << >>
  /\ ~entry.answered /\ entry.attempts = Attempts
       => \A i \in DOMAIN asks : asks[i] + entry.rearm >= RearmBackoff

\* For every number of attempts, period and backoff, and every order of latches, teardowns,
\* start points and damaged frames: a craft that answers nothing is asked at most Attempts
\* times in any stretch of the backoff (recovery.cpp due and note_damage).
THEOREM AsksAlwaysBudgeted == LRSpec => []AskBudget
<1> USE RecoveryAssumption DEF Unlatched
<1>0. NoEntry = [key |-> 0, attempts |-> 0, next |-> 0, done |-> FALSE, answered |-> FALSE,
                 rearm |-> 0]
  BY DEF NoEntry
<1> DEFINE E == [key : Sessions \cup {0}, attempts : 0 .. Attempts, next : Nat,
                 done : BOOLEAN, answered : BOOLEAN, rearm : Nat]
           A == Seq(0 .. RearmBackoff - 1)
           Fits(e, a) ==
             /\ Len(a) <= e.attempts /\ (e.key = 0 => e = NoEntry) /\ (e.done <=> e.answered)
             /\ (e.answered => a = << >>)
             /\ (~e.answered /\ e.attempts = Attempts
                   => \A i \in DOMAIN a : a[i] + e.rearm >= RearmBackoff)
<1>1. LRInv <=> entry \in E /\ tuple \in Sessions \cup {0} /\ asks \in A /\ Fits(entry, asks)
  BY DEF LRInv, Entries
<1>6. LRInv' <=> /\ entry' \in E /\ tuple' \in Sessions \cup {0} /\ asks' \in A
                 /\ Fits(entry', asks')
  BY DEF LRInv, Entries
<1>7. E = Entries BY DEF Entries
<1>2. NoEntry \in E /\ << >> \in A /\ Fits(NoEntry, << >>)
  <2>1. NoEntry \in E BY <1>0
  <2>2. Len(<< >>) = 0 /\ << >> \in A OBVIOUS
  <2>3. NoEntry.attempts = 0 /\ NoEntry.done = FALSE /\ NoEntry.answered = FALSE BY <1>0
  <2> QED BY <2>1, <2>2, <2>3
<1>3. LRInit => LRInv BY <1>1, <1>2 DEF LRInit
<1>4. LRInv /\ [LRNext]_lrVars => LRInv'
  <2> SUFFICES ASSUME LRInv, [LRNext]_lrVars PROVE LRInv' OBVIOUS
  <2>1. entry \in E /\ tuple \in Sessions \cup {0} /\ asks \in A /\ Fits(entry, asks) BY <1>1
  <2>2. CASE UNCHANGED <<entry, asks>> /\ tuple' \in Sessions \cup {0}
    BY <2>1, <2>2 DEF LRInv
  <2>3. CASE (\E k \in Sessions : Latched(k)) \/ TornDown \/ UNCHANGED lrVars
    BY <2>1, <2>2, <2>3 DEF Latched, TornDown, lrVars
  <2>4. CASE Due
    <3> DEFINE e == Reconciled
               sofar == IF e.key = entry.key THEN asks ELSE << >>
    <3>1. /\ entry' = IF Asks(e) THEN Asked(e) ELSE e
          /\ asks' = IF Asks(e) THEN Append(sofar, 0) ELSE sofar
          /\ tuple' = tuple
      BY <2>4 DEF Due
    <3>2. e \in E /\ sofar \in A /\ Fits(e, sofar)
      <4>1. CASE e = entry BY <2>1, <4>1
      <4>2. CASE e # entry
        <5> DEFINE blank == [NoEntry EXCEPT !.key = tuple]
        <5>1. /\ blank \in E /\ blank.attempts = 0 /\ blank.done = FALSE
              /\ blank.answered = FALSE /\ blank.key = tuple
          <6>1. NoEntry \in Entries /\ tuple \in Sessions \cup {Unlatched} BY <1>2, <1>7, <2>1
          <6>2. blank \in Entries
            <7>1. 0 \in 0 .. Attempts /\ 0 \in Nat /\ FALSE \in BOOLEAN OBVIOUS
            <7> QED BY <6>1, <7>1, EntryUpdates
          <6> QED BY <1>0, <1>7, <6>2
        <5>2. Len(<< >>) = 0 /\ << >> \in A OBVIOUS
        <5>3. CASE tuple = 0
          <6>1. e = NoEntry /\ e.key = 0 BY <1>0, <5>3 DEF Reconciled
          <6>2. entry.key # 0 BY <2>1, <4>2, <6>1
          <6>3. sofar = << >> BY <6>1, <6>2
          <6> QED BY <1>2, <6>1, <6>3
        <5>4. CASE tuple # 0
          <6>1. entry.key # tuple /\ e = blank BY <4>2, <5>4 DEF Reconciled
          <6>2. sofar = << >> BY <5>1, <6>1
          <6>3. Fits(blank, << >>) BY <5>1, <5>2, <5>4
          <6> QED BY <5>1, <5>2, <6>1, <6>2, <6>3
        <5> QED BY <5>3, <5>4
      <4> QED BY <4>1, <4>2
    <3> HIDE DEF e, sofar
    <3>3. CASE ~Asks(e) BY <1>6, <2>1, <3>1, <3>2, <3>3
    <3>4. CASE Asks(e)
      <4>1. e.key # 0 /\ ~e.done /\ e.attempts < Attempts BY <3>4 DEF Asks
      <4>2. entry' = Asked(e) /\ asks' = Append(sofar, 0) BY <3>1, <3>4
      <4>3. /\ Asked(e) \in E /\ Asked(e).attempts = e.attempts + 1 /\ Asked(e).key = e.key
            /\ Asked(e).done = e.done /\ Asked(e).answered = e.answered
            /\ Asked(e).rearm = IF e.attempts + 1 >= Attempts THEN RearmBackoff ELSE e.rearm
        <5> DEFINE r == IF e.attempts + 1 >= Attempts THEN RearmBackoff ELSE e.rearm
        <5>0. e \in Entries BY <1>7, <3>2
        <5>1. /\ e.attempts + 1 \in 0 .. Attempts /\ AskPeriod \in Nat /\ r \in Nat
          <6>1. e.attempts \in 0 .. Attempts /\ e.rearm \in Nat BY <3>2
          <6> QED BY <4>1, <6>1
        <5>2. Asked(e) = [e EXCEPT !.attempts = e.attempts + 1, !.next = AskPeriod, !.rearm = r]
          BY DEF Asked
        <5>3. Asked(e) \in Entries
          <6> DEFINE a == e.attempts + 1
          <6>1. FALSE \in BOOLEAN /\ Unlatched \in Sessions \cup {Unlatched} OBVIOUS
          <6>2. a \in 0 .. Attempts /\ AskPeriod \in Nat /\ r \in Nat BY <5>1
          <6>3. Asked(e) = [e EXCEPT !.attempts = a, !.next = AskPeriod, !.rearm = r] BY <5>2
          <6> HIDE DEF a, r
          <6>4. [e EXCEPT !.attempts = a, !.next = AskPeriod, !.rearm = r] \in Entries
            BY <5>0, <6>1, <6>2, EntryUpdates
          <6> QED BY <6>3, <6>4
        <5>4. /\ Asked(e).attempts = e.attempts + 1 /\ Asked(e).rearm = r
          BY <3>2, <5>2
        <5>5. /\ Asked(e).key = e.key /\ Asked(e).done = e.done /\ Asked(e).answered = e.answered
          BY <3>2, <5>2
        <5> QED BY <1>7, <5>3, <5>4, <5>5
      <4>4. /\ Append(sofar, 0) \in A /\ Len(Append(sofar, 0)) = Len(sofar) + 1
            /\ \A i \in DOMAIN Append(sofar, 0) : Append(sofar, 0)[i] \in Nat
        BY <3>2
      <4>5. Len(sofar) <= e.attempts /\ e.attempts \in Nat /\ Len(sofar) \in Nat BY <3>2
      <4>6. ~e.answered BY <3>2, <4>1
      <4>7. Asked(e).attempts = Attempts => Asked(e).rearm = RearmBackoff BY <4>3, <4>5
      <4>8. \A i \in DOMAIN Append(sofar, 0) : Append(sofar, 0)[i] + RearmBackoff >= RearmBackoff
        BY <4>4
      <4>9. Fits(Asked(e), Append(sofar, 0))
        <5>1. Len(Append(sofar, 0)) <= Asked(e).attempts BY <4>3, <4>4, <4>5
        <5> QED BY <3>2, <4>1, <4>3, <4>6, <4>7, <4>8, <5>1
      <4> QED BY <1>6, <2>1, <3>1, <4>2, <4>3, <4>4, <4>9
    <3> QED BY <3>3, <3>4
  <2>5. CASE Elapse
    <3>1. PICK k \in 0 .. Len(asks) :
            /\ \A i \in DOMAIN asks : i <= k <=> ~Young(asks[i] + 1)
            /\ asks' = [i \in 1 .. Len(asks) - k |-> asks[i + k] + 1]
      BY <2>5 DEF Elapse
    <3>2. /\ entry # NoEntry /\ entry' = [entry EXCEPT !.next = Less(@), !.rearm = Less(@)]
          /\ tuple' = tuple
      BY <2>5 DEF Elapse
    <3>3. \A n \in Nat : Less(n) \in Nat /\ Less(n) + 1 >= n BY DEF Less
    <3>4. /\ entry' \in E /\ entry'.key = entry.key /\ entry'.attempts = entry.attempts
          /\ entry'.done = entry.done /\ entry'.answered = entry.answered
          /\ entry'.rearm = Less(entry.rearm)
      BY <2>1, <3>2, <3>3
    <3>5. Len(asks) \in Nat /\ DOMAIN asks = 1 .. Len(asks) BY <2>1
    <3>6. Len(asks) - k \in Nat BY <3>5
    <3>7. ASSUME NEW i \in 1 .. Len(asks) - k
          PROVE  /\ i + k \in DOMAIN asks /\ asks[i + k] \in Nat
                 /\ asks[i + k] + 1 \in 0 .. RearmBackoff - 1
      <4>1. i + k \in DOMAIN asks /\ ~(i + k <= k) BY <3>5
      <4>2. Young(asks[i + k] + 1) BY <3>1, <4>1
      <4>3. asks[i + k] \in 0 .. RearmBackoff - 1 BY <2>1, <4>1
      <4> QED BY <4>1, <4>2, <4>3 DEF Young
    <3>8. asks' \in A /\ Len(asks') = Len(asks) - k
      <4> DEFINE n == Len(asks) - k
                 f == [i \in 1 .. n |-> asks[i + k] + 1]
      <4>1. n \in Nat /\ \A i \in 1 .. n : f[i] \in 0 .. RearmBackoff - 1 BY <3>6, <3>7
      <4>2. asks' = f BY <3>1
      <4> HIDE DEF n
      <4>3. f \in Seq(0 .. RearmBackoff - 1) /\ Len(f) = n BY <4>1
      <4> QED BY <4>2, <4>3 DEF n
    <3>9. Len(asks') <= entry'.attempts
      <4>1. entry.attempts \in Nat /\ Len(asks) <= entry.attempts BY <2>1
      <4>2. Len(asks) - k <= entry.attempts BY <3>5, <4>1
      <4> QED BY <3>4, <3>8, <4>2
    <3>10. entry'.key # 0 BY <2>1, <3>2, <3>4
    <3>11. entry'.answered => asks' = << >>
      <4>1. ASSUME entry.answered PROVE Len(asks) = 0 BY <2>1, <4>1
      <4>2. ASSUME entry.answered PROVE Len(asks') = 0 BY <3>5, <3>6, <3>8, <4>1, <4>2
      <4> QED BY <3>4, <3>8, <4>2
    <3>12. ASSUME ~entry'.answered, entry'.attempts = Attempts, NEW i \in DOMAIN asks'
           PROVE  asks'[i] + entry'.rearm >= RearmBackoff
      <4>1. i \in 1 .. Len(asks) - k BY <3>6, <3>8
      <4>2. asks[i + k] + entry.rearm >= RearmBackoff /\ asks[i + k] \in Nat
        BY <2>1, <3>4, <3>7, <3>12, <4>1
      <4>3. entry.rearm \in Nat BY <2>1
      <4>4. asks'[i] = asks[i + k] + 1 BY <3>1, <4>1
      <4>5. Less(entry.rearm) \in Nat /\ Less(entry.rearm) + 1 >= entry.rearm BY <3>3, <4>3
      <4> QED BY <3>4, <4>2, <4>3, <4>4, <4>5
    <3>13. Fits(entry', asks') BY <2>1, <3>4, <3>9, <3>10, <3>11, <3>12
    <3> QED BY <1>6, <2>1, <3>2, <3>4, <3>8, <3>13
  <2>6. CASE Irap
    <3>1. /\ entry # NoEntry /\ entry' = [entry EXCEPT !.done = TRUE, !.answered = TRUE]
          /\ asks' = << >> /\ tuple' = tuple
      BY <2>6 DEF Irap
    <3>2. /\ entry' \in E /\ entry'.key = entry.key /\ entry'.attempts = entry.attempts
          /\ entry'.done = TRUE /\ entry'.answered = TRUE
      BY <2>1, <3>1
    <3>3. << >> \in A /\ Len(<< >>) = 0 OBVIOUS
    <3>4. entry'.attempts \in Nat /\ entry'.key # 0 BY <2>1, <3>1, <3>2
    <3>5. Fits(entry', asks') BY <3>1, <3>2, <3>3, <3>4
    <3> QED BY <1>6, <2>1, <3>1, <3>2, <3>3, <3>5
  <2>7. CASE Damage
    <3>1. /\ entry # NoEntry /\ UNCHANGED <<tuple, asks>>
          /\ entry' = IF InFlight(entry) \/ BackedOff(entry) THEN entry ELSE Rearmed(entry)
      BY <2>7 DEF Damage
    <3>2. CASE InFlight(entry) \/ BackedOff(entry) BY <2>1, <2>2, <3>1, <3>2
    <3>3. CASE ~InFlight(entry) /\ ~BackedOff(entry)
      <4>1. /\ Rearmed(entry) \in E /\ Rearmed(entry).key = entry.key
            /\ Rearmed(entry).attempts = 0 /\ Rearmed(entry).done = FALSE
            /\ Rearmed(entry).answered = FALSE
        <5>1. 0 \in 0 .. Attempts /\ 0 \in Nat /\ FALSE \in BOOLEAN OBVIOUS
        <5>2. Rearmed(entry) \in Entries
          <6>1. entry \in Entries BY <1>7, <2>1
          <6>2. Unlatched \in Sessions \cup {Unlatched} OBVIOUS
          <6> QED BY <5>1, <6>1, <6>2, EntryUpdates DEF Rearmed
        <5> QED BY <1>7, <2>1, <5>2 DEF Rearmed
      <4>2. asks = << >>
        <5>1. CASE entry.answered BY <2>1, <5>1
        <5>2. CASE ~entry.answered
          <6>1. entry.attempts = Attempts /\ entry.rearm = 0
            BY <2>1, <3>3, <5>2 DEF InFlight, BackedOff
          <6>2. ASSUME NEW i \in DOMAIN asks PROVE FALSE
            <7>1. asks[i] + 0 >= RearmBackoff BY <2>1, <5>2, <6>1
            <7>2. asks[i] \in 0 .. RearmBackoff - 1 BY <2>1
            <7> QED BY <7>1, <7>2
          <6>3. Len(asks) \in Nat /\ DOMAIN asks = 1 .. Len(asks) BY <2>1
          <6>4. Len(asks) = 0 BY <6>2, <6>3
          <6> QED BY <2>1, <6>4
        <5> QED BY <5>1, <5>2
      <4>3. entry.key # 0 /\ Len(<< >>) = 0 BY <2>1, <3>1
      <4>4. Fits(Rearmed(entry), asks) BY <4>1, <4>2, <4>3
      <4> QED BY <1>6, <2>1, <3>1, <3>3, <4>1, <4>4
    <3> QED BY <3>2, <3>3
  <2> QED BY <2>3, <2>4, <2>5, <2>6, <2>7 DEF LRNext
<1>5. LRInv => AskBudget
  <2> SUFFICES ASSUME LRInv PROVE Len(asks) <= Attempts BY DEF AskBudget
  <2>1. entry.attempts \in 0 .. Attempts /\ Len(asks) <= entry.attempts /\ Len(asks) \in Nat
    BY <1>1
  <2> QED BY <2>1
<1> QED BY <1>3, <1>4, <1>5, PTL DEF LRSpec

-----------------------------------------------------------------------------
(* Frame repair *)

\* The newest of some blocks and what came before.
LEMMA NewestBlock ==
  ASSUME NEW S \in SUBSET Blocks, NEW z \in Nat
  PROVE  /\ Max(S \cup {z}) \in S \cup {z} /\ Max(S \cup {z}) \in Nat
         /\ \A x \in S \cup {z} : x <= Max(S \cup {z})
<1> DEFINE T == S \cup {z}
           U == {m \in Nat : \A x \in T : x <= m}
<1>0. MaxBlock \in Nat /\ T \subseteq Nat /\ z \in T BY AsmAssumption DEF Blocks
<1>1. MaxBlock + z \in U BY <1>0 DEF Blocks
<1>2. PICK m \in U : \A k \in U : m <= k
  <2>1. U \in SUBSET Nat /\ U # {} BY <1>1
  <2> HIDE DEF U
  <2> QED BY <2>1, MinNat
<1>3. m \in T
  <2> SUFFICES ASSUME m \notin T PROVE FALSE OBVIOUS
  <2>1. \A x \in T : x \in Nat /\ x <= m /\ x # m BY <1>0, <1>2
  <2>2. m # 0 /\ m \in Nat BY <1>0, <1>2, <2>1
  <2>3. m - 1 \in U BY <2>1, <2>2
  <2> QED BY <1>2, <2>2, <2>3
<1>4. \E x \in T : \A y \in T : x >= y BY <1>0, <1>2, <1>3
<1>5. Max(T) \in T /\ \A y \in T : Max(T) >= y BY <1>4 DEF Max
<1> HIDE DEF T
<1>6. Max(T) \in Nat /\ \A y \in T : y <= Max(T) BY <1>0, <1>5
<1> QED BY <1>5, <1>6 DEF T

\* A list of the n blocks of S, oldest first.
Listing(q, n, S) == q \in [1..n -> S] /\ \A i, j \in 1..n : i < j => q[i] < q[j]

\* Every set of blocks has one.
LEMMA ListingExists ==
  ASSUME NEW S \in SUBSET Blocks
  PROVE  IsFiniteSet(S) /\ Cardinality(S) \in Nat /\ \E q : Listing(q, Cardinality(S), S)
<1>0. MaxBlock \in Nat BY AsmAssumption
<1>1. \A T \in SUBSET Blocks : IsFiniteSet(T) /\ Cardinality(T) \in Nat
  <2>1. IsFiniteSet(Blocks)
    <3>1. 1 \in Int /\ MaxBlock \in Int BY <1>0
    <3> QED BY <3>1, FS_Interval DEF Blocks
  <2>2. \A T \in SUBSET Blocks : IsFiniteSet(T) BY <2>1, FS_Subset
  <2> QED BY <2>2, FS_CardinalityType
<1> DEFINE Bad == {n \in Nat : \E T \in SUBSET Blocks :
                     Cardinality(T) = n /\ ~ \E q : Listing(q, n, T)}
<1>2. Bad = {}
  <2> SUFFICES ASSUME Bad # {} PROVE FALSE OBVIOUS
  <2>1. PICK n \in Bad : \A k \in Bad : n <= k
    <3>1. Bad \in SUBSET Nat OBVIOUS
    <3> HIDE DEF Bad
    <3> QED BY <3>1, MinNat
  <2>2. PICK T \in SUBSET Blocks : Cardinality(T) = n /\ ~ \E q : Listing(q, n, T) BY <2>1
  <2>3. n \in Nat /\ IsFiniteSet(T) BY <1>1, <2>1
  <2>4. n # 0
    <3> SUFFICES ASSUME n = 0 PROVE FALSE OBVIOUS
    <3>1. T = {} BY <2>2, <2>3, FS_EmptySet
    <3> DEFINE q == [i \in 1..0 |-> i]
    <3>2. Listing(q, n, T) BY DEF Listing
    <3> QED BY <2>2, <3>2
  <2>5. T # {} BY <2>2, <2>4, FS_EmptySet
  <2>6. PICK m \in T : \A x \in T : x <= m
    <3>1. PICK x \in T : TRUE BY <2>5
    <3>2. x \in Nat /\ T \cup {x} = T BY <1>0, <3>1 DEF Blocks
    <3> QED BY <3>2, NewestBlock
  <2>7. Cardinality(T \ {m}) = n - 1 BY <2>2, <2>3, FS_RemoveElement
  <2>8. T \ {m} \in SUBSET Blocks /\ n - 1 \in Nat /\ n - 1 \notin Bad
    <3>1. n - 1 \in Nat /\ ~(n <= n - 1) BY <2>3, <2>4
    <3> HIDE DEF Bad
    <3> QED BY <2>1, <2>2, <3>1
  <2>9. PICK p : Listing(p, n - 1, T \ {m}) BY <2>7, <2>8
  <2> DEFINE q == [i \in 1..n |-> IF i = n THEN m ELSE p[i]]
  <2>10. \A i \in 1..n : i # n => i \in 1..n - 1 BY <2>3
  <2>11. q \in [1..n -> T] BY <2>9, <2>10 DEF Listing
  <2>12. ASSUME NEW i \in 1..n, NEW j \in 1..n, i < j PROVE q[i] < q[j]
    <3>1. i \in 1..n - 1 /\ q[i] = p[i] /\ p[i] \in T /\ p[i] # m
      BY <2>3, <2>9, <2>10, <2>12 DEF Listing
    <3>2. CASE j = n
      <4>1. T \subseteq Nat BY <1>0 DEF Blocks
      <4>2. p[i] <= m /\ p[i] \in Nat /\ m \in Nat BY <2>6, <3>1, <4>1
      <4> QED BY <3>1, <3>2, <4>2
    <3>3. CASE j # n
      <4>1. p[i] < p[j] BY <2>9, <2>10, <2>12, <3>1, <3>3 DEF Listing
      <4> QED BY <3>1, <3>3, <4>1
    <3> QED BY <3>2, <3>3
  <2>13. Listing(q, n, T) BY <2>11, <2>12 DEF Listing
  <2> QED BY <2>2, <2>13
<1>3. IsFiniteSet(S) /\ Cardinality(S) \in Nat BY <1>1
<1>4. \E q : Listing(q, Cardinality(S), S)
  <2>1. Cardinality(S) \notin Bad BY <1>2
  <2> QED BY <1>3, <2>1
<1> QED BY <1>3, <1>4

\* Ascending is that list.
LEMMA AscendingLists ==
  ASSUME NEW S \in SUBSET Blocks
  PROVE  Listing(Ascending(S), Cardinality(S), S)
<1> DEFINE n == Cardinality(S)
<1>1. \E q \in [1..n -> S] : \A i, j \in 1..n : i < j => q[i] < q[j]
  BY ListingExists DEF Listing
<1> QED BY <1>1 DEF Ascending, Listing
\* The reassembler's state: its fields, and those of an open block.
IsBlock(v) == v = [known |-> v.known, held |-> v.held, age |-> v.age, quiet |-> v.quiet,
                   eob |-> v.eob, from |-> v.from]
IsAsm(a) ==
    /\ a = [open |-> a.open, highest |-> a.highest, emitted |-> a.emitted, finalized |-> a.finalized]
    /\ a.highest \in Nat /\ a.emitted \in Nat /\ a.finalized \in Nat
    /\ DOMAIN a.open \in SUBSET Blocks /\ \A b \in DOMAIN a.open : IsBlock(a.open[b])

\* What it holds is of session w, a block it may emit holds something, and what was
\* emitted is final.
OfSession(a, w) ==
    /\ IsAsm(a) /\ a.emitted <= a.finalized
    /\ \A b \in DOMAIN a.open : /\ a.open[b].from \subseteq {w}
                                /\ a.open[b].known => w \in a.open[b].from

\* What an operator makes of it, when what it emits was held by before.
Yields(o, a, w, before) ==
    /\ OfSession(o.asm, w) /\ a.emitted <= o.asm.emitted
    /\ o.sent \in SUBSET Blocks
    /\ \A b \in o.sent : /\ b > a.emitted /\ b <= o.asm.emitted
                         /\ b \in DOMAIN before.open /\ before.open[b].from = {w}

\* Blocks gone retired from it: the rest is as it was.
WithoutBlocks(r, a, w, gone) ==
    /\ OfSession(r, w) /\ a.emitted <= r.emitted
    /\ DOMAIN r.open = DOMAIN a.open \ gone
    /\ \A b \in DOMAIN a.open \ gone : r.open[b] = a.open[b]
    /\ \A z \in Nat : (z >= a.emitted /\ \A b \in gone : b <= z) => r.emitted <= z
    /\ \A z \in Nat : (z >= a.finalized /\ \A b \in gone : b <= z) => r.finalized <= z

\* Retiring blocks of it.
LEMMA RetireFacts ==
  ASSUME NEW a, NEW w, OfSession(a, w), NEW gone \in SUBSET Blocks, NEW sent \in SUBSET gone
  PROVE  /\ WithoutBlocks(Retire(a, gone, sent), a, w, gone)
         /\ \A b \in sent : b <= Retire(a, gone, sent).emitted
<1>1. /\ IsAsm(a) /\ a.emitted \in Nat /\ a.finalized \in Nat /\ a.highest \in Nat
      /\ DOMAIN a.open \in SUBSET Blocks /\ \A b \in DOMAIN a.open : IsBlock(a.open[b])
  BY DEF OfSession, IsAsm
<1> DEFINE D == DOMAIN a.open \ gone
           opened == Restrict(a.open, D)
           fin == Max(gone \cup {a.finalized})
           em == Max(sent \cup {a.emitted})
           r == Retire(a, gone, sent)
<1>2. r = [a EXCEPT !.open = opened, !.finalized = fin, !.emitted = em] BY DEF Retire
<1>3. /\ fin \in gone \cup {a.finalized} /\ fin \in Nat /\ \A x \in gone \cup {a.finalized} : x <= fin
  BY <1>1, NewestBlock
<1>4. /\ em \in sent \cup {a.emitted} /\ em \in Nat /\ \A x \in sent \cup {a.emitted} : x <= em
  <2>1. sent \in SUBSET Blocks OBVIOUS
  <2> QED BY <1>1, <2>1, NewestBlock
<1>5. DOMAIN opened = D /\ \A b \in D : opened[b] = a.open[b] BY DEF Restrict
<1> HIDE DEF opened, fin, em, r, D
<1>6. r = [open |-> opened, highest |-> a.highest, emitted |-> em, finalized |-> fin]
  BY <1>1, <1>2 DEF IsAsm
<1>7. /\ IsAsm(r) /\ r.open = opened /\ r.finalized = fin /\ r.emitted = em
  BY <1>1, <1>3, <1>4, <1>5, <1>6 DEF IsAsm, D
<1>8. em <= fin
  <2>1. a.emitted <= a.finalized BY DEF OfSession
  <2>2. CASE em \in sent BY <1>3, <2>2
  <2>3. CASE em = a.emitted BY <1>1, <1>3, <2>1, <2>3
  <2> QED BY <1>4, <2>2, <2>3
<1>9. OfSession(r, w)
  <2>1. \A b \in D : b \in DOMAIN a.open BY DEF D
  <2> QED BY <1>5, <1>7, <1>8, <2>1 DEF OfSession
<1>10. /\ a.emitted <= r.emitted /\ \A b \in sent : b <= r.emitted BY <1>4, <1>7
<1>11. /\ DOMAIN r.open = DOMAIN a.open \ gone
       /\ \A b \in DOMAIN a.open \ gone : r.open[b] = a.open[b]
  BY <1>5, <1>7 DEF D
<1>12. /\ \A z \in Nat : (z >= a.emitted /\ \A b \in gone : b <= z) => r.emitted <= z
       /\ \A z \in Nat : (z >= a.finalized /\ \A b \in gone : b <= z) => r.finalized <= z
  BY <1>1, <1>3, <1>4, <1>7
<1>13. WithoutBlocks(r, a, w, gone) BY <1>9, <1>10, <1>11, <1>12 DEF WithoutBlocks
<1> QED BY <1>10, <1>13 DEF r

\* Giving blocks up.
LEMMA GiveUpYields ==
  ASSUME NEW a, NEW w, OfSession(a, w), NEW gone \in SUBSET DOMAIN a.open, NEW o \in GiveUp(a, gone)
  PROVE  Yields(o, a, w, a) /\ o.sent \subseteq gone /\ WithoutBlocks(o.asm, a, w, gone)
<1>1. DOMAIN a.open \in SUBSET Blocks /\ a.emitted \in Nat BY DEF OfSession, IsAsm
<1>2. PICK tried \in SUBSET {b \in gone : Salvageable(a, b)} : \E sent \in SUBSET tried :
         o = Outcome(Retire(a, gone, sent), tried, sent)
  BY DEF GiveUp
<1>3. PICK sent \in SUBSET tried : o = Outcome(Retire(a, gone, sent), tried, sent) BY <1>2
<1>4. o.asm = Retire(a, gone, sent) /\ o.sent = sent BY <1>3 DEF Outcome
<1>5. gone \in SUBSET Blocks BY <1>1
<1>6. sent \in SUBSET gone BY <1>2, <1>3
<1>7. WithoutBlocks(o.asm, a, w, gone) /\ \A b \in sent : b <= o.asm.emitted
  BY <1>4, <1>5, <1>6, RetireFacts
<1>8. ASSUME NEW b \in sent
      PROVE  b > a.emitted /\ b \in DOMAIN a.open /\ a.open[b].from = {w}
  <2>1. Salvageable(a, b) /\ b \in gone BY <1>2, <1>3
  <2>2. a.open[b].known /\ b > a.emitted BY <2>1 DEF Salvageable
  <2> QED BY <2>1, <2>2 DEF OfSession
<1> QED BY <1>4, <1>5, <1>6, <1>7, <1>8 DEF Yields, WithoutBlocks
\* A symbol of the session joins its block.
LEMMA InsertFacts ==
  ASSUME NEW a, NEW w, OfSession(a, w), NEW b \in Blocks, NEW x
  PROVE  LET in == Insert(a, b, x, w) IN
         /\ OfSession(in, w) /\ in.emitted = a.emitted /\ in.finalized = a.finalized
         /\ in.highest = a.highest /\ DOMAIN in.open = DOMAIN a.open \cup {b}
<1> DEFINE old == IF b \in DOMAIN a.open THEN a.open[b] ELSE NewBlock
           kn == TRUE
           he == old.held \cup {x}
           qu == IF x \in old.held THEN old.quiet ELSE 0
           eo == IF x = K + R - 1 /\ old.eob = -1 THEN 0 ELSE old.eob
           fr == old.from \cup {w}
           new == IF x = Malformed THEN old
                  ELSE [old EXCEPT !.known = kn, !.held = he, !.quiet = qu, !.eob = eo, !.from = fr]
           opened == [o \in DOMAIN a.open \cup {b} |-> IF o = b THEN new ELSE a.open[o]]
           in == Insert(a, b, x, w)
<1>1. /\ IsAsm(a) /\ a.emitted \in Nat /\ a.finalized \in Nat /\ a.highest \in Nat
      /\ DOMAIN a.open \in SUBSET Blocks
      /\ \A d \in DOMAIN a.open : /\ IsBlock(a.open[d]) /\ a.open[d].from \subseteq {w}
                                  /\ a.open[d].known => w \in a.open[d].from
  BY DEF OfSession, IsAsm
<1>2. in = [a EXCEPT !.open = opened] BY DEF Insert
<1>3. IsBlock(old) /\ old.from \subseteq {w} /\ (old.known => w \in old.from)
  <2>1. CASE b \in DOMAIN a.open BY <1>1, <2>1
  <2>2. CASE b \notin DOMAIN a.open BY <2>2 DEF IsBlock, NewBlock
  <2> QED BY <2>1, <2>2
<1>4. IsBlock(new) /\ new.from \subseteq {w} /\ (new.known => w \in new.from)
  <2>1. CASE x = Malformed BY <1>3, <2>1
  <2>2. CASE x # Malformed
    <3>0. fr \subseteq {w} /\ w \in fr BY <1>3
    <3>1. new = [old EXCEPT !.known = kn, !.held = he, !.quiet = qu, !.eob = eo, !.from = fr]
      BY <2>2
    <3> HIDE DEF old, kn, he, qu, eo, fr, new
    <3>2. new = [known |-> kn, held |-> he, age |-> old.age, quiet |-> qu, eob |-> eo, from |-> fr]
      BY <1>3, <3>1 DEF IsBlock
    <3> QED BY <3>0, <3>2 DEF IsBlock
  <2> QED BY <2>1, <2>2
<1> HIDE DEF new
<1>5. /\ DOMAIN opened = DOMAIN a.open \cup {b}
      /\ \A d \in DOMAIN opened : /\ IsBlock(opened[d]) /\ opened[d].from \subseteq {w}
                                  /\ opened[d].known => w \in opened[d].from
  BY <1>1, <1>4
<1> HIDE DEF opened, in
<1>6. in = [open |-> opened, highest |-> a.highest, emitted |-> a.emitted, finalized |-> a.finalized]
  BY <1>1, <1>2 DEF IsAsm
<1>7. /\ in.open = opened /\ in.highest = a.highest /\ in.emitted = a.emitted
      /\ in.finalized = a.finalized
  BY <1>6
<1>8. IsAsm(in)
  <2>1. DOMAIN opened \in SUBSET Blocks /\ \A d \in DOMAIN opened : IsBlock(opened[d])
    BY <1>1, <1>5
  <2> QED BY <1>1, <1>6, <1>7, <2>1 DEF IsAsm
<1>9. OfSession(in, w)
  <2>1. a.emitted <= a.finalized BY DEF OfSession
  <2> QED BY <1>5, <1>7, <1>8, <2>1 DEF OfSession
<1> QED BY <1>5, <1>6, <1>7, <1>9 DEF in

\* A block that may be complete is emitted at most once, as of the session.
LEMMA CompleteYields ==
  ASSUME NEW a, NEW w, NEW before, OfSession(a, w), NEW o, Yields(o, a, w, before),
         NEW b \in DOMAIN o.asm.open, b \in DOMAIN before.open,
         before.open[b].from = o.asm.open[b].from, b > a.emitted, o.asm.emitted <= b,
         NEW c \in Complete(o, b)
  PROVE  Yields(c, a, w, before)
<1>1. CASE ~Decodable(o.asm.open[b])
  <2>1. c = o BY <1>1 DEF Complete
  <2> QED BY <2>1
<1>2. CASE Decodable(o.asm.open[b])
  <2>1. PICK acc \in {{}, {b}} :
          c = Outcome(Retire(o.asm, {b}, acc), o.tried \cup {b}, o.sent \cup acc)
    BY <1>2 DEF Complete
  <2>2. c.asm = Retire(o.asm, {b}, acc) /\ c.sent = o.sent \cup acc BY <2>1 DEF Outcome
  <2>3. /\ OfSession(o.asm, w) /\ a.emitted <= o.asm.emitted /\ o.sent \in SUBSET Blocks
        /\ \A d \in o.sent : /\ d > a.emitted /\ d <= o.asm.emitted
                             /\ d \in DOMAIN before.open /\ before.open[d].from = {w}
    BY DEF Yields
  <2>4. a.emitted \in Nat /\ o.asm.emitted \in Nat /\ b \in Blocks
    BY <2>3 DEF OfSession, IsAsm
  <2>5. acc \in SUBSET {b} /\ {b} \in SUBSET Blocks BY <2>1, <2>4
  <2>6. WithoutBlocks(c.asm, o.asm, w, {b}) /\ \A d \in acc : d <= c.asm.emitted
    <3> DEFINE g == {b}
    <3>1. c.asm = Retire(o.asm, g, acc) /\ acc \in SUBSET g /\ g \in SUBSET Blocks BY <2>2, <2>5
    <3> HIDE DEF g
    <3>2. WithoutBlocks(c.asm, o.asm, w, g) /\ \A d \in acc : d <= c.asm.emitted
      BY <2>3, <3>1, RetireFacts
    <3> QED BY <3>2 DEF g
  <2>7. OfSession(c.asm, w) /\ o.asm.emitted <= c.asm.emitted BY <2>6 DEF WithoutBlocks
  <2>8. c.asm.emitted \in Nat BY <2>7 DEF OfSession, IsAsm
  <2>9. a.emitted <= c.asm.emitted BY <2>3, <2>4, <2>7, <2>8
  <2>10. o.asm.open[b].from = {w}
    <3>1. o.asm.open[b].known BY <1>2 DEF Decodable
    <3> QED BY <2>3, <3>1 DEF OfSession
  <2>11. ASSUME NEW d \in c.sent
         PROVE  /\ d > a.emitted /\ d <= c.asm.emitted
                /\ d \in DOMAIN before.open /\ before.open[d].from = {w}
    <3>1. CASE d \in o.sent
      <4>1. d \in Nat BY <2>3, <3>1, AsmAssumption DEF Blocks
      <4> QED BY <2>3, <2>4, <2>7, <2>8, <3>1, <4>1
    <3>2. CASE d \in acc
      <4>1. d = b BY <2>5, <3>2
      <4> QED BY <2>6, <2>10, <3>2, <4>1
    <3> QED BY <2>2, <3>1, <3>2
  <2>12. c.sent \in SUBSET Blocks BY <2>2, <2>3, <2>5
  <2> QED BY <2>7, <2>9, <2>11, <2>12 DEF Yields
<1> QED BY <1>1, <1>2

\* A symbol of the session arrives.
LEMMA PushYields ==
  ASSUME NEW a, NEW w, OfSession(a, w), NEW b \in Blocks, NEW x, NEW o \in Push(a, b, x, w)
  PROVE  Yields(o, a, w, Insert(a, b, x, w))
<1> DEFINE in == Insert(a, b, x, w)
<1>1. /\ OfSession(in, w) /\ in.emitted = a.emitted /\ in.finalized = a.finalized
      /\ in.highest = a.highest /\ DOMAIN in.open = DOMAIN a.open \cup {b}
  BY InsertFacts
<1>2. /\ a.emitted \in Nat /\ a.finalized \in Nat /\ a.highest \in Nat /\ b \in Nat
      /\ a.emitted <= a.finalized
  BY AsmAssumption DEF OfSession, IsAsm, Blocks
<1>3. \A v : OfSession(v, w) /\ v.emitted = a.emitted => Yields(Outcome(v, {}, {}), a, w, in)
  BY <1>2 DEF Yields, Outcome
<1>4. CASE b <= a.finalized
  <2>1. o = Outcome(a, {}, {}) BY <1>4 DEF Push
  <2> QED BY <1>3, <2>1
<1>5. CASE ~(b <= a.finalized) /\ x = Malformed
  <2>1. o = Outcome(in, {}, {}) BY <1>5 DEF Push
  <2> QED BY <1>1, <1>3, <2>1
<1>6. CASE ~(b <= a.finalized) /\ x # Malformed /\ b > a.highest
  <2> DEFINE up == [in EXCEPT !.highest = b]
             gone == {n \in DOMAIN in.open : n < b}
  <2>1. PICK g \in GiveUp(up, gone) : o \in Complete(g, b) BY <1>6 DEF Push
  <2>2. up = [open |-> in.open, highest |-> b, emitted |-> in.emitted, finalized |-> in.finalized]
    <3>1. in = [open |-> in.open, highest |-> in.highest, emitted |-> in.emitted,
                finalized |-> in.finalized]
      BY <1>1 DEF OfSession, IsAsm
    <3> HIDE DEF in
    <3> QED BY <3>1
  <2> HIDE DEF in, up
  <2>3. up.open = in.open /\ up.emitted = a.emitted /\ up.finalized = a.finalized
    BY <1>1, <2>2
  <2>4. OfSession(up, w)
    <3>1. IsAsm(up) BY <1>1, <1>2, <2>2 DEF OfSession, IsAsm
    <3> QED BY <1>1, <1>2, <2>3, <3>1 DEF OfSession
  <2>5. gone \in SUBSET DOMAIN up.open BY <2>3
  <2>6. b \in DOMAIN up.open \ gone BY <1>1, <1>2, <2>3
  <2>7. \A n \in gone : n <= b
    <3>1. \A n \in DOMAIN in.open : n \in Nat BY <1>1, AsmAssumption DEF OfSession, IsAsm, Blocks
    <3> QED BY <1>2, <3>1
  <2> HIDE DEF gone
  <2>8. Yields(g, up, w, up) /\ WithoutBlocks(g.asm, up, w, gone) BY <2>1, <2>4, <2>5, GiveUpYields
  <2>9. Yields(g, a, w, in) BY <2>3, <2>8 DEF Yields
  <2>10. b > a.emitted /\ a.emitted <= b BY <1>2, <1>6
  <2>11. /\ g.asm.emitted <= b /\ b \in DOMAIN g.asm.open /\ g.asm.open[b] = in.open[b]
    BY <1>2, <2>3, <2>6, <2>7, <2>8, <2>10 DEF WithoutBlocks
  <2>12. b \in DOMAIN in.open BY <1>1
  <2>13. Yields(o, a, w, in) BY <2>1, <2>9, <2>10, <2>11, <2>12, CompleteYields
  <2> QED BY <2>13 DEF in
<1>7. CASE ~(b <= a.finalized) /\ x # Malformed /\ ~(b > a.highest)
  <2> DEFINE g == Outcome(in, {}, {})
  <2>1. o \in Complete(g, b) BY <1>7 DEF Push
  <2>2. Yields(g, a, w, in) BY <1>1, <1>3
  <2>3. g.asm = in BY DEF Outcome
  <2> HIDE DEF in, g
  <2>4. b > a.emitted /\ g.asm.emitted <= b BY <1>1, <1>2, <1>7, <2>3
  <2>5. b \in DOMAIN in.open BY <1>1
  <2>6. Yields(o, a, w, in) BY <2>1, <2>2, <2>3, <2>4, <2>5, CompleteYields
  <2> QED BY <2>6 DEF in
<1> QED BY <1>4, <1>5, <1>6, <1>7

\* Time passes for it.
LEMMA AsmTickYields ==
  ASSUME NEW a, NEW w, OfSession(a, w), NEW o \in AsmTick(a)
  PROVE  Yields(o, a, w, a)
<1> DEFINE up(v) == [v EXCEPT !.age = @ + 1, !.quiet = @ + 1, !.eob = IF @ = -1 THEN -1 ELSE @ + 1]
           opened == [b \in DOMAIN a.open |-> up(a.open[b])]
           old == [a EXCEPT !.open = opened]
           gone == {b \in DOMAIN old.open : old.open[b].age >= Deadline}
<1>1. o \in GiveUp(old, gone) BY DEF AsmTick
<1>2. ASSUME NEW v, IsBlock(v) PROVE IsBlock(up(v)) /\ up(v).from = v.from /\ up(v).known = v.known
  <2> DEFINE ag == v.age + 1
             qu == v.quiet + 1
             eo == IF v.eob = -1 THEN -1 ELSE v.eob + 1
  <2>1. up(v) = [v EXCEPT !.age = ag, !.quiet = qu, !.eob = eo] OBVIOUS
  <2> HIDE DEF ag, qu, eo, up
  <2>2. up(v) = [known |-> v.known, held |-> v.held, age |-> ag, quiet |-> qu, eob |-> eo,
                 from |-> v.from]
    BY <1>2, <2>1 DEF IsBlock
  <2> QED BY <2>2 DEF IsBlock
<1>3. /\ IsAsm(a) /\ a.emitted \in Nat /\ a.finalized \in Nat /\ a.emitted <= a.finalized
      /\ DOMAIN a.open \in SUBSET Blocks /\ \A b \in DOMAIN a.open : IsBlock(a.open[b])
  BY DEF OfSession, IsAsm
<1> HIDE DEF up
<1>4. /\ DOMAIN opened = DOMAIN a.open
      /\ \A b \in DOMAIN a.open : /\ IsBlock(opened[b]) /\ opened[b].from = a.open[b].from
                                  /\ opened[b].known = a.open[b].known
  BY <1>2, <1>3
<1> HIDE DEF opened
<1>5. old = [open |-> opened, highest |-> a.highest, emitted |-> a.emitted, finalized |-> a.finalized]
  BY <1>3 DEF IsAsm
<1> HIDE DEF old
<1>6. IsAsm(old) BY <1>3, <1>4, <1>5 DEF IsAsm
<1>7. OfSession(old, w) BY <1>3, <1>4, <1>5, <1>6 DEF OfSession
<1>8. gone \in SUBSET DOMAIN old.open OBVIOUS
<1> HIDE DEF gone
<1>9. Yields(o, old, w, old) BY <1>1, <1>7, <1>8, GiveUpYields
<1> QED BY <1>4, <1>5, <1>9 DEF Yields
\* What reached the decoder: in block order, each block of one session.
Given(e, a) ==
    /\ e \in Seq([block : Nat, from : SUBSET Nat])
    /\ \A i \in 1..Len(e) : e[i].block <= a.emitted /\ \E w \in Nat : e[i].from = {w}
    /\ \A i, j \in 1..Len(e) : i < j => e[i].block < e[j].block

\* Emitting what an operator yields.
LEMMA EmittedFacts ==
  ASSUME NEW a, NEW w \in Nat, OfSession(a, w), NEW o, NEW before, Yields(o, a, w, before),
         NEW e, Given(e, a)
  PROVE  Given(Emitted(e, o, before), o.asm)
<1> DEFINE n == Cardinality(o.sent)
           q == Ascending(o.sent)
           t == [i \in 1..n |-> [block |-> q[i], from |-> before.open[q[i]].from]]
           r == e \o t
           P == [block : Nat, from : SUBSET Nat]
<1>1. Emitted(e, o, before) = r BY DEF Emitted
<1>2. /\ OfSession(o.asm, w) /\ a.emitted <= o.asm.emitted /\ o.sent \in SUBSET Blocks
      /\ \A b \in o.sent : /\ b > a.emitted /\ b <= o.asm.emitted
                           /\ b \in DOMAIN before.open /\ before.open[b].from = {w}
  BY DEF Yields
<1>3. a.emitted \in Nat /\ o.asm.emitted \in Nat BY <1>2 DEF OfSession, IsAsm
<1>4. n \in Nat /\ \A b \in o.sent : b \in Nat
  BY <1>2, ListingExists, AsmAssumption DEF Blocks
<1>5. Listing(q, n, o.sent) BY <1>2, AscendingLists
<1>6. \A i \in 1..n : q[i] \in o.sent BY <1>5 DEF Listing
<1>7. /\ t \in Seq(P) /\ Len(t) = n
      /\ \A i \in 1..n : t[i].block = q[i] /\ t[i].from = {w}
  <2> HIDE DEF q, n
  <2>1. \A i \in 1..n : [block |-> q[i], from |-> before.open[q[i]].from] \in P
    BY <1>2, <1>4, <1>6
  <2>2. t \in [1..n -> P] BY <2>1
  <2>3. t \in Seq(P) /\ Len(t) = n
    <3> HIDE DEF t, P
    <3> QED BY <1>4, <2>2
  <2>4. \A i \in 1..n : t[i].block = q[i] /\ t[i].from = {w} BY <1>2, <1>6
  <2> QED BY <2>3, <2>4
<1>8. /\ e \in Seq(P) /\ Len(e) \in Nat
      /\ \A i \in 1..Len(e) : e[i].block \in Nat /\ e[i].block <= a.emitted /\ \E v \in Nat : e[i].from = {v}
      /\ \A i, j \in 1..Len(e) : i < j => e[i].block < e[j].block
  <2>1. e \in Seq(P) BY DEF Given
  <2>2. \A i \in 1..Len(e) : e[i] \in P
    <3> HIDE DEF P
    <3> QED BY <2>1
  <2> QED BY <2>1, <2>2 DEF Given
<1> DEFINE m == Len(e)
<1> HIDE DEF t, P, q, n
<1>9. /\ r \in Seq(P) /\ Len(r) = m + n
      /\ \A i \in 1..m + n : /\ i <= m => r[i] = e[i]
                             /\ ~(i <= m) => r[i] = t[i - m]
  <2>1. /\ e \o t \in Seq(P) /\ Len(e \o t) = Len(e) + Len(t)
        /\ \A i \in 1..Len(e) + Len(t) : (e \o t)[i] = IF i <= Len(e) THEN e[i] ELSE t[i - Len(e)]
    <3>1. e \in Seq(P) /\ t \in Seq(P) BY <1>7, <1>8
    <3> QED BY <3>1, ConcatProperties, Zenon
  <2> HIDE DEF r
  <2>2. r = e \o t BY DEF r
  <2> QED BY <1>7, <2>1, <2>2
<1> HIDE DEF r
<1>m. m \in Nat /\ Len(e) = m BY <1>8
<1> HIDE DEF m
<1>10. \A i \in 1..m + n : (i <= m => i \in 1..m) /\ (~(i <= m) => i - m \in 1..n)
  BY <1>4, <1>m
<1>11. ASSUME NEW i \in 1..m + n
       PROVE  r[i].block <= o.asm.emitted /\ \E v \in Nat : r[i].from = {v}
  <2>1. CASE i <= m
    <3>1. i \in 1..m /\ r[i] = e[i] BY <1>9, <1>10, <2>1
    <3> QED BY <1>2, <1>3, <1>8, <1>m, <3>1
  <2>2. CASE ~(i <= m)
    <3>1. i - m \in 1..n /\ r[i] = t[i - m] BY <1>9, <1>10, <2>2
    <3> QED BY <1>2, <1>6, <1>7, <3>1
  <2> QED BY <2>1, <2>2
<1>12. ASSUME NEW i \in 1..m + n, NEW j \in 1..m + n, i < j
       PROVE  r[i].block < r[j].block
  <2>1. CASE j <= m
    <3>1. i <= m BY <1>4, <1>m, <1>12, <2>1
    <3>2. i \in 1..m /\ j \in 1..m /\ r[i] = e[i] /\ r[j] = e[j] BY <1>9, <1>10, <2>1, <3>1
    <3> QED BY <1>8, <1>m, <1>12, <3>2
  <2>2. CASE i <= m /\ ~(j <= m)
    <3>1. i \in 1..m /\ j - m \in 1..n /\ r[i] = e[i] /\ r[j] = t[j - m] BY <1>9, <1>10, <2>2
    <3>2. r[i].block <= a.emitted /\ r[i].block \in Nat BY <1>8, <1>m, <3>1
    <3>3. r[j].block > a.emitted /\ r[j].block \in Nat BY <1>2, <1>4, <1>6, <1>7, <3>1
    <3> QED BY <1>3, <3>2, <3>3
  <2>3. CASE ~(i <= m)
    <3>1. ~(j <= m) BY <1>4, <1>m, <1>12, <2>3
    <3>2. i - m \in 1..n /\ j - m \in 1..n /\ i - m < j - m BY <1>4, <1>m, <1>10, <1>12, <2>3, <3>1
    <3>3. q[i - m] < q[j - m] BY <1>5, <3>2 DEF Listing
    <3>4. r[i] = t[i - m] /\ r[j] = t[j - m] BY <1>9, <2>3, <3>1
    <3> QED BY <1>7, <3>2, <3>3, <3>4
  <2> QED BY <2>1, <2>2, <2>3
<1>13. r \in Seq([block : Nat, from : SUBSET Nat]) BY <1>9 DEF P
<1>14. Given(r, o.asm) BY <1>9, <1>11, <1>12, <1>13 DEF Given
<1> QED BY <1>1, <1>14
\* The controller's fields, and what it asks for.
IsController(c) == c = [reg |-> c.reg, blk |-> c.blk, out |-> c.out, next |-> c.next]
AsksOf(r, w) == r.session = w /\ r.block \in Blocks

\* A pass of the controller asks for blocks of the session it is given.
LEMMA TickAsks ==
  ASSUME NEW c, IsController(c), NEW w, NEW open, DOMAIN open \in SUBSET Blocks
  PROVE  /\ IsController(ControllerTick(c, w, open).ctl)
         /\ \A r \in ControllerTick(c, w, open).requests : AsksOf(r, w)
<1> DEFINE cands == DOMAIN open
           p1 == Restrict(c.blk, DOMAIN c.blk \cap cands)
           p2 == {o \in c.out : o.age <= PruneAfter}
           pruned == [c EXCEPT !.blk = p1, !.out = p2]
           look == [b \in cands |-> Consider(pruned, w, b, open[b])]
           asking == {b \in cands : look[b].req # {}}
           id(b) == c.next + Cardinality({a \in asking : a < b})
           reqs == UNION {{[r EXCEPT !.id = id(b)] : r \in look[b].req} : b \in asking}
           o2 == p2 \cup {[req |-> r, accepted |-> 0, age |-> 0] : r \in reqs}
           b2 == [b \in cands |-> look[b].st]
           n2 == c.next + Cardinality(asking)
           T == ControllerTick(c, w, open)
<1>1. pruned = [reg |-> c.reg, blk |-> p1, out |-> p2, next |-> c.next]
  <2>1. pruned = [c EXCEPT !.blk = p1, !.out = p2] OBVIOUS
  <2> HIDE DEF p1, p2, pruned
  <2> QED BY <2>1 DEF IsController
<1>2. T.ctl = [pruned EXCEPT !.blk = b2, !.out = o2, !.next = n2] /\ T.requests = reqs
  <2>1. pruned.out = p2 /\ pruned.next = c.next BY <1>1
  <2> QED BY <2>1 DEF ControllerTick
<1>3. IsController(T.ctl)
  <2> HIDE DEF b2, o2, n2, pruned, p1, p2, T
  <2>1. T.ctl = [reg |-> c.reg, blk |-> b2, out |-> o2, next |-> n2] BY <1>1, <1>2
  <2> QED BY <2>1 DEF IsController
<1>4. ASSUME NEW b \in cands, NEW r \in look[b].req
      PROVE  \E q : r = [id |-> 0, cache |-> q.cache, session |-> w, block |-> b, max |-> q.max,
                         missing |-> q.missing, have |-> q.have]
  <2>1. r \in Consider(pruned, w, b, open[b]).req BY <1>4
  <2> HIDE DEF pruned, look
  <2> QED BY <2>1 DEF Consider
<1>5. ASSUME NEW r \in reqs PROVE AsksOf(r, w)
  <2>1. PICK b \in asking : r \in {[s EXCEPT !.id = id(b)] : s \in look[b].req} OBVIOUS
  <2>2. PICK s \in look[b].req : r = [s EXCEPT !.id = id(b)] BY <2>1
  <2>3. b \in cands BY <2>1
  <2>4. PICK q : s = [id |-> 0, cache |-> q.cache, session |-> w, block |-> b, max |-> q.max,
                      missing |-> q.missing, have |-> q.have]
    BY <1>4, <2>2, <2>3
  <2> DEFINE k == id(b)
  <2>5. r = [s EXCEPT !.id = k] BY <2>2
  <2> HIDE DEF k, look, asking, id, reqs
  <2>6. r.session = w /\ r.block = b BY <2>4, <2>5
  <2> QED BY <2>3, <2>6 DEF AsksOf
<1> QED BY <1>2, <1>3, <1>5 DEF T

\* What every operation leaves of its fields.
LEMMA ControllerShapes ==
  ASSUME NEW c, IsController(c)
  PROVE  /\ IsController(AgeController(c))
         /\ \A d, st : IsController(OnStatus(c, d, st)) /\ OnStatus(c, d, st).out = c.out
         /\ \A o : IsController(Accept(c, o))
         /\ \A b : IsController(NoteCompleted(c, b))
<1>1. IsController(AgeController(c))
  <2> DEFINE f == [a \in Caches |-> [c.reg[a] EXCEPT !.age = Min({@ + 1, StatusTimeout + 1})]]
             g == [b \in DOMAIN c.blk |-> [c.blk[b] EXCEPT !.wait = Min({@ + 1, RequestTimeout})]]
             h == {[o EXCEPT !.age = Min({@ + 1, PruneAfter + 1})] : o \in c.out}
  <2>1. AgeController(c) = [c EXCEPT !.reg = f, !.blk = g, !.out = h] BY DEF AgeController
  <2> HIDE DEF f, g, h
  <2>2. AgeController(c) = [reg |-> f, blk |-> g, out |-> h, next |-> c.next]
    BY <2>1 DEF IsController
  <2> QED BY <2>2 DEF IsController
<1>2. ASSUME NEW d, NEW st PROVE IsController(OnStatus(c, d, st)) /\ OnStatus(c, d, st).out = c.out
  <2> DEFINE v == [session |-> st.session, oldest |-> st.oldest, health |-> st.health, age |-> 0]
             f == [c.reg EXCEPT ![d] = v]
  <2>1. OnStatus(c, d, st) = [c EXCEPT !.reg = f] BY DEF OnStatus
  <2> HIDE DEF f
  <2>2. OnStatus(c, d, st) = [reg |-> f, blk |-> c.blk, out |-> c.out, next |-> c.next]
    BY <2>1 DEF IsController
  <2> QED BY <2>2 DEF IsController
<1>3. ASSUME NEW o PROVE IsController(Accept(c, o))
  <2> DEFINE h == (c.out \ {o}) \cup {[o EXCEPT !.accepted = @ + 1]}
  <2>1. Accept(c, o) = [c EXCEPT !.out = h] BY DEF Accept
  <2> HIDE DEF h
  <2>2. Accept(c, o) = [reg |-> c.reg, blk |-> c.blk, out |-> h, next |-> c.next]
    BY <2>1 DEF IsController
  <2> QED BY <2>2 DEF IsController
<1>4. ASSUME NEW b PROVE IsController(NoteCompleted(c, b))
  <2> DEFINE g == Restrict(c.blk, DOMAIN c.blk \ {b})
             h == {o \in c.out : o.req.block # b}
  <2>1. NoteCompleted(c, b) = [c EXCEPT !.blk = g, !.out = h] BY DEF NoteCompleted
  <2> HIDE DEF g, h
  <2>2. NoteCompleted(c, b) = [reg |-> c.reg, blk |-> g, out |-> h, next |-> c.next]
    BY <2>1 DEF IsController
  <2> QED BY <2>2 DEF IsController
<1> QED BY <1>1, <1>2, <1>3, <1>4
\* A reassembler that was reset is of any session, and nothing was given.
LEMMA EmptyFacts ==
  /\ \A w : OfSession(EmptyAsm, w)
  /\ Given(<<>>, EmptyAsm)
  /\ \A n : IsController(IdleController(n)) /\ IdleController(n).out = {}
<1>1. IsAsm(EmptyAsm) /\ DOMAIN EmptyAsm.open = {} /\ EmptyAsm.emitted = 0 /\ EmptyAsm.finalized = 0
  BY DEF EmptyAsm, IsAsm
<1>2. \A w : OfSession(EmptyAsm, w) BY <1>1 DEF OfSession
<1>3. Given(<<>>, EmptyAsm)
  <2>1. <<>> \in Seq([block : Nat, from : SUBSET Nat]) /\ 1..Len(<<>>) = {} OBVIOUS
  <2> QED BY <2>1 DEF Given
<1>4. \A n : IsController(IdleController(n)) /\ IdleController(n).out = {}
  BY DEF IsController, IdleController
<1> QED BY <1>2, <1>3, <1>4

\* Cache datagrams name a session and a block.
Datagrams(n) ==
    \A m \in n : /\ m.kind = "request" => m.req.session # 0 /\ m.req.block \in Blocks
                 /\ m.kind = "reply" => m.session # 0 /\ m.block \in Blocks

\* The inductive invariant: the reassembler holds the session of the source, the engine's
\* stream is that one if there is one, and without a source nothing is held or asked.
RepairInv ==
    /\ craft \in Nat /\ craft # 0 /\ source \in Nat /\ latched \in Nat
    /\ latched = 0 \/ source = 0 \/ latched = source
    /\ OfSession(asm, source) /\ Given(egress, asm) /\ IsController(ctl)
    /\ source = 0 => asm = EmptyAsm /\ ctl.out = {}
    /\ Datagrams(net)

\* It is kept.
LEMMA RepairStep == ASSUME RepairInv, GRNext PROVE RepairInv'
<1>1. /\ craft \in Nat /\ craft # 0 /\ source \in Nat /\ latched \in Nat
      /\ latched = 0 \/ source = 0 \/ latched = source
      /\ OfSession(asm, source) /\ Given(egress, asm) /\ IsController(ctl)
      /\ source = 0 => asm = EmptyAsm /\ ctl.out = {}
      /\ Datagrams(net)
  BY DEF RepairInv
<1>2. ASSUME craft' \in Nat, craft' # 0, source' \in Nat, latched' \in Nat,
             latched' = 0 \/ source' = 0 \/ latched' = source',
             OfSession(asm', source'), Given(egress', asm'), IsController(ctl'),
             source' = 0 => asm' = EmptyAsm /\ ctl'.out = {}, Datagrams(net')
      PROVE  RepairInv'
  BY <1>2 DEF RepairInv, OfSession, IsAsm, IsBlock, Given, IsController, Datagrams
<1>3. ASSUME NEW b \in Blocks, NEW x, AirSymbol(b, x) PROVE RepairInv'
  <2> DEFINE a == IF source = craft THEN asm ELSE EmptyAsm
             e == IF source = craft THEN egress ELSE <<>>
             in == Insert(a, b, x, craft)
  <2>1. /\ latched' = craft /\ source' = craft /\ craft' = craft /\ ctl' = ctl /\ net' = net
    BY <1>3 DEF AirSymbol
  <2>2. PICK o \in Push(a, b, x, craft) : asm' = o.asm /\ egress' = Emitted(e, o, in)
    BY <1>3 DEF AirSymbol
  <2>3. OfSession(a, craft) /\ Given(e, a) BY <1>1, EmptyFacts
  <2> HIDE DEF a, e, in
  <2>4. Yields(o, a, craft, in) BY <2>2, <2>3, PushYields DEF in
  <2>5. Given(egress', asm') BY <1>1, <2>2, <2>3, <2>4, EmittedFacts
  <2>6. OfSession(asm', source') BY <2>1, <2>2, <2>4 DEF Yields
  <2> QED BY <1>1, <1>2, <2>1, <2>5, <2>6
<1>4. ASSUME CraftRestart PROVE RepairInv'
  <2>1. /\ craft' = craft + 1 /\ source' = source /\ latched' = latched /\ asm' = asm /\ ctl' = ctl
        /\ net' = net /\ egress' = egress
    BY <1>4 DEF CraftRestart
  <2>2. craft' \in Nat /\ craft' # 0 BY <1>1, <2>1
  <2> QED BY <1>1, <1>2, <2>1, <2>2
<1>5. ASSUME StreamExpires PROVE RepairInv'
  <2>1. /\ latched' = 0 /\ craft' = craft /\ source' = source /\ asm' = asm /\ ctl' = ctl
        /\ net' = net /\ egress' = egress
    BY <1>5 DEF StreamExpires
  <2> QED BY <1>1, <1>2, <2>1
<1>6. ASSUME ApplySelection PROVE RepairInv'
  <2>1. /\ source' = 0 /\ asm' = EmptyAsm /\ egress' = <<>> /\ ctl' = IdleController(ctl.next)
        /\ craft' = craft /\ latched' = latched /\ net' = net
    BY <1>6 DEF ApplySelection
  <2>2. /\ OfSession(asm', source') /\ Given(egress', asm') /\ IsController(ctl') /\ ctl'.out = {}
    BY <2>1, EmptyFacts
  <2> QED BY <1>1, <1>2, <2>1, <2>2
<1>7. ASSUME NEW c \in Caches, NEW b \in Blocks, NEW x \in Symbols, CacheHears(c, b, x)
      PROVE  RepairInv'
  <2>1. /\ latched' = latched /\ craft' = craft /\ source' = source /\ asm' = asm /\ ctl' = ctl
        /\ net' = net /\ egress' = egress
    BY <1>7 DEF CacheHears
  <2> QED BY <1>1, <1>2, <2>1
<1>8. ASSUME NEW c \in Caches, CacheStatus(c) PROVE RepairInv'
  <2>1. PICK st : ctl' = OnStatus(ctl, c, st) BY <1>8 DEF CacheStatus
  <2>2. /\ latched' = latched /\ craft' = craft /\ source' = source /\ asm' = asm
        /\ net' = net /\ egress' = egress
    BY <1>8 DEF CacheStatus
  <2>3. IsController(ctl') /\ ctl'.out = ctl.out BY <1>1, <2>1, ControllerShapes
  <2> QED BY <1>1, <1>2, <2>2, <2>3
<1>9. ASSUME NEW m \in net, CacheAnswers(m) PROVE RepairInv'
  <2> DEFINE r == m.req
             A == Answer(stores[r.cache], r)
             sent == {[kind |-> "reply", cache |-> r.cache, id |-> r.id, block |-> r.block,
                       session |-> r.session, x |-> x] : x \in A}
  <2>1. /\ latched' = latched /\ craft' = craft /\ source' = source /\ asm' = asm /\ ctl' = ctl
        /\ egress' = egress /\ m.kind = "request" /\ net' = (net \ {m}) \cup sent
    BY <1>9 DEF CacheAnswers
  <2>2. r.session # 0 /\ r.block \in Blocks BY <1>1, <2>1 DEF Datagrams
  <2> HIDE DEF r, A
  <2>3. Datagrams(sent) BY <2>2 DEF Datagrams
  <2> HIDE DEF sent
  <2>4. Datagrams(net') BY <1>1, <2>1, <2>3 DEF Datagrams
  <2> QED BY <1>1, <1>2, <2>1, <2>4
<1>10. ASSUME NEW m \in net, NEW keep \in BOOLEAN, CacheReply(m, keep) PROVE RepairInv'
  <2> DEFINE by == IF OfLatchedStream(m) THEN Admitting(ctl, m) ELSE {}
  <2>1. /\ latched' = latched /\ craft' = craft /\ source' = source /\ m.kind = "reply"
        /\ net' = IF keep THEN net ELSE net \ {m}
    BY <1>10 DEF CacheReply
  <2>2. Datagrams(net') BY <1>1, <2>1 DEF Datagrams
  <2>3. CASE by = {}
    <3>1. asm' = asm /\ ctl' = ctl /\ egress' = egress BY <1>10, <2>3 DEF CacheReply
    <3> QED BY <1>1, <1>2, <2>1, <2>2, <3>1
  <2>4. CASE by # {}
    <3>1. latched = m.session /\ ctl.out # {} BY <2>4 DEF OfLatchedStream, Admitting
    <3>2. m.session # 0 /\ m.block \in Blocks BY <1>1, <2>1 DEF Datagrams
    <3>3. source = m.session /\ source # 0 BY <1>1, <3>1, <3>2
    <3> DEFINE in == Insert(asm, m.block, m.x, m.session)
    <3>4. PICK r \in by, o \in Push(asm, m.block, m.x, m.session) :
            /\ asm' = o.asm /\ egress' = Emitted(egress, o, in)
            /\ ctl' = IF PushResult(o) THEN NoteCompleted(Accept(ctl, r), m.block) ELSE Accept(ctl, r)
      BY <1>10, <2>4 DEF CacheReply
    <3>5. Yields(o, asm, source, in) BY <1>1, <3>2, <3>3, <3>4, PushYields
    <3> HIDE DEF in
    <3>6. Given(egress', asm') BY <1>1, <3>4, <3>5, EmittedFacts
    <3>7. OfSession(asm', source') BY <2>1, <3>4, <3>5 DEF Yields
    <3>8. IsController(ctl')
      <4>1. IsController(Accept(ctl, r)) BY <1>1, ControllerShapes
      <4>2. IsController(NoteCompleted(Accept(ctl, r), m.block)) BY <4>1, ControllerShapes
      <4> QED BY <3>4, <4>1, <4>2
    <3> QED BY <1>1, <1>2, <2>1, <2>2, <3>3, <3>6, <3>7, <3>8
  <2> QED BY <2>3, <2>4
<1>11. ASSUME GroundTick PROVE RepairInv'
  <2>1. /\ latched' = latched /\ craft' = craft /\ source' = source
        /\ asm.open # <<>> \/ ctl.out # {}
    BY <1>11 DEF GroundTick
  <2>2. source # 0 BY <1>1, <2>1 DEF EmptyAsm
  <2>3. PICK o \in AsmTick(asm) :
          /\ asm' = o.asm /\ egress' = Emitted(egress, o, asm)
          /\ \E t \in {IF latched = 0 THEN [ctl |-> AgeController(ctl), requests |-> {}]
                       ELSE ControllerTick(AgeController(ctl), latched,
                                           Restrict(o.asm.open, Candidates(o.asm)))} :
               ctl' = t.ctl /\ net' = net \cup {[kind |-> "request", req |-> r] : r \in t.requests}
    BY <1>11 DEF GroundTick
  <2>4. Yields(o, asm, source, asm) BY <1>1, <2>3, AsmTickYields
  <2>5. Given(egress', asm') BY <1>1, <2>3, <2>4, EmittedFacts
  <2>6. OfSession(asm', source') BY <2>1, <2>3, <2>4 DEF Yields
  <2> DEFINE open == Restrict(o.asm.open, Candidates(o.asm))
             aged == AgeController(ctl)
             t == IF latched = 0 THEN [ctl |-> aged, requests |-> {}]
                  ELSE ControllerTick(aged, latched, open)
  <2>7. ctl' = t.ctl /\ net' = net \cup {[kind |-> "request", req |-> r] : r \in t.requests}
    BY <2>3
  <2>8. IsController(aged) BY <1>1, ControllerShapes
  <2>9. DOMAIN open \in SUBSET Blocks
    <3>1. DOMAIN open = Candidates(o.asm) BY DEF Restrict
    <3>2. DOMAIN o.asm.open \in SUBSET Blocks BY <2>4 DEF Yields, OfSession, IsAsm
    <3> QED BY <3>1, <3>2 DEF Candidates
  <2> HIDE DEF open, aged
  <2>10. IsController(t.ctl) /\ \A r \in t.requests : r.session # 0 /\ r.block \in Blocks
    <3>1. CASE latched = 0 BY <2>8, <3>1
    <3>2. CASE latched # 0
      <4>1. /\ IsController(ControllerTick(aged, latched, open).ctl)
            /\ \A r \in ControllerTick(aged, latched, open).requests : AsksOf(r, latched)
        BY <2>8, <2>9, TickAsks
      <4>2. t = ControllerTick(aged, latched, open) BY <3>2
      <4> HIDE DEF t
      <4> QED BY <3>2, <4>1, <4>2 DEF AsksOf
    <3> QED BY <3>1, <3>2
  <2> HIDE DEF t
  <2>11. Datagrams(net') BY <1>1, <2>7, <2>10 DEF Datagrams
  <2> QED BY <1>1, <1>2, <2>1, <2>2, <2>5, <2>6, <2>7, <2>10, <2>11
<1> QED BY <1>3, <1>4, <1>5, <1>6, <1>7, <1>8, <1>9, <1>10, <1>11 DEF GRNext

\* For every code rate, deadline, cache window, repair budget and number of caches,
\* whatever the air and UDP lose, delay, reorder and duplicate, frames reach the decoder in
\* block order, once, and each of one session of the craft (GroundRepair!FramesSound:
\* frame_reassembler.cpp, cache_controller.cpp and their use in rx_node.cpp).
THEOREM FramesAlwaysSound == GRSpec => []FramesSound
<1>1. GRInit => RepairInv
  <2> SUFFICES ASSUME GRInit PROVE RepairInv OBVIOUS
  <2>1. /\ craft = 1 /\ latched = 0 /\ source = 0 /\ asm = EmptyAsm /\ ctl = IdleController(1)
        /\ net = {} /\ egress = <<>>
    BY DEF GRInit
  <2> QED BY <2>1, EmptyFacts DEF RepairInv, Datagrams
<1>2. RepairInv /\ [GRNext]_grVars => RepairInv'
  <2> SUFFICES ASSUME RepairInv, [GRNext]_grVars PROVE RepairInv' OBVIOUS
  <2>1. CASE GRNext BY <2>1, RepairStep
  <2>2. CASE UNCHANGED grVars
    BY <2>2 DEF grVars, RepairInv, OfSession, IsAsm, IsBlock, Given, IsController, Datagrams
  <2> QED BY <2>1, <2>2
<1>3. RepairInv => FramesSound
  <2> SUFFICES ASSUME RepairInv PROVE FramesSound OBVIOUS
  <2>1. OfSession(asm, source) /\ Given(egress, asm) BY DEF RepairInv
  <2>2. Len(egress) \in Nat BY <2>1 DEF Given
  <2>3. EmittedInOrder
    <3>1. \A i \in 1..Len(egress) - 1 : i \in 1..Len(egress) /\ i + 1 \in 1..Len(egress) /\ i < i + 1
      BY <2>2
    <3> QED BY <2>1, <3>1 DEF EmittedInOrder, Given
  <2>4. \A i \in 1..Len(egress) : Cardinality(egress[i].from) = 1
    BY <2>1, FS_Singleton DEF Given
  <2>5. ASSUME NEW b \in DOMAIN asm.open
        PROVE  asm.open[b].from \subseteq {source, latched} /\ Cardinality(asm.open[b].from) <= 1
    <3>1. asm.open[b].from \subseteq {source} BY <2>1 DEF OfSession
    <3>2. asm.open[b].from = {} \/ asm.open[b].from = {source} BY <3>1
    <3>3. Cardinality({}) = 0 /\ Cardinality({source}) = 1 BY FS_EmptySet, FS_Singleton
    <3> QED BY <3>1, <3>2, <3>3
  <2> QED BY <2>3, <2>4, <2>5 DEF FramesSound, OneSessionPerFrame
<1> QED BY <1>1, <1>2, <1>3, PTL DEF GRSpec

-----------------------------------------------------------------------------
(* The adapters' binding *)

BindStanza == [mac : Nat, bus : Nat, tx : BOOLEAN]
BindUnit == [dev : Devices, tx : BOOLEAN]

\* How many elements of S lie below x.
RankIn(S, x) == Cardinality({y \in S : y < x})

\* Ranks tell the elements of a finite set of numbers apart and leave none out.
LEMMA RankReached ==
  ASSUME NEW S \in SUBSET Nat, IsFiniteSet(S)
  PROVE  /\ Cardinality(S) \in Nat
         /\ \A x \in S : RankIn(S, x) \in 0..(Cardinality(S) - 1)
         /\ \A x, y \in S : RankIn(S, x) = RankIn(S, y) => x = y
         /\ \A k \in 0..(Cardinality(S) - 1) : \E x \in S : RankIn(S, x) = k
<1> DEFINE N == Cardinality(S)
           B(x) == {y \in S : y < x}
<1>1. N \in Nat BY FS_CardinalityType
<1>2. ASSUME NEW x \in S
      PROVE  /\ IsFiniteSet(B(x)) /\ Cardinality(B(x)) \in Nat
             /\ Cardinality(B(x)) <= N - 1
  <2>1. IsFiniteSet(S \ {x}) /\ Cardinality(S \ {x}) = N - 1 BY FS_RemoveElement
  <2>2. B(x) \in SUBSET (S \ {x}) OBVIOUS
  <2> HIDE DEF B
  <2>3. IsFiniteSet(B(x)) /\ Cardinality(B(x)) <= N - 1 BY <2>1, <2>2, FS_Subset
  <2> QED BY <2>3, FS_CardinalityType
<1>3. ASSUME NEW x \in S, NEW y \in S, x < y PROVE Cardinality(B(x)) < Cardinality(B(y))
  <2>1. B(x) \cup {x} \in SUBSET B(y) /\ x \notin B(x)
    <3>1. S \subseteq Nat /\ x \in Nat /\ y \in Nat OBVIOUS
    <3>2. \A z \in S : z < x => z < y BY <1>3, <3>1
    <3>3. ~(x < x) BY <3>1
    <3> QED BY <1>3, <3>2, <3>3
  <2> HIDE DEF B
  <2>2. Cardinality(B(x) \cup {x}) = Cardinality(B(x)) + 1 BY <1>2, <2>1, FS_AddElement
  <2>3. Cardinality(B(x) \cup {x}) <= Cardinality(B(y)) BY <1>2, <2>1, FS_Subset
  <2>4. Cardinality(B(x)) \in Nat /\ Cardinality(B(y)) \in Nat BY <1>2
  <2> QED BY <2>2, <2>3, <2>4
<1>4. \A x, y \in S : RankIn(S, x) = RankIn(S, y) => x = y
  <2> SUFFICES ASSUME NEW x \in S, NEW y \in S, Cardinality(B(x)) = Cardinality(B(y))
               PROVE  x = y
    BY DEF RankIn
  <2>1. Cardinality(B(x)) \in Nat /\ Cardinality(B(y)) \in Nat BY <1>2
  <2> HIDE DEF B
  <2>2. ~(x < y) /\ ~(y < x) BY <1>3, <2>1
  <2> QED BY <2>2
<1>5. \A x \in S : RankIn(S, x) \in 0..(N - 1)
  <2> TAKE x \in S
  <2>1. RankIn(S, x) = Cardinality(B(x)) BY DEF RankIn
  <2> HIDE DEF B
  <2> QED BY <1>1, <1>2, <2>1
<1> DEFINE f == [x \in S |-> RankIn(S, x)]
           T == 0..(N - 1)
<1>6. f \in Injection(S, T)
  <2>1. f \in [S -> T] BY <1>5
  <2>2. \A x, y \in S : f[x] = f[y] => x = y BY <1>4
  <2>3. DOMAIN f = S OBVIOUS
  <2> HIDE DEF f, T
  <2> QED BY <2>1, <2>2, <2>3 DEF Injection, IsInjective
<1>7. IsFiniteSet(T) /\ Cardinality(T) = N
  <2>1. 0 \in Int /\ N - 1 \in Int BY <1>1
  <2>2. IsFiniteSet(T) /\ Cardinality(T) = IF 0 > N - 1 THEN 0 ELSE (N - 1) - 0 + 1
    BY <2>1, FS_Interval
  <2> QED BY <1>1, <2>2
<1>8. f \in Surjection(S, T)
  <2> HIDE DEF f, T
  <2> QED BY <1>6, <1>7, FS_Injection
<1>9. \A k \in T : \E x \in S : RankIn(S, x) = k BY <1>8 DEF Surjection
<1> QED BY <1>1, <1>4, <1>5, <1>9

\* e lists the numbers of T in order.
Enumerates(e, n, T) ==
    /\ e \in [1..n -> T] /\ \A i, j \in 1..n : i < j => e[i] < e[j]
    /\ \A x \in T : \E i \in 1..n : e[i] = x

\* The turns of Selected.
KeepTurns(Kt, s, keep, m) ==
    Kt = [n \in 0..m |-> IF n = 0 THEN << >>
                         ELSE Kt[n - 1] \o (IF n \in keep THEN <<s[n]>> ELSE << >>)]

\* The turns of Selected exist, for a sequence of any length.
LEMMA KeepTurnsExist ==
  ASSUME NEW s, NEW keep, NEW m \in Nat
  PROVE  \E Kt : KeepTurns(Kt, s, keep, m)
<1> DEFINE S == {k \in Nat : ~ \E Kt : KeepTurns(Kt, s, keep, k)}
           More(n) == IF n \in keep THEN <<s[n]>> ELSE << >>
<1> SUFFICES ASSUME S # {} PROVE FALSE OBVIOUS
<1>1. PICK k \in S : \A y \in S : k <= y
  <2>1. S \in SUBSET Nat OBVIOUS
  <2> HIDE DEF S
  <2> QED BY <2>1, MinNat
<1>2. CASE k = 0
  <2>1. KeepTurns([n \in 0..0 |-> << >>], s, keep, 0) BY DEF KeepTurns
  <2> QED BY <1>2, <2>1
<1>3. CASE k # 0
  <2>1. k - 1 \in Nat /\ k - 1 \notin S BY <1>1, <1>3
  <2>2. PICK f : KeepTurns(f, s, keep, k - 1) BY <2>1
  <2>f. \A n \in 0..(k - 1) : f[n] = IF n = 0 THEN << >> ELSE f[n - 1] \o More(n)
    BY <2>2 DEF KeepTurns
  <2> HIDE DEF More
  <2> DEFINE g == [n \in 0..k |-> IF n < k THEN f[n] ELSE f[k - 1] \o More(k)]
  <2>3. ASSUME NEW n \in 0..k PROVE g[n] = IF n = 0 THEN << >> ELSE g[n - 1] \o More(n)
    <3>1. CASE n = 0 BY <2>1, <2>f, <3>1
    <3>2. CASE n # 0 /\ n < k
      <4>1. n \in 0..(k - 1) /\ n - 1 \in 0..k /\ n - 1 < k BY <1>1, <3>2
      <4> QED BY <2>f, <3>2, <4>1
    <3>3. CASE n = k
      <4>1. k \in 0..k /\ k - 1 \in 0..k /\ k - 1 < k /\ ~(k < k) BY <1>1, <1>3
      <4>2. g[k] = f[k - 1] \o More(k) /\ g[k - 1] = f[k - 1] BY <4>1
      <4> HIDE DEF g
      <4> QED BY <1>3, <3>3, <4>2
    <3> QED BY <3>1, <3>2, <3>3
  <2>4. g = [n \in 0..k |-> g[n]] OBVIOUS
  <2> HIDE DEF g
  <2>5. KeepTurns(g, s, keep, k) BY <2>3, <2>4, Zenon DEF KeepTurns, More
  <2> QED BY <2>5
<1> QED BY <1>2, <1>3

\* Selected lists the kept elements in order, and everything when all are kept.
LEMMA SelectedLists ==
  ASSUME NEW S, NEW s \in Seq(S), NEW keep \in SUBSET (1..Len(s))
  PROVE  /\ Selected(s, keep) \in Seq(S)
         /\ \E e : /\ Enumerates(e, Len(Selected(s, keep)), keep)
                   /\ \A i \in 1..Len(Selected(s, keep)) : Selected(s, keep)[i] = s[e[i]]
         /\ keep = 1..Len(s) => Selected(s, keep) = s
<1> DEFINE N == Len(s)
           More(n) == IF n \in keep THEN <<s[n]>> ELSE << >>
           Kt == CHOOSE f : KeepTurns(f, s, keep, N)
<1>0. N \in Nat BY LenProperties
<1>1. KeepTurns(Kt, s, keep, N) BY <1>0, KeepTurnsExist
<1>2. Selected(s, keep) = Kt[N] BY DEF Selected, KeepTurns
<1>3. Kt[0] = << >> /\ \A n \in 1..N : Kt[n] = Kt[n - 1] \o More(n)
  <2> HIDE DEF Kt
  <2> QED BY <1>0, <1>1 DEF KeepTurns
<1> HIDE DEF Kt
<1> DEFINE T(n) == keep \cap 1..n
           Fine(n) == /\ Kt[n] \in Seq(S)
                      /\ \E e : /\ Enumerates(e, Len(Kt[n]), T(n))
                                /\ \A i \in 1..Len(Kt[n]) : Kt[n][i] = s[e[i]]
                      /\ keep = 1..N => Len(Kt[n]) = n /\ \A i \in 1..n : Kt[n][i] = s[i]
<1>4. Fine(0)
  <2>1. Kt[0] \in Seq(S) /\ Len(Kt[0]) = 0 BY <1>3, EmptySeq
  <2>2. T(0) = {} OBVIOUS
  <2> DEFINE e == [i \in 1..0 |-> i]
  <2>3. Enumerates(e, Len(Kt[0]), T(0))
    <3> HIDE DEF T
    <3> QED BY <2>1, <2>2 DEF Enumerates
  <2> HIDE DEF e, T
  <2> QED BY <2>1, <2>3
<1>5. ASSUME NEW n \in 1..N, Fine(n - 1) PROVE Fine(n)
  <2> DEFINE a == Kt[n - 1]
             L == Len(a)
  <2>0. n \in Nat /\ n - 1 \in Nat BY <1>0
  <2>1. a \in Seq(S) /\ L \in Nat BY <1>5, LenProperties
  <2>2. PICK e : Enumerates(e, L, T(n - 1)) /\ \A i \in 1..L : a[i] = s[e[i]] BY <1>5
  <2>3. s[n] \in S BY ElementOfSeq
  <2>4. CASE n \notin keep
    <3>1. Kt[n] = a BY <1>3, <2>1, <2>4, ConcatEmptySeq
    <3>2. T(n) = T(n - 1) BY <2>0, <2>4
    <3>3. keep # 1..N BY <1>0, <2>4
    <3> HIDE DEF a, T
    <3> QED BY <2>1, <2>2, <3>1, <3>2, <3>3
  <2>5. CASE n \in keep
    <3> DEFINE b == Append(a, s[n])
               f == [i \in 1..(L + 1) |-> IF i = L + 1 THEN n ELSE e[i]]
    <3>1. Kt[n] = b BY <1>3, <2>1, <2>3, <2>5, AppendIsConcat
    <3>2. /\ b \in Seq(S) /\ Len(b) = L + 1 /\ b[L + 1] = s[n]
          /\ \A i \in 1..L : b[i] = a[i]
      BY <2>1, <2>3, AppendProperties
    <3>3. T(n) = T(n - 1) \cup {n} BY <2>0, <2>5
    <3>4. \A i \in 1..L : e[i] \in T(n - 1) /\ e[i] < n /\ e[i] \in Nat
      <4>1. \A i \in 1..L : e[i] \in T(n - 1) BY <2>2 DEF Enumerates
      <4> QED BY <2>0, <4>1
    <3> HIDE DEF T, b
    <3>5. f \in [1..(L + 1) -> T(n)] BY <2>1, <3>3, <3>4
    <3>6. ASSUME NEW i \in 1..(L + 1), NEW j \in 1..(L + 1), i < j PROVE f[i] < f[j]
      <4>1. i \in 1..L BY <2>1, <3>6
      <4>2. CASE j = L + 1 BY <2>1, <3>4, <4>1, <4>2
      <4>3. CASE j # L + 1
        <5>1. j \in 1..L BY <2>1, <4>3
        <5>2. e[i] < e[j] BY <2>2, <3>6, <4>1, <5>1 DEF Enumerates
        <5> QED BY <2>1, <4>1, <4>3, <5>1, <5>2
      <4> QED BY <4>2, <4>3
    <3>7. \A x \in T(n) : \E i \in 1..(L + 1) : f[i] = x
      <4> TAKE x \in T(n)
      <4>1. CASE x = n
        <5>1. L + 1 \in 1..(L + 1) /\ f[L + 1] = x BY <2>1, <4>1
        <5> QED BY <5>1
      <4>2. CASE x # n
        <5>1. x \in T(n - 1) BY <3>3, <4>2
        <5>2. PICK i \in 1..L : e[i] = x BY <2>2, <5>1 DEF Enumerates
        <5>3. i \in 1..(L + 1) /\ f[i] = x BY <2>1, <5>2
        <5> QED BY <5>3
      <4> QED BY <4>1, <4>2
    <3>8. Enumerates(f, L + 1, T(n)) BY <3>5, <3>6, <3>7 DEF Enumerates
    <3>9. \A i \in 1..(L + 1) : b[i] = s[f[i]] BY <2>1, <2>2, <3>2
    <3>10. keep = 1..N => L + 1 = n /\ \A i \in 1..n : b[i] = s[i]
      <4> SUFFICES ASSUME keep = 1..N PROVE L + 1 = n /\ \A i \in 1..n : b[i] = s[i]
        OBVIOUS
      <4>1. L = n - 1 /\ \A i \in 1..(n - 1) : a[i] = s[i] BY <1>5
      <4> HIDE DEF L, a
      <4> QED BY <2>0, <3>2, <4>1
    <3> HIDE DEF f, L
    <3>11. Enumerates(f, Len(b), T(n)) /\ \A i \in 1..Len(b) : b[i] = s[f[i]]
      BY <3>2, <3>8, <3>9
    <3>12. \E g : Enumerates(g, Len(b), T(n)) /\ \A i \in 1..Len(b) : b[i] = s[g[i]]
      BY <3>11
    <3> QED BY <3>1, <3>2, <3>10, <3>12
  <2> QED BY <2>4, <2>5
<1> DEFINE Bad == {n \in 0..N : ~Fine(n)}
<1> HIDE DEF Fine
<1>6. Fine(N)
  <2> SUFFICES ASSUME Bad # {} PROVE FALSE BY <1>0
  <2>1. Bad \in SUBSET Nat BY <1>0
  <2>2. PICK k \in Bad : \A y \in Bad : k <= y
    <3> HIDE DEF Bad
    <3> QED BY <2>1, MinNat
  <2>3. k # 0 BY <1>4
  <2>4. k \in 1..N /\ k - 1 \in 0..N /\ ~(k <= k - 1) BY <1>0, <2>2, <2>3
  <2>5. Fine(k - 1) BY <2>2, <2>4
  <2> QED BY <1>5, <2>2, <2>4, <2>5
<1>7. T(N) = keep BY <1>0
<1> DEFINE r == Kt[N]
<1>8. /\ r \in Seq(S)
      /\ \E e : Enumerates(e, Len(r), T(N)) /\ \A i \in 1..Len(r) : r[i] = s[e[i]]
      /\ keep = 1..N => Len(r) = N /\ \A i \in 1..N : r[i] = s[i]
  BY <1>6 DEF Fine
<1> HIDE DEF r, T
<1>9. keep = 1..N => r = s BY <1>8, SeqEqual
<1> QED BY <1>2, <1>7, <1>8, <1>9 DEF r
\* Devices are the numbers from one on.
LEMMA DevicesAre ==
  /\ Cardinality(Devices) \in Nat /\ Devices = 1..Cardinality(Devices) /\ IsFiniteSet(Devices)
  /\ Devices \subseteq Nat /\ 0 \notin Devices
<1>1. Cardinality(Devices) \in Nat /\ Devices = 1..Cardinality(Devices) /\ IsFiniteSet(Devices)
  BY AdapterBindAssumption, FS_CardinalityType
<1> QED BY <1>1

Apart(u) == \A i, j \in 1..Len(u) : u[i].dev = u[j].dev => i = j
Dies == [fate : {"ok", "noopen", "busy", "throws"}, rank : Nat, known : BOOLEAN]

\* The unit at i ranks above the one at j.
Beats(i, j) == Outranks(units[i].dev, units[j].dev)

\* The election has a winner, which outranks every other unit.
LEMMA BestExists ==
  ASSUME units \in Seq(BindUnit), units # << >>, Apart(units), dev \in [Devices -> Dies]
  PROVE  /\ \E i \in 1..Len(units) : Ahead(i) = {}
         /\ \A i, j \in 1..Len(units) : Ahead(i) = {} /\ j # i => Beats(i, j)
         /\ \A i, j \in 1..Len(units) : i # j => Beats(i, j) \/ Beats(j, i)
         /\ \A i \in 1..Len(units) : ~Beats(i, i)
         /\ \A i, j, k \in 1..Len(units) : Beats(i, j) /\ Beats(j, k) => Beats(i, k)
<1> DEFINE U == 1..Len(units)
           Rk(i) == dev[units[i].dev].rank
           Kt(i) == dev[units[i].dev].known
           D(i) == units[i].dev
<1>1. Len(units) \in Nat \ {0} /\ DOMAIN units = U BY EmptySeq, LenProperties
<1>2. \A i \in U : units[i] \in BindUnit BY ElementOfSeq
<1>3. \A i \in U : D(i) \in Devices /\ D(i) \in Nat BY <1>2, DevicesAre DEF BindUnit
<1>4. \A i \in U : Rk(i) \in Nat /\ Kt(i) \in BOOLEAN BY <1>3 DEF Dies
<1>5. \A i, j \in U : D(i) = D(j) => i = j BY DEF Apart
<1>6. \A i, j \in U :
        Beats(i, j) <=> \/ Rk(i) < Rk(j)
                           \/ (Rk(i) = Rk(j) /\ Kt(i) /\ ~Kt(j))
                           \/ (Rk(i) = Rk(j) /\ (Kt(i) <=> Kt(j)) /\ D(i) < D(j))
  <2> TAKE i, j \in U
  <2>1. Kt(i) = Kt(j) <=> (Kt(i) <=> Kt(j))
    <3>1. Kt(i) \in BOOLEAN /\ Kt(j) \in BOOLEAN BY <1>4
    <3> HIDE DEF Kt
    <3> QED BY <3>1
  <2>2. Beats(i, j) <=> \/ Rk(i) < Rk(j)
                           \/ (Rk(i) = Rk(j) /\ Kt(i) /\ ~Kt(j))
                           \/ (Rk(i) = Rk(j) /\ Kt(i) = Kt(j) /\ D(i) < D(j))
    BY DEF Beats, Outranks
  <2> HIDE DEF Rk, Kt, D
  <2> QED BY <2>1, <2>2
<1>7. \A i : Ahead(i) = {j \in U : Beats(j, i)} BY <1>1 DEF Ahead, Beats
<1> HIDE DEF Rk, Kt, D
<1>8. \A i, j \in U : Ahead(i) = {} /\ j # i => Beats(i, j)
  <2> SUFFICES ASSUME NEW i \in U, NEW j \in U, Ahead(i) = {}, j # i, ~Beats(i, j)
               PROVE  FALSE
    OBVIOUS
  <2>1. ~Beats(j, i) BY <1>7
  <2>2. Rk(i) \in Nat /\ Rk(j) \in Nat /\ D(i) \in Nat /\ D(j) \in Nat /\ D(i) # D(j)
    BY <1>3, <1>4, <1>5
  <2>3. Rk(i) = Rk(j) BY <1>6, <2>1, <2>2
  <2>4. Kt(i) <=> Kt(j) BY <1>6, <2>1, <2>3
  <2> QED BY <1>6, <2>1, <2>2, <2>3, <2>4
<1>9. \E i \in U : Ahead(i) = {}
  <2>1. PICK r \in {Rk(i) : i \in U} : \A x \in {Rk(i) : i \in U} : r <= x
    <3>1. {Rk(i) : i \in U} \in SUBSET Nat BY <1>4
    <3>2. {Rk(i) : i \in U} # {} BY <1>1
    <3> QED BY <3>1, <3>2, MinNat
  <2>2. r \in Nat /\ \A i \in U : r <= Rk(i) BY <1>4, <2>1
  <2> DEFINE A == {i \in U : Rk(i) = r}
             B == {i \in A : Kt(i)}
             C == IF B = {} THEN A ELSE B
  <2>3. A # {} BY <2>1
  <2>4. C # {} /\ C \subseteq A BY <2>3
  <2>5. \A i \in C, j \in A : Kt(j) /\ ~Kt(i) => FALSE OBVIOUS
  <2>6. \A i \in C, j \in A : (Kt(i) <=> Kt(j)) => j \in C OBVIOUS
  <2> HIDE DEF C
  <2>7. PICK d \in {D(i) : i \in C} : \A x \in {D(i) : i \in C} : d <= x
    <3>1. {D(i) : i \in C} \in SUBSET Nat BY <1>3, <2>4
    <3>2. {D(i) : i \in C} # {} BY <2>4
    <3> QED BY <3>1, <3>2, MinNat
  <2>8. PICK i \in C : D(i) = d BY <2>7
  <2>9. i \in U /\ Rk(i) = r BY <2>4
  <2>10. ASSUME NEW j \in U, Beats(j, i) PROVE FALSE
    <3>1. r <= Rk(j) /\ Rk(j) \in Nat BY <1>4, <2>2
    <3>2. ~(Rk(j) < Rk(i)) BY <2>2, <2>9, <3>1
    <3>3. Rk(j) = r BY <1>6, <2>9, <2>10, <3>2
    <3>4. ~(Kt(j) /\ ~Kt(i)) BY <2>5, <3>3
    <3>5. (Kt(j) <=> Kt(i)) /\ D(j) < D(i) BY <1>6, <2>9, <2>10, <3>2, <3>4
    <3>6. j \in C BY <2>6, <3>3, <3>5
    <3>7. d <= D(j) /\ D(j) \in Nat /\ d \in Nat BY <1>3, <2>7, <2>8, <2>9, <3>6
    <3> QED BY <2>8, <3>5, <3>7
  <2> QED BY <1>7, <2>9, <2>10
<1>10. ASSUME NEW i \in U, NEW j \in U, i # j, ~Beats(i, j), ~Beats(j, i) PROVE FALSE
  <2>1. Rk(i) \in Nat /\ Rk(j) \in Nat /\ D(i) \in Nat /\ D(j) \in Nat /\ D(i) # D(j)
    BY <1>3, <1>4, <1>5, <1>10
  <2>2. Rk(i) = Rk(j) BY <1>6, <1>10, <2>1
  <2>3. Kt(i) <=> Kt(j) BY <1>6, <1>10, <2>2
  <2> QED BY <1>6, <1>10, <2>1, <2>2, <2>3
<1>11. \A i \in U : ~Beats(i, i)
  <2> TAKE i \in U
  <2>1. Rk(i) \in Nat /\ D(i) \in Nat BY <1>3, <1>4
  <2> QED BY <1>6, <2>1
<1>12. ASSUME NEW i \in U, NEW j \in U, NEW k \in U, Beats(i, j), Beats(j, k)
       PROVE  Beats(i, k)
  <2>1. /\ Rk(i) \in Nat /\ Rk(j) \in Nat /\ Rk(k) \in Nat
        /\ D(i) \in Nat /\ D(j) \in Nat /\ D(k) \in Nat
    BY <1>3, <1>4
  <2>2. Rk(i) <= Rk(j) /\ Rk(j) <= Rk(k) BY <1>6, <1>12, <2>1
  <2>3. CASE Rk(i) < Rk(k) BY <1>6, <2>3
  <2>4. CASE Rk(i) = Rk(j) /\ Rk(j) = Rk(k)
    <3>1. ~(Rk(i) < Rk(j)) /\ ~(Rk(j) < Rk(k)) BY <2>1, <2>4
    <3>2. \/ Kt(i) /\ ~Kt(j)
          \/ (Kt(i) <=> Kt(j)) /\ D(i) < D(j)
      BY <1>6, <1>12, <3>1
    <3>3. \/ Kt(j) /\ ~Kt(k)
          \/ (Kt(j) <=> Kt(k)) /\ D(j) < D(k)
      BY <1>6, <1>12, <3>1
    <3>4. (D(i) < D(j) /\ D(j) < D(k)) => D(i) < D(k) BY <2>1
    <3>5. \/ Kt(i) /\ ~Kt(k)
          \/ (Kt(i) <=> Kt(k)) /\ D(i) < D(k)
      BY <3>2, <3>3, <3>4, Zenon
    <3> QED BY <1>6, <2>4, <3>5
  <2> QED BY <2>1, <2>2, <2>3, <2>4
<1> QED BY <1>8, <1>9, <1>10, <1>11, <1>12

\* Counting the units ahead is counting down the ranking: who beats another has fewer ahead.
LEMMA AheadCounts ==
  ASSUME units \in Seq(BindUnit), units # << >>, Apart(units), dev \in [Devices -> Dies]
  PROVE  /\ \A i \in 1..Len(units) : /\ IsFiniteSet(Ahead(i)) /\ Cardinality(Ahead(i)) \in Nat
                                     /\ Ahead(i) = {j \in 1..Len(units) : Beats(j, i)}
         /\ \A i, j \in 1..Len(units) :
              Beats(i, j) => Cardinality(Ahead(i)) < Cardinality(Ahead(j))
<1> DEFINE U == 1..Len(units)
<1>1. Len(units) \in Nat /\ DOMAIN units = U BY LenProperties
<1>2. \A i : Ahead(i) = {j \in U : Beats(j, i)} BY <1>1 DEF Ahead, Beats
<1>3. \A i : IsFiniteSet(Ahead(i)) /\ Cardinality(Ahead(i)) \in Nat
  <2> TAKE i
  <2>1. 1 \in Int /\ Len(units) \in Int BY <1>1
  <2>2. IsFiniteSet(U) BY <2>1, FS_Interval
  <2>3. Ahead(i) \in SUBSET U BY <1>2
  <2>4. IsFiniteSet(Ahead(i)) BY <2>2, <2>3, FS_Subset
  <2> QED BY <2>4, FS_CardinalityType
<1>4. ASSUME NEW i \in U, NEW j \in U, Beats(i, j)
      PROVE  Cardinality(Ahead(i)) < Cardinality(Ahead(j))
  <2>1. Ahead(i) \subseteq Ahead(j) /\ i \in Ahead(j) /\ i \notin Ahead(i)
    BY <1>2, <1>4, BestExists
  <2>2. Ahead(i) \in SUBSET Ahead(j) /\ Ahead(i) # Ahead(j) BY <2>1
  <2>3. /\ Cardinality(Ahead(i)) <= Cardinality(Ahead(j))
        /\ Cardinality(Ahead(i)) = Cardinality(Ahead(j)) => Ahead(i) = Ahead(j)
    BY <1>3, <2>2, FS_Subset
  <2> QED BY <1>3, <2>2, <2>3
<1> QED BY <1>2, <1>3, <1>4

\* The cap keeps the best: a kept unit beats a released one, at most n are kept, and n are
\* where one was released.
LEMMA BestOfKeeps ==
  ASSUME units \in Seq(BindUnit), units # << >>, Apart(units), dev \in [Devices -> Dies],
         NEW n \in Nat \ {0}
  PROVE  /\ IsFiniteSet(BestOf(n)) /\ BestOf(n) \subseteq 1..Len(units)
         /\ \A i \in BestOf(n), j \in (1..Len(units)) \ BestOf(n) : Beats(i, j)
         /\ Cardinality(BestOf(n)) <= n
         /\ BestOf(n) # 1..Len(units) => Cardinality(BestOf(n)) >= n
<1> DEFINE U == 1..Len(units)
           c(i) == Cardinality(Ahead(i))
           B == BestOf(n)
<1>1. Len(units) \in Nat /\ DOMAIN units = U BY LenProperties
<1>2. B = {i \in U : c(i) < n} BY <1>1 DEF BestOf
<1>3. \A i \in U : c(i) \in Nat /\ IsFiniteSet(Ahead(i)) /\ Ahead(i) = {j \in U : Beats(j, i)}
  BY AheadCounts
<1>4. \A i, j \in U : Beats(i, j) => c(i) < c(j) BY AheadCounts
<1>5. \A i, j \in U : i # j => Beats(i, j) \/ Beats(j, i) BY BestExists
<1> HIDE DEF c, B
<1>6. IsFiniteSet(B)
  <2>1. 1 \in Int /\ Len(units) \in Int BY <1>1
  <2>2. IsFiniteSet(U) BY <2>1, FS_Interval
  <2>3. B \in SUBSET U BY <1>2
  <2> QED BY <2>2, <2>3, FS_Subset
<1>7. ASSUME NEW i \in B, NEW j \in U \ B PROVE Beats(i, j)
  <2>1. i \in U /\ c(i) < n /\ ~(c(j) < n) /\ i # j BY <1>2
  <2>2. c(i) \in Nat /\ c(j) \in Nat BY <1>3, <2>1
  <2>3. ~(c(j) < c(i)) BY <2>1, <2>2
  <2> QED BY <1>4, <1>5, <2>1, <2>3
<1>8. Cardinality(B) <= n
  <2> DEFINE f == [i \in B |-> c(i)]
             T == 0..(n - 1)
  <2>1. f \in [B -> T]
    <3>1. \A i \in B : c(i) \in T
      <4> TAKE i \in B
      <4>1. c(i) \in Nat /\ c(i) < n BY <1>2, <1>3
      <4> QED BY <4>1
    <3> HIDE DEF T
    <3> QED BY <3>1
  <2>2. \A i, j \in B : f[i] = f[j] => i = j
    <3> SUFFICES ASSUME NEW i \in B, NEW j \in B, c(i) = c(j), i # j PROVE FALSE OBVIOUS
    <3>1. i \in U /\ j \in U /\ c(i) \in Nat /\ c(j) \in Nat BY <1>2, <1>3
    <3>2. c(i) < c(j) \/ c(j) < c(i) BY <1>4, <1>5, <3>1
    <3> QED BY <3>1, <3>2
  <2>3. f \in Injection(B, T)
    <3> HIDE DEF f, T
    <3> QED BY <2>1, <2>2 DEF Injection, IsInjective
  <2>4. IsFiniteSet(T) /\ Cardinality(T) = n
    <3>1. 0 \in Int /\ n - 1 \in Int /\ ~(0 > n - 1) OBVIOUS
    <3>2. IsFiniteSet(T) /\ Cardinality(T) = n - 1 - 0 + 1 BY <3>1, FS_Interval
    <3> QED BY <3>2
  <2>5. Cardinality(B) <= Cardinality(T)
    <3> HIDE DEF f, T
    <3> QED BY <2>3, <2>4, FS_Injection
  <2> QED BY <2>4, <2>5
<1>9. ASSUME B # U PROVE Cardinality(B) >= n
  <2> DEFINE X == {c(j) : j \in U \ B}
  <2>1. X \in SUBSET Nat /\ X # {} BY <1>2, <1>3, <1>9
  <2>2. PICK x \in X : \A y \in X : x <= y
    <3> HIDE DEF X
    <3> QED BY <2>1, MinNat
  <2>3. PICK j \in U \ B : c(j) = x BY <2>2
  <2>4. Ahead(j) \subseteq B
    <3> SUFFICES ASSUME NEW i \in U, Beats(i, j), i \notin B PROVE FALSE BY <1>3, <2>3
    <3>1. c(i) \in X BY DEF X
    <3>2. c(i) < c(j) /\ c(i) \in Nat /\ c(j) \in Nat BY <1>3, <1>4, <2>3
    <3>3. c(j) <= c(i) BY <2>2, <2>3, <3>1
    <3> QED BY <3>2, <3>3
  <2>5. Ahead(j) \in SUBSET B BY <2>4
  <2>6. Cardinality(Ahead(j)) <= Cardinality(B) BY <1>6, <2>5, FS_Subset
  <2>7. ~(c(j) < n) /\ c(j) \in Nat BY <1>2, <1>3, <2>3
  <2>8. Cardinality(B) \in Nat BY <1>6, FS_CardinalityType
  <2>9. c(j) <= Cardinality(B) BY <2>6 DEF c
  <2> QED BY <2>7, <2>8, <2>9
<1> QED BY <1>2, <1>6, <1>7, <1>8, <1>9 DEF B

\* An enumeration of a set has as many turns as the set has elements.
LEMMA EnumerationCounts ==
  ASSUME NEW m \in Nat, NEW T \in SUBSET Nat, NEW e, Enumerates(e, m, T)
  PROVE  Cardinality(T) = m
<1>1. e \in [1..m -> T] BY DEF Enumerates
<1>2. \A i, j \in 1..m : e[i] = e[j] => i = j
  <2> SUFFICES ASSUME NEW i \in 1..m, NEW j \in 1..m, e[i] = e[j] PROVE i = j OBVIOUS
  <2>1. e[i] \in Nat /\ e[j] \in Nat BY <1>1
  <2>2. (i < j => e[i] < e[j]) /\ (j < i => e[j] < e[i]) BY DEF Enumerates
  <2> QED BY <2>1, <2>2
<1>3. \A x \in T : \E i \in 1..m : e[i] = x BY DEF Enumerates
<1>4. e \in Bijection(1..m, T)
  BY <1>1, <1>2, <1>3 DEF Bijection, Injection, Surjection, IsInjective
<1>5. ExistsBijection(1..m, T) BY <1>4 DEF ExistsBijection
<1> QED BY <1>5, FS_CountingElements

\* The re-bound array gives every stanza a claimed unit and no two the same.
LEMMA ReboundApart ==
  ASSUME units \in Seq(BindUnit), stz \in Seq(BindStanza), Len(units) = Len(stz), Apart(units),
         \A i, j \in 1..Len(stz) : stz[i].mac # 0 /\ stz[i].mac = stz[j].mac => i = j
  PROVE  /\ \A i \in 1..Len(stz) : Rebound[i] \in Devices
         /\ \A i, j \in 1..Len(stz) : Rebound[i] = Rebound[j] => i = j
<1> DEFINE n == Len(stz)
           U == 1..n
<1>1. n \in Nat /\ DOMAIN units = U /\ DOMAIN stz = U BY LenProperties
<1>2. \A i \in U : units[i].dev \in Devices
  <2>1. \A i \in U : units[i] \in BindUnit BY ElementOfSeq
  <2> QED BY <2>1 DEF BindUnit
<1>3. Claimed = {units[i].dev : i \in U} /\ Claimed \subseteq Devices /\ 0 \notin Claimed
  BY <1>1, <1>2, DevicesAre DEF Claimed
<1> DEFINE a == ByMac
           b == ByBus(a)
<1>4. /\ DOMAIN a = U /\ \A i \in U : a[i] = 0 \/ (a[i] \in Claimed /\ a[i] = stz[i].mac)
  BY <1>1 DEF ByMac
<1>5. \A i, j \in U : a[i] # 0 /\ a[i] = a[j] => i = j BY <1>3, <1>4
<1>6. /\ DOMAIN b = U
      /\ \A i \in U : \/ b[i] = a[i]
                      \/ /\ a[i] = 0 /\ b[i] \in Claimed /\ Unbound(a, b[i]) /\ b[i] = stz[i].bus
                         /\ \A j \in 1..(i - 1) : a[j] # 0 \/ stz[j].bus # stz[i].bus
  <2> HIDE DEF a
  <2> QED BY <1>1 DEF ByBus
<1>7. Rebound = Leftover(b) BY DEF Rebound
<1> HIDE DEF a, b
<1>8. \A i \in U : b[i] = 0 \/ b[i] \in Claimed BY <1>4, <1>6
<1>9. ASSUME NEW i \in U, NEW j \in U, b[i] # 0, b[i] = b[j] PROVE i = j
  <2>1. CASE b[i] = a[i] /\ b[j] = a[j] BY <1>5, <1>9, <2>1
  <2>2. CASE b[i] = a[i] /\ b[j] # a[j]
    <3>1. Unbound(a, b[j]) BY <1>6, <2>2
    <3> QED BY <1>4, <1>9, <2>2, <3>1 DEF Unbound
  <2>3. CASE b[i] # a[i] /\ b[j] = a[j]
    <3>1. Unbound(a, b[i]) BY <1>6, <2>3
    <3> QED BY <1>4, <1>9, <2>3, <3>1 DEF Unbound
  <2>4. CASE b[i] # a[i] /\ b[j] # a[j]
    <3>1. a[i] = 0 /\ a[j] = 0 /\ stz[i].bus = stz[j].bus BY <1>6, <1>9, <2>4
    <3>2. ~(j \in 1..(i - 1)) /\ ~(i \in 1..(j - 1)) BY <1>6, <2>4, <3>1
    <3> QED BY <1>1, <3>2
  <2> QED BY <2>1, <2>2, <2>3, <2>4
<1> DEFINE open == {i \in U : b[i] = 0}
           spare == {i \in U : Unbound(b, units[i].dev)}
           pick(i) == CHOOSE u \in spare : RankIn(spare, u) = RankIn(open, i)
<1>10. Leftover(b) = [i \in U |-> IF b[i] # 0 THEN b[i] ELSE units[pick(i)].dev]
  BY <1>1 DEF Leftover, RankIn
<1>11. open \in SUBSET Nat /\ spare \in SUBSET Nat /\ open \subseteq U /\ spare \subseteq U
  BY <1>1
<1>12. IsFiniteSet(U) /\ IsFiniteSet(open) /\ IsFiniteSet(spare)
  <2>1. 1 \in Int /\ n \in Int BY <1>1
  <2>2. IsFiniteSet(U) BY <2>1, FS_Interval
  <2> HIDE DEF open, spare, U
  <2> QED BY <1>11, <2>2, FS_Subset
<1>13. Cardinality(open) <= Cardinality(spare)
  <2> DEFINE bound == U \ open
             gone == U \ spare
             h == [i \in bound |-> CHOOSE u \in gone : units[u].dev = b[i]]
  <2>1. ASSUME NEW i \in bound PROVE h[i] \in gone /\ units[h[i]].dev = b[i]
    <3>1. i \in U /\ b[i] # 0 /\ b[i] \in Claimed BY <1>8
    <3>2. PICK u \in U : units[u].dev = b[i] BY <1>3, <3>1
    <3>3. u \in gone BY <1>6, <3>1, <3>2 DEF Unbound
    <3>4. \E v \in gone : units[v].dev = b[i] BY <3>2, <3>3
    <3>5. h[i] = CHOOSE v \in gone : units[v].dev = b[i] OBVIOUS
    <3> HIDE DEF h, gone, bound
    <3> QED BY <3>4, <3>5
  <2>2. ASSUME NEW u \in gone PROVE \E i \in bound : h[i] = u
    <3>1. u \in U /\ \E i \in U : b[i] = units[u].dev BY <1>6 DEF Unbound
    <3>2. PICK i \in U : b[i] = units[u].dev BY <3>1
    <3>3. i \in bound BY <1>2, <3>1, <3>2, DevicesAre
    <3>4. h[i] \in U /\ units[h[i]].dev = units[u].dev BY <2>1, <3>2, <3>3
    <3>5. h[i] = u
      <4> HIDE DEF h, gone, bound
      <4> QED BY <3>1, <3>4 DEF Apart
    <3> QED BY <3>3, <3>5
  <2>3. h \in Surjection(bound, gone)
    <3>1. h \in [bound -> gone] BY <2>1
    <3> HIDE DEF h, gone, bound
    <3> QED BY <2>2, <3>1 DEF Surjection
  <2>4. IsFiniteSet(bound) BY <1>12, FS_Difference
  <2>5. IsFiniteSet(gone) /\ Cardinality(gone) <= Cardinality(bound)
    <3> HIDE DEF h, gone, bound
    <3> QED BY <2>3, <2>4, FS_Surjection
  <2>6. /\ Cardinality(bound) = Cardinality(U) - Cardinality(open)
        /\ Cardinality(gone) = Cardinality(U) - Cardinality(spare)
    <3>1. U \cap open = open /\ U \cap spare = spare OBVIOUS
    <3> HIDE DEF U, open, spare
    <3>2. Cardinality(U \ open) = Cardinality(U) - Cardinality(U \cap open)
      BY <1>12, FS_Difference
    <3>3. Cardinality(U \ spare) = Cardinality(U) - Cardinality(U \cap spare)
      BY <1>12, FS_Difference
    <3> QED BY <3>1, <3>2, <3>3
  <2>7. /\ Cardinality(U) \in Nat /\ Cardinality(open) \in Nat /\ Cardinality(spare) \in Nat
    <3> HIDE DEF U, open, spare
    <3> QED BY <1>12, FS_CardinalityType
  <2> HIDE DEF U, open, spare, bound, gone
  <2> QED BY <2>5, <2>6, <2>7
<1> HIDE DEF open, spare
<1>14. ASSUME NEW i \in open
       PROVE  pick(i) \in spare /\ RankIn(spare, pick(i)) = RankIn(open, i)
  <2>1. /\ Cardinality(open) \in Nat /\ RankIn(open, i) \in 0..(Cardinality(open) - 1)
        /\ Cardinality(spare) \in Nat
    BY <1>11, <1>12, RankReached
  <2>2. RankIn(open, i) \in 0..(Cardinality(spare) - 1) BY <1>13, <2>1
  <2>3. \E u \in spare : RankIn(spare, u) = RankIn(open, i) BY <1>11, <1>12, <2>2, RankReached
  <2> QED BY <2>3
<1>15. ASSUME NEW i \in open, NEW j \in open, pick(i) = pick(j) PROVE i = j
  <2> HIDE DEF pick
  <2>1. RankIn(open, i) = RankIn(open, j) BY <1>14, <1>15
  <2> QED BY <1>11, <1>12, <2>1, RankReached
<1> HIDE DEF pick
<1>16. /\ \A i \in U : b[i] # 0 => Rebound[i] = b[i]
       /\ \A i \in U : b[i] = 0 => i \in open /\ Rebound[i] = units[pick(i)].dev
  BY <1>7, <1>10 DEF open
<1>17. \A i \in open : pick(i) \in U /\ Unbound(b, units[pick(i)].dev)
  BY <1>14 DEF spare
<1>18. \A i \in U : Rebound[i] \in Devices BY <1>2, <1>3, <1>8, <1>16, <1>17
<1>19. ASSUME NEW i \in U, NEW j \in U, Rebound[i] = Rebound[j] PROVE i = j
  <2>1. CASE b[i] # 0 /\ b[j] # 0 BY <1>9, <1>16, <1>19, <2>1
  <2>2. CASE b[i] # 0 /\ b[j] = 0 BY <1>6, <1>16, <1>17, <1>19, <2>2 DEF Unbound
  <2>3. CASE b[i] = 0 /\ b[j] # 0 BY <1>6, <1>16, <1>17, <1>19, <2>3 DEF Unbound
  <2>4. CASE b[i] = 0 /\ b[j] = 0
    <3>1. i \in open /\ j \in open /\ units[pick(i)].dev = units[pick(j)].dev
      BY <1>16, <1>19, <2>4
    <3>2. pick(i) = pick(j) BY <1>17, <3>1 DEF Apart
    <3> QED BY <1>15, <3>1, <3>2
  <2> QED BY <2>1, <2>2, <2>3, <2>4
<1> QED BY <1>18, <1>19
\* The kept units are apart when the units were, and some are kept when some were to be.
LEMMA SelectedApart ==
  ASSUME NEW u \in Seq(BindUnit), NEW keep \in SUBSET (1..Len(u)), Apart(u)
  PROVE  /\ Apart(Selected(u, keep))
         /\ keep # {} => Selected(u, keep) # << >>
<1> DEFINE r == Selected(u, keep)
<1>1. r \in Seq(BindUnit)
      /\ \E e : Enumerates(e, Len(r), keep) /\ \A i \in 1..Len(r) : r[i] = u[e[i]]
  BY SelectedLists
<1> HIDE DEF r
<1>2. PICK e : Enumerates(e, Len(r), keep) /\ \A i \in 1..Len(r) : r[i] = u[e[i]] BY <1>1
<1>3. Len(r) \in Nat BY <1>1, LenProperties
<1>4. Apart(r)
  <2> SUFFICES ASSUME NEW i \in 1..Len(r), NEW j \in 1..Len(r), r[i].dev = r[j].dev PROVE i = j
    BY DEF Apart
  <2>1. e[i] \in 1..Len(u) /\ e[j] \in 1..Len(u) BY <1>2 DEF Enumerates
  <2>2. e[i] = e[j] BY <1>2, <2>1 DEF Apart
  <2>3. e[i] \in Nat BY <2>1
  <2>4. (i < j => e[i] < e[j]) /\ (j < i => e[j] < e[i]) BY <1>2 DEF Enumerates
  <2> QED BY <1>3, <2>2, <2>3, <2>4
<1>5. keep # {} => r # << >>
  <2> SUFFICES ASSUME NEW x \in keep, r = << >> PROVE FALSE OBVIOUS
  <2>1. Len(r) = 0 BY EmptySeq
  <2>2. \E i \in 1..Len(r) : e[i] = x BY <1>2 DEF Enumerates
  <2> QED BY <2>1, <2>2
<1> QED BY <1>4, <1>5 DEF r

\* At most one transmitter: one index has the role, or none (index 0).
LEMMA OneTx ==
  ASSUME NEW s \in Seq(BindStanza), TxCount(s) <= 1
  PROVE  \E x \in 0..Len(s) : /\ \A i \in 1..Len(s) : s[i].tx <=> i = x
                              /\ x = 0 <=> TxCount(s) # 1
<1> DEFINE T == {i \in DOMAIN s : s[i].tx}
<1>1. Len(s) \in Nat /\ DOMAIN s = 1..Len(s) BY LenProperties
<1>2. IsFiniteSet(T)
  <2>1. 1 \in Int /\ Len(s) \in Int BY <1>1
  <2>2. IsFiniteSet(1..Len(s)) BY <2>1, FS_Interval
  <2>3. T \in SUBSET (1..Len(s)) BY <1>1
  <2> HIDE DEF T
  <2> QED BY <2>2, <2>3, FS_Subset
<1>3. TxCount(s) = Cardinality(T) BY DEF TxCount
<1>4. CASE Cardinality(T) = 1
  <2>1. \E x : T = {x}
    <3> HIDE DEF T
    <3> QED BY <1>2, <1>4, FS_Singleton
  <2>2. PICK x : T = {x} BY <2>1
  <2>3. x \in 1..Len(s) BY <1>1, <2>2
  <2>4. \A i \in 1..Len(s) : s[i].tx <=> i = x BY <1>1, <2>2
  <2>5. x \in 0..Len(s) /\ x # 0 BY <1>1, <2>3
  <2> QED BY <1>3, <1>4, <2>4, <2>5
<1>5. CASE Cardinality(T) # 1
  <2>1. T = {}
    <3> HIDE DEF T
    <3>1. Cardinality(T) \in Nat BY <1>2, FS_CardinalityType
    <3>2. Cardinality(T) = 0 BY <1>3, <1>5, <3>1
    <3> QED BY <1>2, <3>2, FS_EmptySet
  <2>2. \A i \in 1..Len(s) : s[i].tx <=> i = 0 BY <1>1, <2>1
  <2>3. 0 \in 0..Len(s) BY <1>1
  <2> QED BY <1>3, <1>5, <2>2, <2>3
<1> QED BY <1>4, <1>5

-----------------------------------------------------------------------------
(* The adapters' binding: the invariant *)

BindTypeOK ==
    /\ conf \in [auto : BOOLEAN, stanzas : Seq(BindStanza), fds : Seq(Devices), cap : Nat,
                 keyed : BOOLEAN, rxOnly : BOOLEAN, knob : BOOLEAN, chanOk : BOOLEAN]
    /\ ~conf.auto => conf.stanzas \in Stanzas /\ conf.fds = << >>
    /\ dev \in [Devices -> Dies]
    /\ units \in Seq(BindUnit) /\ stz \in Seq(BindStanza) /\ used \in SUBSET Devices
    /\ lot \in SUBSET Devices /\ idx \in Nat /\ txIdx \in Nat
    /\ step \in {"validate", "claim", "bringup", "elect", "rebind", "up", "failed"}

\* A stanza with a port and no mac.
StrictAt(s) == s.bus # None0 /\ s.mac = None0

\* Array form: the units have their stanzas' roles, and txIdx names the transmitter.
Roles ==
    /\ txIdx <= Len(units)
    /\ \A i \in 1..Len(units) : (units[i].tx <=> stz[i].tx) /\ (units[i].tx <=> i = txIdx)

\* The claim loop: claimed devices differ; under the array form every stanza so far has its
\* unit, and a port that a stanza without a mac pins went to a stanza that pins it.
Claims ==
    /\ idx >= 1 /\ idx <= Len(stz) + 1 /\ Len(units) < idx /\ Apart(units) /\ fds = conf.fds
    /\ conf.auto =>
         /\ txIdx = 0 /\ stz = [i \in Found |-> RxStanza]
         /\ ~ByFd => \A i \in 1..Len(units) : units[i].dev \in used
    /\ ~conf.auto =>
         /\ stz = conf.stanzas /\ Acceptable(stz) /\ Len(units) + 1 = idx /\ Roles
         /\ used = {units[i].dev : i \in 1..Len(units)}
         /\ \A i \in 1..Len(units) :
              /\ StrictAt(stz[i]) => units[i].dev = stz[i].bus
              /\ units[i].dev \in StrictPins => units[i].dev = stz[i].bus

ABInv ==
    /\ BindTypeOK
    /\ step = "validate" => units = << >> /\ used = {} /\ idx = 1 /\ txIdx = 0
    /\ step = "claim" => Claims
    /\ step \in {"bringup", "rebind"} =>
         /\ Apart(units) /\ units # << >> /\ Len(stz) = Len(units)
         /\ ~conf.auto => stz = conf.stanzas /\ Acceptable(stz) /\ Roles
    /\ step = "rebind" => ~conf.auto
    /\ step \in {"claim", "bringup", "elect"} /\ conf.auto => ~(conf.rxOnly /\ conf.knob)
    /\ step = "elect" => /\ conf.auto /\ Apart(units) /\ units # << >>
                         /\ lot = {units[i].dev : i \in 1..Len(units)}
    /\ OneUplink /\ ValidConfigFlies

\* A refusal keeps the invariant when the configuration was not sound.
LEMMA RefuseKeeps ==
  ASSUME ABInv, Refuse, ~ValidArray
  PROVE  ABInv'
<1>1. /\ step' = "failed" /\ conf' = conf /\ dev' = dev /\ units' = units /\ stz' = stz
      /\ fds' = fds /\ used' = used /\ lot' = lot /\ idx' = idx /\ txIdx' = txIdx
  BY DEF Refuse
<1>2. BindTypeOK' BY <1>1 DEF ABInv, BindTypeOK
<1>3. OneUplink' BY <1>1 DEF OneUplink, Up
<1>4. ValidConfigFlies' BY <1>1 DEF ValidConfigFlies, ValidArray, Acceptable, TxCount
<1> QED BY <1>1, <1>2, <1>3, <1>4 DEF ABInv

\* The binding starts in its invariant.
LEMMA BindInit == ABInit => ABInv
<1> SUFFICES ASSUME ABInit PROVE ABInv OBVIOUS
<1>1. /\ units = << >> /\ stz = << >> /\ used = {} /\ lot = {} /\ idx = 1 /\ txIdx = 0
      /\ step = "validate"
  BY DEF ABInit
<1>2. /\ conf \in [auto : BOOLEAN, stanzas : Seq(BindStanza), fds : Seq(Devices), cap : Nat,
                   keyed : BOOLEAN, rxOnly : BOOLEAN, knob : BOOLEAN, chanOk : BOOLEAN]
      /\ ~conf.auto => conf.stanzas \in Stanzas /\ conf.fds = << >>
  <2>0. PICK o \in Options :
          \/ \E s \in Stanzas :
                conf = [auto |-> FALSE, stanzas |-> s, fds |-> << >>, cap |-> 0, keyed |-> TRUE,
                        rxOnly |-> o.rxOnly, knob |-> o.knob, chanOk |-> o.chanOk]
          \/ \E c \in Caps, f \in FdLists \union {<< >>} :
                conf = [auto |-> TRUE, stanzas |-> << >>, fds |-> f, cap |-> c, keyed |-> o.keyed,
                        rxOnly |-> o.rxOnly, knob |-> o.knob, chanOk |-> o.chanOk]
    BY DEF ABInit
  <2>1. o.rxOnly \in BOOLEAN /\ o.knob \in BOOLEAN /\ o.chanOk \in BOOLEAN /\ o.keyed \in BOOLEAN
    BY AdapterBindAssumption
  <2>2. << >> \in Seq(Devices) /\ << >> \in Seq(BindStanza) BY EmptySeq
  <2>3. ASSUME NEW s \in Stanzas,
               conf = [auto |-> FALSE, stanzas |-> s, fds |-> << >>, cap |-> 0, keyed |-> TRUE,
                       rxOnly |-> o.rxOnly, knob |-> o.knob, chanOk |-> o.chanOk]
        PROVE  <1>2!1 /\ <1>2!2
    <3>1. s \in Seq(BindStanza) BY AdapterBindAssumption DEF BindStanza
    <3> QED BY <2>1, <2>2, <2>3, <3>1
  <2>4. ASSUME NEW c \in Caps, NEW f \in FdLists \union {<< >>},
               conf = [auto |-> TRUE, stanzas |-> << >>, fds |-> f, cap |-> c, keyed |-> o.keyed,
                       rxOnly |-> o.rxOnly, knob |-> o.knob, chanOk |-> o.chanOk]
        PROVE  <1>2!1 /\ <1>2!2
    <3>1. c \in Nat /\ f \in Seq(Devices) BY <2>2, AdapterBindAssumption
    <3> QED BY <2>1, <2>2, <2>4, <3>1
  <2> QED BY <2>0, <2>3, <2>4
<1>3. dev \in [Devices -> Dies]
  BY AdapterBindAssumption DEF ABInit, Dies
<1>4. BindTypeOK BY <1>1, <1>2, <1>3, EmptySeq DEF BindTypeOK
<1> QED BY <1>1, <1>4 DEF ABInv, OneUplink, Up, ValidConfigFlies

\* The refusals before any USB work, and the provisional stanzas, keep the invariant.
LEMMA ValidateKeeps == ABInv /\ Validate => ABInv'
<1> SUFFICES ASSUME ABInv, Validate PROVE ABInv' OBVIOUS
<1>0. step = "validate" /\ units = << >> /\ used = {} /\ idx = 1 /\ txIdx = 0 /\ BindTypeOK
  BY DEF Validate, ABInv
<1> DEFINE good == IF conf.auto THEN AutoAcceptable ELSE Acceptable(conf.stanzas)
<1>1. CASE ~good
  <2>1. Refuse /\ ~ValidArray BY <1>1 DEF Validate, ValidArray
  <2> QED BY <2>1, RefuseKeeps
<1>2. CASE good
  <2>1. /\ stz' = IF conf.auto THEN [i \in Found |-> RxStanza] ELSE conf.stanzas
        /\ fds' = conf.fds /\ step' = "claim"
        /\ UNCHANGED <<conf, dev, units, used, lot, idx, txIdx, published>>
    BY <1>2 DEF Validate
  <2>2. stz' \in Seq(BindStanza)
    <3>1. CASE conf.auto
      <4>1. RxStanza \in BindStanza BY DEF RxStanza, BindStanza, None0
      <4>2. \E k \in Nat : Found = 1..k
        <5>1. Len(conf.fds) \in Nat BY <1>0, LenProperties DEF BindTypeOK
        <5> QED BY <5>1, DevicesAre DEF Found
      <4>3. PICK k \in Nat : Found = 1..k BY <4>2
      <4>4. stz' \in [1..k -> BindStanza] BY <2>1, <3>1, <4>1, <4>3
      <4> QED BY <4>4
    <3>2. CASE ~conf.auto BY <1>0, <2>1, <3>2 DEF BindTypeOK
    <3> QED BY <3>1, <3>2
  <2>3. BindTypeOK' BY <1>0, <2>1, <2>2 DEF BindTypeOK
  <2>4. Len(units) = 0 /\ Len(stz') \in Nat BY <1>0, <2>2, EmptySeq, LenProperties
  <2>5. Claims'
    <3>1. idx' >= 1 /\ idx' <= Len(stz') + 1 /\ Len(units') < idx' BY <1>0, <2>1, <2>4
    <3>2. \A i \in 1..Len(units') : FALSE BY <2>1, <2>4
    <3>3. Apart(units') BY <3>2 DEF Apart
    <3>4. ~conf.auto => Acceptable(stz') BY <1>2, <2>1 DEF good
    <3>9. Found' = Found BY <2>1 DEF Found
    <3>5. ~conf.auto => Acceptable(stz)' BY <2>1, <3>4 DEF Acceptable
    <3>6. used' = {units'[i].dev : i \in 1..Len(units')} BY <1>0, <2>1, <3>2
    <3>7. Roles' BY <1>0, <2>1, <2>4, <3>2 DEF Roles
    <3>8. Len(units') + 1 = idx' BY <1>0, <2>1, <2>4
    <3> QED BY <1>0, <2>1, <3>1, <3>2, <3>3, <3>5, <3>6, <3>7, <3>8, <3>9 DEF Claims
  <2>6. conf.auto => ~(conf.rxOnly /\ conf.knob) BY <1>2 DEF AutoAcceptable
  <2> QED BY <2>1, <2>3, <2>5, <2>6 DEF ABInv, OneUplink, Up, ValidConfigFlies
<1> QED BY <1>1, <1>2

\* The first of a set of devices is one of them.
LEMMA FirstIn ==
  ASSUME NEW S \in SUBSET Devices, S # {}
  PROVE  First(S) \in S
<1>1. S \in SUBSET Nat BY DevicesAre
<1>2. \E x \in S : \A y \in S : x <= y BY <1>1, MinNat
<1> QED BY <1>2 DEF First

\* A sound array never runs out of devices: a stanza that pins a port finds it free, and
\* any other one finds a device that is neither claimed nor reserved, since the claimed and
\* the reserved ones each belong to another stanza.
LEMMA ClaimGoes ==
  ASSUME BindTypeOK, Claims, ValidArray, idx <= Len(stz)
  PROVE  Claimable(stz[idx]) # {}
<1> DEFINE n == Len(stz)
           s == stz[idx]
           U == 1..Len(units)
           A == used \cup StrictPins
           Oth == (1..n) \ {idx}
<1>1. /\ ~conf.auto /\ stz = conf.stanzas /\ Len(units) + 1 = idx
      /\ used = {units[i].dev : i \in U} /\ used \subseteq Devices
      /\ \A i \in U : /\ StrictAt(stz[i]) => units[i].dev = stz[i].bus
                      /\ units[i].dev \in StrictPins => units[i].dev = stz[i].bus
  BY DEF ValidArray, Claims, BindTypeOK
<1>2. /\ n \in Nat /\ Len(units) \in Nat /\ DOMAIN stz = 1..n /\ idx \in 1..n
      /\ U \subseteq 1..n /\ idx \notin U
  <2>1. n \in Nat /\ Len(units) \in Nat /\ DOMAIN stz = 1..n /\ idx \in Nat
    BY LenProperties DEF BindTypeOK
  <2> QED BY <1>1, <2>1
<1>3. /\ n <= Cardinality(Devices)
      /\ \A i \in 1..n : stz[i].bus # None0 => stz[i].bus \in Devices
      /\ \A i, j \in 1..n : stz[i].bus # None0 /\ stz[i].bus = stz[j].bus => i = j
  BY <1>1, <1>2 DEF ValidArray
<1>4. /\ StrictPins = {stz[i].bus : i \in {j \in 1..n : StrictAt(stz[j])}}
      /\ StrictPins \subseteq Devices
  BY <1>2, <1>3 DEF StrictPins, StrictAt
<1>5. CASE StrictAt(s)
  <2>1. s.bus \in StrictPins /\ s.bus # None0 /\ s.bus \in Devices
    BY <1>2, <1>3, <1>4, <1>5 DEF StrictAt
  <2>2. s.bus \notin used
    <3> SUFFICES ASSUME NEW i \in U, units[i].dev = s.bus PROVE FALSE BY <1>1
    <3>1. stz[i].bus = s.bus /\ i \in 1..n BY <1>1, <1>2, <2>1
    <3>2. i = idx BY <1>2, <1>3, <2>1, <3>1
    <3> QED BY <1>2, <3>2
  <2>3. s.bus \in {d \in Devices \ used : Path(d) = s.bus} BY <2>1, <2>2 DEF Path
  <2> QED BY <1>5, <2>1, <2>3 DEF Claimable, StrictAt
<1>6. CASE ~StrictAt(s)
  <2> DEFINE g == [d \in A |-> IF d \in StrictPins
                                THEN CHOOSE j \in 1..n : StrictAt(stz[j]) /\ stz[j].bus = d
                                ELSE CHOOSE i \in U : units[i].dev = d]
  <2>1. ASSUME NEW d \in A
        PROVE  /\ g[d] \in 1..n /\ g[d] # idx
               /\ d \in StrictPins => StrictAt(stz[g[d]]) /\ stz[g[d]].bus = d
               /\ d \notin StrictPins => g[d] \in U /\ units[g[d]].dev = d
    <3>1. CASE d \in StrictPins
      <4>1. \E j \in 1..n : StrictAt(stz[j]) /\ stz[j].bus = d BY <1>4, <3>1
      <4>2. g[d] = CHOOSE j \in 1..n : StrictAt(stz[j]) /\ stz[j].bus = d BY <3>1
      <4> HIDE DEF g
      <4>3. g[d] \in 1..n /\ StrictAt(stz[g[d]]) /\ stz[g[d]].bus = d BY <4>1, <4>2
      <4> QED BY <1>6, <3>1, <4>3
    <3>2. CASE d \notin StrictPins
      <4>1. \E i \in U : units[i].dev = d BY <1>1, <3>2
      <4>2. g[d] = CHOOSE i \in U : units[i].dev = d BY <3>2
      <4> HIDE DEF g, U
      <4>3. g[d] \in U /\ units[g[d]].dev = d BY <4>1, <4>2
      <4> QED BY <1>2, <3>2, <4>3
    <3> QED BY <3>1, <3>2
  <2> HIDE DEF g
  <2>2. ASSUME NEW d \in A, NEW e \in A, g[d] = g[e] PROVE d = e
    <3>1. CASE d \in StrictPins /\ e \in StrictPins BY <2>1, <2>2, <3>1
    <3>2. CASE d \notin StrictPins /\ e \notin StrictPins BY <2>1, <2>2, <3>2
    <3>3. CASE d \in StrictPins /\ e \notin StrictPins
      <4>1. StrictAt(stz[g[d]]) /\ stz[g[d]].bus = d /\ g[e] \in U /\ units[g[e]].dev = e
        BY <2>1, <3>3
      <4> HIDE DEF U
      <4> QED BY <1>1, <2>2, <4>1
    <3>4. CASE d \notin StrictPins /\ e \in StrictPins
      <4>1. StrictAt(stz[g[e]]) /\ stz[g[e]].bus = e /\ g[d] \in U /\ units[g[d]].dev = d
        BY <2>1, <3>4
      <4> HIDE DEF U
      <4> QED BY <1>1, <2>2, <4>1
    <3> QED BY <3>1, <3>2, <3>3, <3>4
  <2>3. g \in Injection(A, Oth)
    <3>1. g \in [A -> Oth] /\ DOMAIN g = A
      <4>1. g = [d \in A |-> g[d]] BY DEF g
      <4>2. \A d \in A : g[d] \in Oth BY <2>1
      <4> HIDE DEF A, Oth
      <4> QED BY <4>1, <4>2
    <3> HIDE DEF A, Oth
    <3> QED BY <2>2, <3>1 DEF Injection, IsInjective
  <2>4. IsFiniteSet(Oth) /\ Cardinality(Oth) = n - 1
    <3>1. 1 \in Int /\ n \in Int /\ n >= 1 BY <1>2
    <3>2. idx \in 1..n BY <1>2
    <3> HIDE DEF n, s, U, A
    <3>3. IsFiniteSet(1..n) /\ Cardinality(1..n) = IF 1 > n THEN 0 ELSE n - 1 + 1
      BY <3>1, FS_Interval
    <3>4. Cardinality(1..n) = n BY <3>1, <3>3
    <3> QED BY <3>2, <3>3, <3>4, FS_RemoveElement
  <2>5. IsFiniteSet(A) /\ Cardinality(A) <= n - 1
    <3> HIDE DEF A, Oth
    <3> QED BY <2>3, <2>4, FS_Injection
  <2>6. A # Devices
    <3> HIDE DEF A
    <3> QED BY <1>2, <1>3, <2>5, DevicesAre
  <2>7. A \subseteq Devices BY <1>1, <1>4
  <2>8. PICK d \in Devices : d \notin A BY <2>6, <2>7
  <2>9. d \in Free(s) BY <2>8 DEF Free
  <2> QED BY <1>6, <2>9 DEF Claimable, StrictAt
<1> QED BY <1>5, <1>6

\* Passing over a stanza keeps the invariant.
LEMMA SkipKeeps ==
  ASSUME ABInv, step = "claim", idx <= Len(stz), NEW path \in SUBSET Devices,
         SkipOrFail(path), ~ValidArray
  PROVE  ABInv'
<1>1. CASE ~conf.auto
  <2>1. Refuse BY <1>1 DEF SkipOrFail
  <2> QED BY <2>1, RefuseKeeps
<1>2. CASE conf.auto
  <2>1. /\ idx' = idx + 1 /\ used' = used \union path
        /\ conf' = conf /\ dev' = dev /\ units' = units /\ stz' = stz /\ fds' = fds
        /\ step' = step /\ txIdx' = txIdx /\ lot' = lot
    BY <1>2 DEF SkipOrFail
  <2>2. BindTypeOK /\ Claims BY DEF ABInv
  <2>3. /\ idx \in Nat /\ used \subseteq Devices /\ Len(units) \in Nat /\ Len(stz) \in Nat
        /\ \A i \in 1..Len(units) : units[i].dev \in Nat
    <3>1. \A i \in 1..Len(units) : units[i] \in BindUnit
      BY <2>2, ElementOfSeq DEF BindTypeOK
    <3> QED BY <2>2, <3>1, DevicesAre, LenProperties DEF BindTypeOK, BindUnit
  <2>4. BindTypeOK' BY <2>1, <2>2, <2>3 DEF BindTypeOK
  <2>5. idx' >= 1 /\ idx' <= Len(stz') + 1 /\ Len(units') < idx'
    BY <2>1, <2>2, <2>3 DEF Claims
  <2>6. Apart(units') /\ fds' = conf'.fds BY <2>1, <2>2 DEF Claims
  <2>7. /\ txIdx = 0 /\ stz = [i \in Found |-> RxStanza]
        /\ ~ByFd => \A i \in 1..Len(units) : units[i].dev \in used
    BY <1>2, <2>2 DEF Claims
  <2>8. ByFd' <=> ByFd BY <2>1 DEF ByFd
  <2>9. Found' = Found BY <2>1 DEF Found
  <2>10. ~ByFd' => \A i \in 1..Len(units') : units'[i].dev \in used'
    BY <2>1, <2>7, <2>8
  <2>11. Claims' BY <1>2, <2>1, <2>5, <2>6, <2>7, <2>9, <2>10 DEF Claims
  <2>12. conf.auto => ~(conf.rxOnly /\ conf.knob) BY DEF ABInv
  <2> QED BY <2>1, <2>4, <2>11, <2>12 DEF ABInv, OneUplink, Up, ValidConfigFlies
<1> QED BY <1>1, <1>2

\* A claimed unit keeps the invariant: its device is new, and under the array form it has
\* its stanza's role and leaves the reserved ports to the stanzas that pin them.
LEMMA ClaimUnitKeeps ==
  ASSUME ABInv, step = "claim", idx <= Len(stz), NEW d \in Devices, ClaimUnit(d),
         ByFd => conf.auto, ~ByFd => d \notin used,
         ~conf.auto => /\ StrictAt(stz[idx]) => d = stz[idx].bus
                       /\ d \in StrictPins => d = stz[idx].bus
  PROVE  ABInv'
<1>0. d \in Claimed => ByFd
  <2>1. Claims /\ BindTypeOK BY DEF ABInv
  <2>2. Claimed = {units[i].dev : i \in 1..Len(units)}
    BY <2>1, LenProperties DEF Claimed, BindTypeOK
  <2> QED BY <2>1, <2>2 DEF Claims
<1>1. CASE d \in Claimed \/ dev[d].fate = "busy"
  <2>1. Refuse \/ SkipOrFail(IF ByFd THEN {} ELSE {d}) BY <1>1 DEF ClaimUnit
  <2>2. ~ValidArray BY <1>0, <1>1 DEF ValidArray
  <2> QED BY <2>1, <2>2, SkipKeeps, RefuseKeeps
<1>2. CASE ~(d \in Claimed \/ dev[d].fate = "busy")
  <2> DEFINE u == [dev |-> d, tx |-> stz[idx].tx]
             n == Len(units)
             U == 1..n
  <2>1. /\ units' = Append(units, u)
        /\ used' = IF ByFd THEN used ELSE used \union {d}
        /\ txIdx' = IF stz[idx].tx THEN n + 1 ELSE txIdx
        /\ idx' = idx + 1
        /\ conf' = conf /\ dev' = dev /\ stz' = stz /\ fds' = fds /\ step' = step
        /\ lot' = lot
    BY <1>2 DEF ClaimUnit
  <2>2. BindTypeOK /\ Claims BY DEF ABInv
  <2>3. /\ idx \in Nat /\ idx >= 1 /\ used \subseteq Devices /\ n \in Nat /\ Len(stz) \in Nat
        /\ units \in Seq(BindUnit) /\ stz \in Seq(BindStanza) /\ txIdx \in Nat /\ n < idx
    BY <2>2, LenProperties DEF BindTypeOK, Claims
  <2>4. stz[idx] \in BindStanza
    <3>1. idx \in 1..Len(stz) BY <2>3
    <3> QED BY <2>3, <3>1, ElementOfSeq
  <2>5. u \in BindUnit /\ u.dev = d /\ u.tx = stz[idx].tx BY <2>4 DEF BindUnit, BindStanza
  <2> HIDE DEF u
  <2>6. /\ units' \in Seq(BindUnit) /\ Len(units') = n + 1 /\ units'[n + 1] = u
        /\ \A i \in U : units'[i] = units[i]
    BY <2>1, <2>3, <2>5, AppendProperties
  <2>7. \A i \in U : units[i].dev \in Devices /\ units[i].dev \in Nat
    <3>1. \A i \in U : units[i] \in BindUnit BY <2>3, ElementOfSeq
    <3> QED BY <3>1, DevicesAre DEF BindUnit
  <2>8. BindTypeOK'
    <3>1. used' \in SUBSET Devices BY <2>1, <2>3
    <3>2. txIdx' \in Nat /\ idx' \in Nat BY <2>1, <2>3
    <3> QED BY <2>1, <2>2, <2>6, <3>1, <3>2 DEF BindTypeOK
  <2>9. idx' >= 1 /\ idx' <= Len(stz') + 1 /\ Len(units') < idx' BY <2>1, <2>3, <2>6
  <2>10. \A i \in U : units[i].dev # d
    <3>1. DOMAIN units = U BY <2>3, LenProperties
    <3> QED BY <1>2, <3>1 DEF Claimed
  <2>11. 1..(n + 1) = U \cup {n + 1} /\ n + 1 \notin U BY <2>3
  <2>12. Apart(units')
    <3> SUFFICES ASSUME NEW i \in 1..(n + 1), NEW j \in 1..(n + 1),
                        units'[i].dev = units'[j].dev
                 PROVE  i = j
      BY <2>6 DEF Apart
    <3>1. Apart(units) BY <2>2 DEF Claims
    <3> HIDE DEF U
    <3>2. CASE i \in U /\ j \in U BY <2>6, <3>1, <3>2 DEF Apart, U
    <3>3. CASE i = n + 1 /\ j \in U BY <2>5, <2>6, <2>10, <3>3
    <3>4. CASE i \in U /\ j = n + 1 BY <2>5, <2>6, <2>10, <3>4
    <3> QED BY <2>11, <3>2, <3>3, <3>4
  <2>13. ByFd' <=> ByFd BY <2>1 DEF ByFd
  <2>14. CASE conf.auto
    <3>1. /\ txIdx = 0 /\ stz = [i \in Found |-> RxStanza]
          /\ ~ByFd => \A i \in U : units[i].dev \in used
      BY <2>2, <2>14 DEF Claims
    <3>2. ~stz[idx].tx
      <4>1. idx \in Found
        <5>1. DOMAIN stz = Found /\ DOMAIN stz = 1..Len(stz) BY <2>3, <3>1, LenProperties
        <5> QED BY <2>3, <5>1
      <4> QED BY <3>1, <4>1 DEF RxStanza
    <3>3. txIdx' = 0 BY <2>1, <3>1, <3>2
    <3> HIDE DEF U, n
    <3>4. Found' = Found BY <2>1 DEF Found
    <3>5. ~ByFd' => \A i \in 1..(n + 1) : units'[i].dev \in used'
      <4>1. ~ByFd => units'[n + 1].dev \in used' BY <2>1, <2>5, <2>6
      <4>2. ~ByFd => \A i \in U : units'[i].dev \in used' BY <2>1, <2>6, <3>1
      <4> QED BY <2>11, <2>13, <4>1, <4>2
    <3>6. fds' = conf'.fds BY <2>1, <2>2 DEF Claims
    <3>7. Claims' BY <2>1, <2>6, <2>9, <2>12, <2>14, <3>1, <3>3, <3>4, <3>5, <3>6 DEF Claims
    <3>8. ~(conf.rxOnly /\ conf.knob) BY <2>14 DEF ABInv
    <3> QED BY <2>1, <2>8, <3>7, <3>8 DEF ABInv, OneUplink, Up, ValidConfigFlies
  <2>15. CASE ~conf.auto
    <3>1. /\ stz = conf.stanzas /\ Acceptable(stz) /\ n + 1 = idx /\ Roles
          /\ used = {units[i].dev : i \in U} /\ fds = conf.fds
          /\ \A i \in U : /\ StrictAt(stz[i]) => units[i].dev = stz[i].bus
                          /\ units[i].dev \in StrictPins => units[i].dev = stz[i].bus
      BY <2>2, <2>15 DEF Claims
    <3>2. ~ByFd /\ used' = used \cup {d} BY <2>1, <2>15
    <3>3. Acceptable(stz)' BY <2>1, <3>1 DEF Acceptable
    <3>4. PICK x \in 0..Len(stz) : \A i \in 1..Len(stz) : stz[i].tx <=> i = x
      <4>1. TxCount(stz) <= 1 BY <3>1 DEF Acceptable
      <4> QED BY <2>3, <4>1, OneTx
    <3>5. U \subseteq 1..Len(stz) /\ idx \in 1..Len(stz) BY <2>3, <3>1
    <3>6. /\ txIdx <= n
          /\ \A i \in U : (units[i].tx <=> stz[i].tx) /\ (units[i].tx <=> i = txIdx)
      BY <3>1 DEF Roles
    <3> HIDE DEF U, n
    <3>7. txIdx' <= n + 1 BY <2>1, <2>3, <3>6
    <3>8. ASSUME NEW i \in 1..(n + 1)
          PROVE  (units'[i].tx <=> stz[i].tx) /\ (units'[i].tx <=> i = txIdx')
      <4>1. CASE i = n + 1
        <5>1. units'[i].tx = stz[i].tx BY <2>5, <2>6, <3>1, <4>1
        <5>2. CASE stz[i].tx BY <2>1, <3>1, <4>1, <5>1, <5>2
        <5>3. CASE ~stz[i].tx
          <6>1. txIdx' = txIdx BY <2>1, <3>1, <4>1, <5>3
          <6>2. txIdx' # i BY <2>3, <3>6, <4>1, <6>1
          <6> QED BY <5>1, <5>3, <6>2
        <5> QED BY <5>2, <5>3
      <4>2. CASE i \in U
        <5>1. units'[i] = units[i] /\ i # n + 1 BY <2>6, <2>11, <4>2
        <5>2. CASE stz[idx].tx
          <6>1. ~stz[i].tx BY <3>1, <3>4, <3>5, <4>2, <5>1, <5>2
          <6> QED BY <2>1, <3>6, <4>2, <5>1, <5>2, <6>1
        <5>3. CASE ~stz[idx].tx BY <2>1, <3>6, <4>2, <5>1, <5>3
        <5> QED BY <5>2, <5>3
      <4> QED BY <2>11, <4>1, <4>2
    <3>9. Roles' BY <2>1, <2>6, <3>7, <3>8 DEF Roles
    <3>10. used' = {units'[i].dev : i \in 1..(n + 1)}
      <4>1. \A i \in U : units'[i].dev = units[i].dev BY <2>6
      <4>2. units'[n + 1].dev = d BY <2>5, <2>6
      <4> QED BY <2>11, <3>1, <3>2, <4>1, <4>2
    <3>11. StrictPins' = StrictPins BY <2>1 DEF StrictPins
    <3>12. \A i \in 1..(n + 1) :
             /\ StrictAt(stz[i]) => units'[i].dev = stz[i].bus
             /\ units'[i].dev \in StrictPins => units'[i].dev = stz[i].bus
      <4> HIDE DEF StrictAt
      <4>1. \A i \in U : units'[i].dev = units[i].dev BY <2>6
      <4>2. units'[n + 1].dev = d BY <2>5, <2>6
      <4> QED BY <2>11, <2>15, <3>1, <4>1, <4>2
    <3>13. fds' = conf'.fds BY <2>1, <3>1
    <3>14. Len(units') + 1 = idx' BY <2>1, <2>3, <2>6, <3>1
    <3>15. Claims'
      BY <2>1, <2>6, <2>9, <2>12, <2>15, <3>1, <3>3, <3>9, <3>10, <3>11, <3>12, <3>13, <3>14
      DEF Claims
    <3> QED BY <2>1, <2>8, <2>15, <3>15 DEF ABInv, OneUplink, Up, ValidConfigFlies
  <2> QED BY <2>14, <2>15
<1> QED BY <1>1, <1>2

\* A claim by descriptor keeps the invariant: only auto has descriptors, and one of a device
\* that is already claimed is refused or passed over.
LEMMA ClaimByFdKeeps == ABInv /\ ClaimByFd => ABInv'
<1> SUFFICES ASSUME ABInv, ClaimByFd PROVE ABInv' OBVIOUS
<1>1. step = "claim" /\ idx <= Len(stz) /\ ByFd /\ BindTypeOK /\ Claims
  BY DEF ClaimByFd, ABInv
<1>2. fds = conf.fds /\ conf.fds # << >> /\ conf.auto /\ fds \in Seq(Devices)
  <2>1. fds = conf.fds BY <1>1 DEF Claims
  <2>2. conf.fds # << >> BY <1>1, <2>1 DEF ByFd
  <2> QED BY <1>1, <2>1, <2>2 DEF BindTypeOK
<1>3. fds[idx] \in Devices
  <2>1. /\ stz = [i \in Found |-> RxStanza] /\ idx \in Nat /\ idx >= 1
        /\ stz \in Seq(BindStanza) /\ Found = 1..Len(fds)
    BY <1>1, <1>2 DEF Claims, BindTypeOK, Found
  <2>2. DOMAIN stz = 1..Len(fds) /\ DOMAIN stz = 1..Len(stz) /\ Len(stz) \in Nat
    BY <2>1, LenProperties
  <2>3. idx \in 1..Len(fds) BY <1>1, <2>1, <2>2
  <2> QED BY <1>2, <2>3, ElementOfSeq
<1>4. ~ValidArray BY <1>2 DEF ValidArray
<1>5. CASE dev[fds[idx]].fate = "noopen"
  <2>1. Refuse BY <1>5 DEF ClaimByFd
  <2> QED BY <1>4, <2>1, RefuseKeeps
<1>6. CASE dev[fds[idx]].fate # "noopen"
  <2>1. ClaimUnit(fds[idx]) BY <1>6 DEF ClaimByFd
  <2> QED BY <1>1, <1>2, <1>3, <2>1, ClaimUnitKeeps
<1> QED BY <1>5, <1>6

\* A claim by path keeps the invariant: what it takes is free, and reserved only for it.
LEMMA ClaimByPathKeeps == ABInv /\ ClaimByPath => ABInv'
<1> SUFFICES ASSUME ABInv, ClaimByPath PROVE ABInv' OBVIOUS
<1> DEFINE s == stz[idx]
           S == Claimable(s)
           d == First(S)
<1>1. step = "claim" /\ idx <= Len(stz) /\ ~ByFd /\ BindTypeOK /\ Claims
  BY DEF ClaimByPath, ABInv
<1>2. S \subseteq Devices \ used BY DEF Claimable, Free
<1>3. CASE S = {} \/ dev[d].fate = "noopen"
  <2>1. SkipOrFail({}) BY <1>3 DEF ClaimByPath
  <2>2. ~ValidArray
    <3>1. CASE S = {} BY <1>1, <3>1, ClaimGoes
    <3>2. CASE S # {}
      <4>1. d \in Devices BY <1>2, <3>2, FirstIn
      <4>2. dev[d].fate = "noopen" BY <1>3, <3>2
      <4> HIDE DEF d
      <4> QED BY <4>1, <4>2 DEF ValidArray
    <3> QED BY <3>1, <3>2
  <2>3. {} \in SUBSET Devices OBVIOUS
  <2> QED BY <1>1, <2>1, <2>2, <2>3, SkipKeeps
<1>4. CASE ~(S = {} \/ dev[d].fate = "noopen")
  <2>1. ClaimUnit(d) BY <1>4 DEF ClaimByPath
  <2>2. d \in S
    <3>1. S \in SUBSET Devices /\ S # {} BY <1>2, <1>4
    <3> HIDE DEF S
    <3> QED BY <3>1, FirstIn
  <2>3. d \in Devices /\ d \notin used BY <1>2, <2>2
  <2> HIDE DEF d
  <2>4. StrictAt(s) => d = s.bus BY <2>2 DEF Claimable, StrictAt, Path
  <2>5. d \in StrictPins => d = s.bus BY <2>2 DEF Claimable, Free, Path
  <2> HIDE DEF S
  <2> QED BY <1>1, <2>1, <2>3, <2>4, <2>5, ClaimUnitKeeps
<1> QED BY <1>3, <1>4

\* The end of the claim loop keeps the invariant.
LEMMA TrimKeeps == ABInv /\ Trim => ABInv'
<1> SUFFICES ASSUME ABInv, Trim PROVE ABInv' OBVIOUS
<1> DEFINE n == Len(units)
<1>1. step = "claim" /\ idx > Len(stz) /\ BindTypeOK /\ Claims BY DEF Trim, ABInv
<1>2. /\ idx \in Nat /\ n \in Nat /\ Len(stz) \in Nat /\ n < idx /\ idx <= Len(stz) + 1
      /\ units \in Seq(BindUnit) /\ stz \in Seq(BindStanza) /\ Apart(units)
  BY <1>1, LenProperties DEF BindTypeOK, Claims
<1>3. ~conf.auto => stz = conf.stanzas /\ Acceptable(stz) /\ n + 1 = idx /\ Roles
  BY <1>1 DEF Claims
<1>4. CASE units = << >>
  <2>1. Refuse BY <1>4 DEF Trim
  <2>2. ~ValidArray
    <3> SUFFICES ASSUME ~conf.auto PROVE FALSE BY DEF ValidArray
    <3>1. stz # << >> BY <1>3 DEF Acceptable
    <3>2. Len(stz) # 0 BY <1>2, <3>1, EmptySeq
    <3>3. n = 0 BY <1>4, EmptySeq
    <3> QED BY <1>1, <1>2, <1>3, <3>2, <3>3
  <2> QED BY <2>1, <2>2, RefuseKeeps
<1>5. CASE units # << >>
  <2>1. /\ stz' = SubSeq(stz, 1, n) /\ step' = "bringup"
        /\ conf' = conf /\ dev' = dev /\ units' = units /\ used' = used /\ idx' = idx
        /\ txIdx' = txIdx /\ lot' = lot
    BY <1>5 DEF Trim
  <2>2. stz' \in Seq(BindStanza) /\ Len(stz') = n
    <3>1. \A i \in 1..n : stz[i] \in BindStanza
      <4>1. 1..n \subseteq 1..Len(stz) BY <1>2
      <4> QED BY <1>2, <4>1, ElementOfSeq
    <3>2. 1 \in Int /\ n \in Int /\ n # 0 BY <1>2, <1>5, EmptySeq
    <3>3. SubSeq(stz, 1, n) \in Seq(BindStanza)
          /\ Len(SubSeq(stz, 1, n)) = IF 1 <= n THEN n - 1 + 1 ELSE 0
      BY <3>1, <3>2, SubSeqProperties
    <3> QED BY <1>2, <2>1, <3>2, <3>3
  <2>3. ~conf.auto => stz' = stz
    <3> SUFFICES ASSUME ~conf.auto PROVE stz' = stz OBVIOUS
    <3>1. n = Len(stz) BY <1>1, <1>2, <1>3
    <3> QED BY <1>2, <2>1, <3>1, SubSeqFull
  <2>4. BindTypeOK' BY <1>1, <2>1, <2>2 DEF BindTypeOK
  <2>5. ~conf.auto => stz' = conf.stanzas /\ Acceptable(stz)' /\ Roles'
    BY <1>3, <2>1, <2>3 DEF Acceptable, Roles
  <2>6. conf.auto => ~(conf.rxOnly /\ conf.knob) BY <1>1 DEF ABInv
  <2> QED BY <1>2, <1>5, <2>1, <2>2, <2>4, <2>5, <2>6
          DEF ABInv, OneUplink, Up, ValidConfigFlies
<1> QED BY <1>4, <1>5

\* Bring-up keeps the invariant: the array form goes on with all its units or not at all.
LEMMA BringUpKeeps == ABInv /\ BringUp => ABInv'
<1> SUFFICES ASSUME ABInv, BringUp PROVE ABInv' OBVIOUS
<1> DEFINE up == {i \in DOMAIN units : dev[units[i].dev].fate # "throws"}
           n == Len(units)
<1>1. /\ step = "bringup" /\ BindTypeOK /\ Apart(units) /\ units # << >> /\ Len(stz) = n
      /\ ~conf.auto => stz = conf.stanzas /\ Acceptable(stz) /\ Roles
  BY DEF BringUp, ABInv
<1>2. /\ units \in Seq(BindUnit) /\ stz \in Seq(BindStanza) /\ dev \in [Devices -> Dies]
  BY <1>1 DEF BindTypeOK
<1>3. n \in Nat /\ DOMAIN units = 1..n /\ DOMAIN stz = 1..n /\ n # 0
  BY <1>1, <1>2, LenProperties, EmptySeq
<1>4. up \in SUBSET (1..n) BY <1>3
<1>5. CASE ~conf.chanOk \/ (up # DOMAIN units /\ (~conf.auto \/ up = {}))
  <2>1. Refuse BY <1>5 DEF BringUp
  <2>2. ~ValidArray
    <3> SUFFICES ASSUME \A d \in Devices : dev[d].fate = "ok", conf.chanOk PROVE up = DOMAIN units
      BY <1>5 DEF ValidArray
    <3>1. \A i \in 1..n : units[i] \in BindUnit BY <1>2, ElementOfSeq
    <3>2. \A i \in 1..n : units[i].dev \in Devices BY <3>1 DEF BindUnit
    <3> QED BY <1>3, <3>2
  <2> QED BY <2>1, <2>2, RefuseKeeps
<1>6. CASE ~(~conf.chanOk \/ (up # DOMAIN units /\ (~conf.auto \/ up = {})))
  <2>1. /\ units' = Selected(units, up) /\ stz' = Selected(stz, up)
        /\ step' = IF conf.auto THEN "elect" ELSE "rebind"
        /\ conf' = conf /\ dev' = dev /\ used' = used /\ idx' = idx /\ txIdx' = txIdx
        /\ lot' = {units[i].dev : i \in up}
    BY <1>6 DEF BringUp
  <2>2. ~conf.auto => up = 1..n BY <1>3, <1>6
  <2>3. up # {}
    <3>1. up = DOMAIN units \/ up # {} BY <1>6
    <3>2. DOMAIN units # {} BY <1>3
    <3> QED BY <3>1, <3>2
  <2> HIDE DEF up
  <2>4. /\ units' \in Seq(BindUnit) /\ stz' \in Seq(BindStanza)
        /\ ~conf.auto => units' = units /\ stz' = stz
    BY <1>1, <1>2, <1>4, <2>1, <2>2, SelectedLists
  <2>5. Apart(units') /\ units' # << >> BY <1>1, <1>2, <1>4, <2>1, <2>3, SelectedApart
  <2>8. lot' \in SUBSET Devices /\ lot' = {units'[i].dev : i \in 1..Len(units')}
    <3>1. \A i \in 1..n : units[i] \in BindUnit BY <1>2, ElementOfSeq
    <3>2. \A i \in 1..n : units[i].dev \in Devices BY <3>1 DEF BindUnit
    <3> DEFINE q == Selected(units, up)
    <3>3. \E e : Enumerates(e, Len(q), up) /\ \A i \in 1..Len(q) : q[i] = units[e[i]]
      BY <1>2, <1>4, SelectedLists
    <3>4. PICK e : Enumerates(e, Len(q), up) /\ \A i \in 1..Len(q) : q[i] = units[e[i]]
      BY <3>3
    <3> HIDE DEF q
    <3>5. /\ \A i \in 1..Len(q) : e[i] \in up /\ q[i].dev = units[e[i]].dev
          /\ \A x \in up : \E i \in 1..Len(q) : e[i] = x
      BY <3>4 DEF Enumerates
    <3>6. {units[i].dev : i \in up} = {q[i].dev : i \in 1..Len(q)} BY <3>5
    <3>7. units' = q BY <2>1 DEF q
    <3> QED BY <1>4, <2>1, <3>2, <3>6, <3>7
  <2>6. BindTypeOK' BY <1>1, <2>1, <2>4, <2>8 DEF BindTypeOK
  <2>9. conf.auto => ~(conf.rxOnly /\ conf.knob) BY <1>1 DEF ABInv
  <2>7. ~conf.auto => stz' = conf.stanzas /\ Acceptable(stz)' /\ Roles' /\ Len(stz') = Len(units')
    BY <1>1, <2>1, <2>4 DEF Acceptable, Roles
  <2> QED BY <2>1, <2>5, <2>6, <2>7, <2>8, <2>9 DEF ABInv, OneUplink, Up, ValidConfigFlies
<1> QED BY <1>5, <1>6

\* The election keeps the invariant: the winner is never released, and it alone transmits.
LEMMA ElectKeeps == ABInv /\ Elect => ABInv'
<1> SUFFICES ASSUME ABInv, Elect PROVE ABInv' OBVIOUS
<1> DEFINE n == Len(units)
           keep == IF conf.cap = 0 THEN DOMAIN units ELSE BestOf(conf.cap)
           best == CHOOSE i \in DOMAIN units : Ahead(i) = {}
           Stamped == [i \in DOMAIN units |->
                         [dev |-> units[i].dev, tx |-> i = best /\ ~conf.rxOnly]]
           kept == Selected(Stamped, keep)
           m == Len(kept)
<1>1. /\ step = "elect" /\ BindTypeOK /\ conf.auto /\ Apart(units) /\ units # << >>
      /\ lot = {units[i].dev : i \in 1..n} /\ ~(conf.rxOnly /\ conf.knob)
  BY DEF Elect, ABInv
<1>2. /\ units' = kept
      /\ stz' = [i \in DOMAIN kept |-> [mac |-> Mac(kept[i].dev), bus |-> None0,
                                        tx |-> kept[i].tx]]
      /\ txIdx' = IF \E i \in DOMAIN kept : kept[i].tx
                  THEN CHOOSE i \in DOMAIN kept : kept[i].tx ELSE 0
      /\ step' = "up" /\ conf' = conf /\ dev' = dev /\ used' = used /\ idx' = idx /\ lot' = lot
  BY DEF Elect
<1>3. /\ units \in Seq(BindUnit) /\ dev \in [Devices -> Dies] /\ conf.cap \in Nat
      /\ conf.rxOnly \in BOOLEAN
  BY <1>1 DEF BindTypeOK
<1>4. n \in Nat /\ DOMAIN units = 1..n BY <1>3, LenProperties
<1>5. /\ best \in 1..n /\ Ahead(best) = {}
      /\ \A j \in 1..n : j # best => Beats(best, j)
  <2>1. \E i \in 1..n : Ahead(i) = {} BY <1>1, <1>3, BestExists
  <2>2. best \in 1..n /\ Ahead(best) = {} BY <1>4, <2>1
  <2> HIDE DEF best
  <2> QED BY <1>1, <1>3, <2>2, BestExists
<1> HIDE DEF best
<1>6. keep \in SUBSET (1..n) /\ best \in keep
  <2>1. CASE conf.cap = 0 BY <1>4, <1>5, <2>1
  <2>2. CASE conf.cap # 0
    <3>1. Cardinality(Ahead(best)) = 0 BY <1>5, FS_EmptySet
    <3>2. 0 < conf.cap BY <1>3, <2>2
    <3>3. Cardinality(Ahead(best)) < conf.cap BY <3>1, <3>2
    <3>4. best \in BestOf(conf.cap) BY <1>4, <1>5, <3>3, Zenon DEF BestOf
    <3> QED BY <1>4, <2>2, <3>4 DEF BestOf
  <2> QED BY <2>1, <2>2
<1>23. /\ \A i \in keep, j \in (1..n) \ keep : Beats(i, j)
       /\ conf.cap # 0 => Cardinality(keep) <= conf.cap
       /\ keep # 1..n => conf.cap # 0 /\ Cardinality(keep) = conf.cap
  <2>1. CASE conf.cap = 0 BY <1>4, <2>1
  <2>2. CASE conf.cap # 0
    <3>1. conf.cap \in Nat \ {0} /\ keep = BestOf(conf.cap) BY <1>3, <2>2
    <3>2. /\ IsFiniteSet(keep)
          /\ \A i \in keep, j \in (1..n) \ keep : Beats(i, j)
          /\ Cardinality(keep) <= conf.cap
          /\ keep # 1..n => Cardinality(keep) >= conf.cap
      BY <1>1, <1>3, <3>1, BestOfKeeps
    <3> HIDE DEF keep
    <3>3. Cardinality(keep) \in Nat BY <3>2, FS_CardinalityType
    <3> QED BY <1>3, <2>2, <3>2, <3>3
  <2> QED BY <2>1, <2>2
<1> HIDE DEF keep
<1>7. \A i \in 1..n : units[i].dev \in Devices
  <2>1. \A i \in 1..n : units[i] \in BindUnit BY <1>3, ElementOfSeq
  <2> QED BY <2>1 DEF BindUnit
<1>8. /\ Stamped \in Seq(BindUnit) /\ Len(Stamped) = n
      /\ \A i \in 1..n : /\ Stamped[i].dev = units[i].dev
                         /\ Stamped[i].tx <=> i = best /\ ~conf.rxOnly
  <2>1. Stamped \in [1..n -> BindUnit]
    <3>1. \A i \in 1..n : (i = best /\ ~conf.rxOnly) \in BOOLEAN OBVIOUS
    <3> QED BY <1>4, <1>7, <3>1 DEF BindUnit
  <2>2. DOMAIN Stamped = 1..n BY <1>4
  <2>3. Stamped \in Seq(BindUnit) /\ Len(Stamped) = n
    <3> HIDE DEF Stamped
    <3>1. Stamped \in Seq(BindUnit) BY <1>4, <2>1
    <3>2. Len(Stamped) \in Nat /\ DOMAIN Stamped = 1..Len(Stamped) BY <3>1, LenProperties
    <3>3. 1..n = 1..Len(Stamped) BY <2>2, <3>2
    <3>4. n = Len(Stamped)
      <4> DEFINE L == Len(Stamped)
      <4>1. L \in Nat /\ n \in Nat /\ 1..n = 1..L BY <1>4, <3>2, <3>3
      <4> HIDE DEF L, n
      <4> QED BY <4>1 DEF L
    <3> QED BY <3>1, <3>4
  <2> QED BY <1>4, <2>3
<1> HIDE DEF Stamped
<1>9. /\ kept \in Seq(BindUnit)
      /\ \E e : Enumerates(e, m, keep) /\ \A i \in 1..m : kept[i] = Stamped[e[i]]
  BY <1>6, <1>8, SelectedLists
<1> HIDE DEF kept
<1>10. PICK e : Enumerates(e, m, keep) /\ \A i \in 1..m : kept[i] = Stamped[e[i]] BY <1>9
<1>11. m \in Nat /\ DOMAIN kept = 1..m BY <1>9, LenProperties
<1>12. \A i \in 1..m : e[i] \in 1..n BY <1>6, <1>10 DEF Enumerates
<1>13. \A i, j \in 1..m : e[i] = e[j] => i = j
  <2> SUFFICES ASSUME NEW i \in 1..m, NEW j \in 1..m, e[i] = e[j] PROVE i = j OBVIOUS
  <2>1. e[i] \in Nat /\ e[j] \in Nat BY <1>12
  <2>2. (i < j => e[i] < e[j]) /\ (j < i => e[j] < e[i]) BY <1>10 DEF Enumerates
  <2> QED BY <1>11, <2>1, <2>2
<1>14. PICK x \in 1..m : e[x] = best BY <1>6, <1>10 DEF Enumerates
<1>15. \A i \in 1..m : /\ kept[i].dev = units[e[i]].dev
                       /\ kept[i].tx <=> i = x /\ ~conf.rxOnly
  <2> TAKE i \in 1..m
  <2>1. kept[i] = Stamped[e[i]] /\ e[i] \in 1..n BY <1>10, <1>12
  <2>2. e[i] = best <=> i = x BY <1>13, <1>14
  <2> QED BY <1>8, <2>1, <2>2
<1>16. /\ txIdx' = (IF conf.rxOnly THEN 0 ELSE x) /\ x # 0
  <2>1. CASE conf.rxOnly
    <3>1. ~ \E i \in 1..m : kept[i].tx BY <1>15, <2>1
    <3> QED BY <1>2, <1>11, <2>1, <3>1
  <2>2. CASE ~conf.rxOnly
    <3>1. \A i \in 1..m : kept[i].tx <=> i = x BY <1>15, <2>2
    <3>2. (CHOOSE i \in 1..m : kept[i].tx) = x BY <3>1
    <3> QED BY <1>2, <1>11, <2>2, <3>1, <3>2
  <2> QED BY <2>1, <2>2
<1>17. stz' \in Seq(BindStanza) /\ Len(stz') = m /\ \A i \in 1..m : stz'[i].tx = kept[i].tx
  <2>1. \A i \in 1..m : kept[i] \in BindUnit BY <1>9, ElementOfSeq
  <2>2. \A i \in 1..m : Mac(kept[i].dev) \in Nat /\ kept[i].tx \in BOOLEAN
    BY <2>1, DevicesAre DEF BindUnit, Mac, None0
  <2>3. /\ stz' \in [1..m -> BindStanza] /\ DOMAIN stz' = 1..m
        /\ \A i \in 1..m : stz'[i].tx = kept[i].tx
    BY <1>2, <1>11, <2>2 DEF BindStanza, None0
  <2>4. stz' \in Seq(BindStanza) BY <1>11, <2>3
  <2>5. Len(stz') \in Nat /\ DOMAIN stz' = 1..Len(stz') BY <2>4, LenProperties
  <2> QED BY <1>11, <2>3, <2>4, <2>5
<1>18. BindTypeOK'
  <2>1. txIdx' \in Nat BY <1>11, <1>16
  <2> QED BY <1>1, <1>2, <1>9, <1>17, <2>1 DEF BindTypeOK
<1>19. DOMAIN units' = 1..m /\ Len(units') = m BY <1>2, <1>11
<1>20. \A i, j \in 1..m : kept[i].dev = kept[j].dev => i = j
  <2> SUFFICES ASSUME NEW i \in 1..m, NEW j \in 1..m, kept[i].dev = kept[j].dev PROVE i = j
    OBVIOUS
  <2>1. units[e[i]].dev = units[e[j]].dev /\ e[i] \in 1..n /\ e[j] \in 1..n BY <1>12, <1>15
  <2>2. e[i] = e[j] BY <1>1, <2>1 DEF Apart
  <2> QED BY <1>13, <2>2
<1>21. BestKept'
  <2>1. Claimed' = {units[k].dev : k \in keep}
    <3>1. Claimed' = {kept[i].dev : i \in 1..m} BY <1>2, <1>11 DEF Claimed
    <3>2. \A k \in keep : \E i \in 1..m : e[i] = k BY <1>10 DEF Enumerates
    <3>3. \A i \in 1..m : e[i] \in keep BY <1>10 DEF Enumerates
    <3> QED BY <1>15, <3>1, <3>2, <3>3
  <2>2. Claimed' \subseteq lot' BY <1>1, <1>2, <1>6, <2>1
  <2>3. m = Cardinality(keep)
    <3>1. keep \in SUBSET Nat BY <1>6
    <3> QED BY <1>10, <1>11, <3>1, EnumerationCounts
  <2>4. \A a \in Claimed', d \in lot' \ Claimed' : Outranks(a, d)'
    <3> SUFFICES ASSUME NEW a \in Claimed', NEW d \in lot' \ Claimed' PROVE Outranks(a, d)'
      OBVIOUS
    <3>1. PICK k \in keep : a = units[k].dev BY <2>1
    <3>2. PICK j \in 1..n : d = units[j].dev BY <1>1, <1>2
    <3>3. j \notin keep BY <2>1, <3>2
    <3>4. Beats(k, j) BY <1>23, <3>2, <3>3
    <3>5. Outranks(a, d) BY <3>1, <3>2, <3>4 DEF Beats
    <3> QED BY <1>2, <3>5 DEF Outranks
  <2>5. conf'.cap # 0 => Len(units') <= conf'.cap BY <1>2, <1>19, <1>23, <2>3
  <2>6. Claimed' # lot' => Len(units') = conf'.cap
    <3> SUFFICES ASSUME Claimed' # lot' PROVE m = conf.cap BY <1>2, <1>19
    <3>1. keep # 1..n BY <1>1, <1>2, <2>1
    <3> QED BY <1>23, <2>3, <3>1
  <2>7. txIdx' # 0 => \A d \in lot' : d # units'[txIdx'].dev => Outranks(units[txIdx].dev, d)'
    <3> SUFFICES ASSUME txIdx' # 0, NEW d \in lot', d # units'[txIdx'].dev
                 PROVE  Outranks(units[txIdx].dev, d)'
      OBVIOUS
    <3>1. txIdx' = x BY <1>16
    <3>2. units'[x].dev = units[best].dev BY <1>2, <1>14, <1>15
    <3>3. PICK j \in 1..n : d = units[j].dev BY <1>1, <1>2
    <3>4. j # best BY <3>1, <3>2, <3>3
    <3>5. Outranks(units[best].dev, d) BY <1>5, <3>3, <3>4 DEF Beats
    <3> QED BY <1>2, <3>1, <3>2, <3>5 DEF Outranks
  <2> QED BY <2>2, <2>4, <2>5, <2>6, <2>7 DEF BestKept
<1>22. OneUplink'
  <2>1. \A i \in 1..m : units'[i].tx <=> i = txIdx' BY <1>2, <1>11, <1>15, <1>16
  <2>2. txIdx' # 0 => stz'[txIdx'].tx BY <1>15, <1>16, <1>17
  <2>3. txIdx' = 0 => conf'.rxOnly /\ ~conf'.knob BY <1>1, <1>2, <1>16
  <2>5. \A i, j \in 1..m : units'[i].dev = units'[j].dev => i = j BY <1>2, <1>20
  <2> QED BY <1>17, <1>19, <1>21, <2>1, <2>2, <2>3, <2>5 DEF OneUplink
<1> QED BY <1>2, <1>18, <1>22 DEF ABInv, ValidConfigFlies

\* Re-binding keeps the invariant: no unit goes to two stanzas and the tx stanza's one injects.
LEMMA RebindKeeps == ABInv /\ Rebind => ABInv'
<1> SUFFICES ASSUME ABInv, Rebind PROVE ABInv' OBVIOUS
<1> DEFINE n == Len(stz)
<1>1. /\ step = "rebind" /\ BindTypeOK /\ ~conf.auto /\ Apart(units) /\ n = Len(units)
      /\ stz = conf.stanzas /\ Acceptable(stz) /\ Roles
  BY DEF Rebind, ABInv
<1>2. /\ units' = IF AnyMacPin THEN [i \in DOMAIN stz |-> FinalRole(Rebound[i], i)] ELSE units
      /\ txIdx' = IF AnyMacPin /\ TxCount(stz) = 1
                  THEN CHOOSE i \in DOMAIN stz : stz[i].tx ELSE txIdx
      /\ step' = "up" /\ conf' = conf /\ dev' = dev /\ stz' = stz /\ used' = used /\ idx' = idx
      /\ lot' = lot
  BY DEF Rebind
<1>3. /\ units \in Seq(BindUnit) /\ stz \in Seq(BindStanza) /\ txIdx \in Nat
      /\ conf.stanzas \in Stanzas
  BY <1>1 DEF BindTypeOK
<1>4. n \in Nat /\ DOMAIN stz = 1..n /\ DOMAIN units = 1..n BY <1>1, <1>3, LenProperties
<1>5. TxCount(stz) <= 1 /\ (TxCount(stz) = 1 \/ (conf.rxOnly /\ ~conf.knob))
  BY <1>1 DEF Acceptable
<1>6. PICK x \in 0..n : /\ \A i \in 1..n : stz[i].tx <=> i = x
                        /\ x = 0 <=> TxCount(stz) # 1
  BY <1>3, <1>5, OneTx
<1>7. x \in Nat /\ (x # 0 => x \in 1..n) BY <1>4
<1>11. txIdx = x
  <2>1. \A i \in 1..n : (units[i].tx <=> stz[i].tx) /\ (units[i].tx <=> i = txIdx)
    BY <1>1 DEF Roles
  <2>2. txIdx \in 0..n BY <1>1, <1>3, <1>4 DEF Roles
  <2>3. \A i \in 1..n : i = x <=> i = txIdx BY <1>6, <2>1
  <2> QED BY <1>4, <1>7, <2>2, <2>3
<1>8. /\ units' \in Seq(BindUnit) /\ Len(units') = n /\ DOMAIN units' = 1..n /\ txIdx' = x
      /\ \A i \in 1..n : units'[i].tx <=> i = x
      /\ \A i, j \in 1..n : units'[i].dev = units'[j].dev => i = j
  <2>1. CASE AnyMacPin
    <3>1. \A i, j \in 1..n : stz[i].mac # 0 /\ stz[i].mac = stz[j].mac => i = j
      BY <1>1, <1>3, <1>4, AdapterBindAssumption
    <3>2. /\ \A i \in 1..n : Rebound[i] \in Devices
          /\ \A i, j \in 1..n : Rebound[i] = Rebound[j] => i = j
      BY <1>1, <1>3, <3>1, ReboundApart
    <3>3. \A i \in 1..n : stz[i].tx \in BOOLEAN
      <4>1. \A i \in 1..n : stz[i] \in BindStanza BY <1>3, ElementOfSeq
      <4> QED BY <4>1 DEF BindStanza
    <3>4. /\ units' \in [1..n -> BindUnit] /\ DOMAIN units' = 1..n
          /\ \A i \in 1..n : units'[i].dev = Rebound[i] /\ units'[i].tx = stz[i].tx
      BY <1>2, <1>4, <2>1, <3>2, <3>3 DEF FinalRole, BindUnit
    <3>5. units' \in Seq(BindUnit) BY <1>4, <3>4
    <3>6. Len(units') \in Nat /\ DOMAIN units' = 1..Len(units') BY <3>5, LenProperties
    <3>7. Len(units') = n BY <1>4, <3>4, <3>6
    <3>8. x # 0 => (CHOOSE i \in 1..n : stz[i].tx) = x BY <1>6, <1>7
    <3>9. txIdx' = x BY <1>2, <1>4, <1>6, <1>11, <2>1, <3>8
    <3> QED BY <1>6, <3>2, <3>4, <3>5, <3>7, <3>9
  <2>2. CASE ~AnyMacPin
    <3>1. units' = units /\ txIdx' = txIdx BY <1>2, <2>2
    <3>2. \A i \in 1..n : (units[i].tx <=> stz[i].tx) /\ (units[i].tx <=> i = txIdx)
      BY <1>1 DEF Roles
    <3> QED BY <1>1, <1>3, <1>4, <1>11, <3>1, <3>2 DEF Apart
  <2> QED BY <2>1, <2>2
<1>9. BindTypeOK' BY <1>1, <1>2, <1>7, <1>8 DEF BindTypeOK
<1>10. OneUplink' BY <1>1, <1>2, <1>5, <1>6, <1>7, <1>8 DEF OneUplink
<1> QED BY <1>2, <1>9, <1>10 DEF ABInv, ValidConfigFlies

\* The binding's invariant holds in every reachable state.
LEMMA BindInvariant == ABSpec => []ABInv
<1>1. ABInv /\ UNCHANGED abVars => ABInv'
  <2> SUFFICES ASSUME ABInv, UNCHANGED abVars PROVE ABInv' OBVIOUS
  <2>1. /\ conf' = conf /\ dev' = dev /\ units' = units /\ stz' = stz /\ fds' = fds
        /\ used' = used /\ lot' = lot /\ step' = step /\ idx' = idx /\ txIdx' = txIdx
    BY DEF abVars
  <2>2. BindTypeOK' BY <2>1 DEF ABInv, BindTypeOK
  <2>3. Acceptable(stz)' <=> Acceptable(stz) BY <2>1 DEF Acceptable
  <2>4. /\ Roles' <=> Roles
        /\ Found' = Found /\ (ByFd' <=> ByFd) /\ StrictPins' = StrictPins
    BY <2>1 DEF Roles, Found, ByFd, StrictPins
  <2>5. Claims' <=> Claims BY <2>1, <2>3, <2>4 DEF Claims
  <2>6. OneUplink' <=> OneUplink
    BY <2>1 DEF OneUplink, BestKept, Claimed, Up, Outranks
  <2>7. ValidConfigFlies' <=> ValidConfigFlies
    BY <2>1 DEF ValidConfigFlies, ValidArray, Acceptable
  <2> QED BY <2>1, <2>2, <2>3, <2>4, <2>5, <2>6, <2>7 DEF ABInv
<1>2. ABInv /\ [ABNext]_abVars => ABInv'
  BY <1>1, ValidateKeeps, ClaimByFdKeeps, ClaimByPathKeeps, TrimKeeps, BringUpKeeps, ElectKeeps,
     RebindKeeps
  DEF ABNext
<1> QED BY <1>2, BindInit, PTL DEF ABSpec

\* BindSound, always: over any devices, descriptors, stanzas and caps, a sound array is never
\* refused, and what comes up has one unit per stanza, no unit twice and exactly the tx
\* stanza's unit injecting; under auto that is the best-ranked unit of those that came up,
\* and the cap releases none that ranks above one it keeps (RadioAir::create, plan_adapters).
THEOREM BindAlwaysSound == ABSpec => []BindSound
<1>1. ABInv => BindSound BY Zenon DEF ABInv, BindSound
<1> QED BY <1>1, BindInvariant, PTL
=============================================================================
