-------------------------- MODULE FrameRingProofs ---------------------------
(***************************************************************************)
(* The shared-memory ring implements the bounded FIFO of FrameQueue for    *)
(* any number of producers, objects, slots and frames, under every         *)
(* interleaving and crash the specification allows.                        *)
(*                                                                         *)
(* The refinement rests on RingInv.  The two indices never drift further   *)
(* apart than the slots; a producer in the middle of a write owns its      *)
(* object alone and still has room, so the slot it tears is outside the    *)
(* readable range; what the consumer copied is the oldest frame as long as *)
(* it has not advanced the read index; and the frame in a producer's hand  *)
(* is in no queue yet.                                                     *)
(***************************************************************************)
EXTENDS FrameRing, SequenceTheorems, TLAPS

Rings == [init : BOOLEAN, w : Nat, r : Nat, seq : Nat, waiting : BOOLEAN,
          slot : [0..Slots - 1 -> Nat]]
ProducerStates == [pc : {"down", "init", "idle", "slot", "publish", "bump",
                         "wake", "unlink"},
                   o : Nat, w : Nat, f : Nat]
MainStates == [pc : {"loop", "join", "copy", "advance"}, o : Nat, r : Nat,
               buf : Nat, pending : BOOLEAN]

RingTypeOK ==
    /\ mem \in [Objects -> Rings]
    /\ created \in 0..MaxObjects /\ name \in 0..created
    /\ offered \in Nat /\ taken \in Nat
    /\ prod \in [Producers -> ProducerStates]
    /\ main \in MainStates
    /\ main.o \in 0..created

\* A live producer maps an object that nobody else will ever write.
Ownership ==
    /\ \A p \in Producers : prod[p].pc # "down" => prod[p].o \in 1..created
    /\ \A p, q \in Producers :
          (p # q /\ prod[p].pc # "down" /\ prod[q].pc # "down")
             => prod[p].o # prod[q].o

\* The indices of a ring bound a range of at most Slots frames.
Between(ring) == ring.r <= ring.w /\ ring.w - ring.r <= Slots

Indices == \A o \in Objects : Between(mem[o])

Writing(p) == prod[p].pc \in {"slot", "publish"}

\* A producer between its check and its publication still has its slot free.
SlotFree == \A p \in Producers : Writing(p) =>
    /\ prod[p].w = mem[prod[p].o].w
    /\ mem[prod[p].o].w - mem[prod[p].o].r < Slots

\* A consumer between its check and its advance still has the oldest frame.
Reading == main.pc \in {"copy", "advance"} =>
    /\ main.o # 0
    /\ main.r = mem[main.o].r /\ mem[main.o].r < mem[main.o].w
    /\ main.pc = "advance" => main.buf = mem[main.o].slot[main.r % Slots]

\* Readable frames were offered; a frame in hand is not readable anywhere and
\* is in no other hand.
FramesNew ==
    /\ \A o \in Objects : \A i \in 1..(mem[o].w - mem[o].r) :
          Frames(mem[o])[i] \in 1..offered
    /\ \A p \in Producers : Writing(p) =>
          /\ prod[p].f \in 1..offered
          /\ \A o \in Objects : \A i \in 1..(mem[o].w - mem[o].r) :
                Frames(mem[o])[i] # prod[p].f
    /\ \A p, q \in Producers :
          (p # q /\ Writing(p) /\ Writing(q)) => prod[p].f # prod[q].f

RingInv == /\ RingTypeOK /\ Ownership /\ Indices /\ SlotFree /\ Reading
           /\ FramesNew

-----------------------------------------------------------------------------
(* Slot arithmetic *)

\* A free-running index always lands in a slot.
LEMMA ModRange ==
  ASSUME NEW S \in Nat \ {0}, NEW n \in Nat
  PROVE  n % S \in 0..S - 1
  OBVIOUS

\* A positive multiple of the slot count is at least the slot count.
LEMMA MulGe ==
  ASSUME NEW S \in Nat \ {0}, NEW q \in Int, q >= 1
  PROVE  S * q >= S
  OBVIOUS

\* Any other multiple is not positive.
LEMMA MulLe ==
  ASSUME NEW S \in Nat \ {0}, NEW q \in Int, q <= 0
  PROVE  S * q <= 0
  OBVIOUS

\* Two indices less than a full turn apart use different slots.
LEMMA ModDistinct ==
  ASSUME NEW S \in Nat \ {0}, NEW a \in Nat, NEW b \in Nat, a < b, b - a < S
  PROVE  a % S # b % S
<1>1. a = S * (a \div S) + (a % S) /\ (a \div S) \in Int /\ a % S \in Int
  OBVIOUS
<1>2. b = S * (b \div S) + (b % S) /\ (b \div S) \in Int /\ b % S \in Int
  OBVIOUS
<1> DEFINE q == (b \div S) - (a \div S)
<1>3. SUFFICES ASSUME a % S = b % S PROVE FALSE
  OBVIOUS
<1>4. S * (b \div S) - S * (a \div S) = S * q
  BY <1>1, <1>2
<1>5. b - a = S * q /\ q \in Int
  BY <1>1, <1>2, <1>3, <1>4
<1> HIDE DEF q
<1>6. QED BY <1>5, MulGe, MulLe

-----------------------------------------------------------------------------
(* The readable range as a sequence *)

\* The readable frames are a sequence whose length is the index distance.
LEMMA FramesSeq ==
  ASSUME NEW ring \in Rings, Between(ring)
  PROVE  /\ Frames(ring) \in Seq(Nat)
         /\ Len(Frames(ring)) = ring.w - ring.r
         /\ \A i \in 1..(ring.w - ring.r) :
               Frames(ring)[i] = ring.slot[(ring.r + i - 1) % Slots]
<1>1. ring.w - ring.r \in Nat BY DEF Between, Rings
<1>2. \A i \in 1..(ring.w - ring.r) : ring.slot[(ring.r + i - 1) % Slots] \in Nat
  <2> TAKE i \in 1..(ring.w - ring.r)
  <2>1. ring.r + i - 1 \in Nat BY <1>1 DEF Rings
  <2>2. (ring.r + i - 1) % Slots \in 0..Slots - 1
    BY <2>1, ModRange, RingAssumption
  <2> QED BY <2>2 DEF Rings
<1> QED BY <1>1, <1>2 DEF Frames

\* Two rings with the same indices and the same readable slots hold the same.
LEMMA FramesSame ==
  ASSUME NEW a \in Rings, NEW b \in Rings, a.w = b.w, a.r = b.r,
         \A i \in 1..(a.w - a.r) : a.slot[(a.r + i - 1) % Slots]
                                     = b.slot[(a.r + i - 1) % Slots]
  PROVE  Frames(a) = Frames(b)
  BY DEF Frames

\* Filling the slot behind the write index leaves the readable slots alone.
LEMMA SlotOutside ==
  ASSUME NEW ring \in Rings, Between(ring), ring.w - ring.r < Slots,
         NEW i \in 1..(ring.w - ring.r)
  PROVE  (ring.r + i - 1) % Slots # ring.w % Slots
<1>1. ring.r + i - 1 \in Nat /\ ring.r + i - 1 < ring.w
      /\ ring.w - (ring.r + i - 1) < Slots /\ ring.w \in Nat
  BY RingAssumption DEF Between, Rings
<1> QED BY <1>1, ModDistinct, RingAssumption

\* A torn slot is invisible.
LEMMA FramesTorn ==
  ASSUME NEW a \in Rings, NEW b \in Rings, Between(a), a.w - a.r < Slots,
         NEW x \in Nat, b.w = a.w, b.r = a.r,
         b.slot = [a.slot EXCEPT ![a.w % Slots] = x]
  PROVE  Frames(b) = Frames(a)
<1>1. \A i \in 1..(a.w - a.r) : b.slot[(a.r + i - 1) % Slots]
                                  = a.slot[(a.r + i - 1) % Slots]
  <2> TAKE i \in 1..(a.w - a.r)
  <2>1. (a.r + i - 1) % Slots # a.w % Slots BY SlotOutside
  <2>2. a.r + i - 1 \in Nat BY DEF Between, Rings
  <2>3. (a.r + i - 1) % Slots \in 0..Slots - 1
    BY <2>2, ModRange, RingAssumption
  <2> QED BY <2>1, <2>3 DEF Rings
<1> QED BY <1>1, FramesSame

\* Publishing appends the frame.
LEMMA FramesPut ==
  ASSUME NEW a \in Rings, NEW b \in Rings, Between(a), a.w - a.r < Slots,
         NEW f \in Nat, b.w = a.w + 1, b.r = a.r,
         b.slot = [a.slot EXCEPT ![a.w % Slots] = f]
  PROVE  Between(b) /\ Frames(b) = Append(Frames(a), f)
<1>0. a.w \in Nat /\ a.r \in Nat /\ b.w \in Nat /\ b.r \in Nat /\ Slots \in Nat
  BY RingAssumption DEF Rings
<1>1. Between(b) BY <1>0 DEF Between
<1> DEFINE n == a.w - a.r
<1>2. n \in Nat /\ b.w - b.r = n + 1 BY <1>0 DEF Between
<1>3. /\ Frames(a) \in Seq(Nat) /\ Len(Frames(a)) = n
      /\ \A i \in 1..n : Frames(a)[i] = a.slot[(a.r + i - 1) % Slots]
  BY FramesSeq
<1>4. /\ Frames(b) \in Seq(Nat) /\ Len(Frames(b)) = n + 1
      /\ \A i \in 1..n + 1 : Frames(b)[i] = b.slot[(a.r + i - 1) % Slots]
  BY <1>1, <1>2, FramesSeq
<1>5. a.w % Slots \in 0..Slots - 1 BY <1>0, ModRange, RingAssumption
<1>6. \A i \in 1..n : Frames(b)[i] = Frames(a)[i]
  <2> TAKE i \in 1..n
  <2>1. (a.r + i - 1) % Slots # a.w % Slots BY SlotOutside
  <2>2. a.r + i - 1 \in Nat BY <1>0, <1>2
  <2>3. (a.r + i - 1) % Slots \in 0..Slots - 1
    BY <2>2, ModRange, RingAssumption
  <2>4. b.slot[(a.r + i - 1) % Slots] = a.slot[(a.r + i - 1) % Slots]
    BY <2>1, <2>3 DEF Rings
  <2>5. i \in 1..n + 1 BY <1>2
  <2> QED BY <1>3, <1>4, <2>4, <2>5
<1>7. Frames(b)[n + 1] = f
  <2>1. a.r + (n + 1) - 1 = a.w /\ n + 1 \in 1..n + 1 BY <1>0, <1>2
  <2>2. b.slot[a.w % Slots] = f BY <1>5 DEF Rings
  <2> QED BY <1>4, <2>1, <2>2
<1> DEFINE s == Append(Frames(a), f)
<1>8. /\ s \in Seq(Nat) /\ Len(s) = n + 1
      /\ \A i \in 1..n : s[i] = Frames(a)[i]
      /\ s[n + 1] = f
  BY <1>3, AppendProperties
<1>9. \A i \in 1..Len(Frames(b)) : Frames(b)[i] = s[i]
  <2> TAKE i \in 1..Len(Frames(b))
  <2>1. i \in 1..n \/ i = n + 1 BY <1>2, <1>4
  <2> QED BY <2>1, <1>6, <1>7, <1>8
<1> HIDE DEF s, n
<1>10. Frames(b) = s BY <1>4, <1>8, <1>9, SeqEqual
<1> QED BY <1>1, <1>10 DEF s

\* Advancing the read index drops the head, which is the slot it pointed at.
LEMMA FramesTake ==
  ASSUME NEW a \in Rings, NEW b \in Rings, Between(a), a.r < a.w,
         b.w = a.w, b.r = a.r + 1, b.slot = a.slot
  PROVE  /\ Between(b) /\ Frames(a) # <<>>
         /\ Frames(b) = Tail(Frames(a))
         /\ Head(Frames(a)) = a.slot[a.r % Slots]
<1>0. a.w \in Nat /\ a.r \in Nat /\ b.w \in Nat /\ b.r \in Nat /\ Slots \in Nat
  BY RingAssumption DEF Rings
<1>1. Between(b) BY <1>0 DEF Between
<1> DEFINE n == a.w - a.r
<1>2. n \in Nat \ {0} /\ b.w - b.r = n - 1 BY <1>0
<1>3. /\ Frames(a) \in Seq(Nat) /\ Len(Frames(a)) = n
      /\ \A i \in 1..n : Frames(a)[i] = a.slot[(a.r + i - 1) % Slots]
  BY FramesSeq
<1>4. /\ Frames(b) \in Seq(Nat) /\ Len(Frames(b)) = n - 1
      /\ \A i \in 1..n - 1 : Frames(b)[i] = a.slot[(a.r + 1 + i - 1) % Slots]
  BY <1>1, <1>2, FramesSeq
<1>5. Frames(a) # <<>> BY <1>2, <1>3, EmptySeq
<1> DEFINE t == Tail(Frames(a))
<1>6. /\ t \in Seq(Nat) /\ Len(t) = n - 1
      /\ \A i \in 1..n - 1 : t[i] = Frames(a)[i + 1]
  BY <1>3, <1>5, HeadTailProperties
<1>7. \A i \in 1..Len(Frames(b)) : Frames(b)[i] = t[i]
  <2> TAKE i \in 1..Len(Frames(b))
  <2>1. i \in 1..n - 1 /\ i + 1 \in 1..n BY <1>2, <1>4
  <2>2. a.r + 1 + i - 1 = a.r + (i + 1) - 1 BY <1>0, <2>1
  <2> QED BY <1>3, <1>4, <1>6, <2>1, <2>2
<1>8. Head(Frames(a)) = a.slot[a.r % Slots]
  <2>1. 1 \in 1..n /\ a.r + 1 - 1 = a.r BY <1>0, <1>2
  <2>2. Head(Frames(a)) = Frames(a)[1] BY <1>3
  <2> QED BY <1>3, <2>1, <2>2
<1> HIDE DEF t, n
<1>9. Frames(b) = t BY <1>4, <1>6, <1>7, SeqEqual
<1> QED BY <1>1, <1>5, <1>8, <1>9 DEF t

-----------------------------------------------------------------------------
(* Type correctness *)

\* Storing a word or a slot leaves a ring.
LEMMA RingStores ==
  ASSUME NEW ring \in Rings, NEW k, NEW x \in Nat, NEW y \in Nat
  PROVE  /\ [ring EXCEPT !.seq = x] \in Rings
         /\ [ring EXCEPT !.slot = [@ EXCEPT ![k] = x]] \in Rings
         /\ [ring EXCEPT !.slot = [@ EXCEPT ![k] = x], !.w = y] \in Rings
<1>1. [ring.slot EXCEPT ![k] = x] \in [0..Slots - 1 -> Nat] BY DEF Rings
<1> QED BY <1>1 DEF Rings

\* A producer's step keeps the types.
LEMMA ProducerType ==
  ASSUME RingTypeOK, Ownership, NEW p \in Producers, ProducerStep(p)
  PROVE  RingTypeOK'
<1> USE RingAssumption DEF RingTypeOK
<1>0. prod[p] \in ProducerStates OBVIOUS
<1>1. CASE Create(p)
  <2>1. created' \in 0..MaxObjects /\ name' \in 0..created' /\ main'.o \in 0..created'
    BY <1>1 DEF Create, ConsumerVars
  <2>2. created + 1 \in Nat OBVIOUS
  <2>3. prod' \in [Producers -> ProducerStates]
    BY <1>1, <2>2 DEF Create, NoProducer, ProducerStates
  <2> QED BY <1>1, <2>1, <2>3 DEF Create, ConsumerVars
<1>2. CASE PublishInit(p)
  <2>1. mem' \in [Objects -> Rings] BY <1>2 DEF PublishInit, Rings
  <2> QED BY <1>2, <2>1 DEF PublishInit, ConsumerVars, ProducerStates
<1>3. CASE WriteBegin(p)
  <2>1. prod[p].o \in Objects BY <1>3 DEF WriteBegin, Ownership, Objects
  <2>2. mem[prod[p].o].w \in Nat BY <2>1 DEF Rings
  <2>3. prod' \in [Producers -> ProducerStates]
    BY <1>3, <2>2 DEF WriteBegin, ProducerStates
  <2> QED BY <1>3, <2>3 DEF WriteBegin, ConsumerVars
<1>4. CASE WriteSlot(p)
  <2> DEFINE ring == mem[prod[p].o]
             new == [ring EXCEPT !.slot = [@ EXCEPT ![prod[p].w % Slots] = Torn]]
  <2>0. Torn \in Nat BY DEF Torn
  <2>1. prod[p].o \in Objects => new \in Rings
    <3> HAVE prod[p].o \in Objects
    <3>1. ring \in Rings OBVIOUS
    <3> HIDE DEF ring
    <3> QED BY <2>0, <3>1, RingStores
  <2>2. mem' = [mem EXCEPT ![prod[p].o] = new] BY <1>4 DEF WriteSlot
  <2> HIDE DEF new
  <2>3. mem' \in [Objects -> Rings] BY <2>1, <2>2
  <2> QED BY <1>4, <2>3 DEF WriteSlot, ConsumerVars, ProducerStates
<1>5. CASE WriteIndex(p)
  <2>0. prod[p].w \in Nat /\ prod[p].f \in Nat BY <1>0 DEF ProducerStates
  <2> DEFINE ring == mem[prod[p].o]
             new == [ring EXCEPT !.slot = [@ EXCEPT ![prod[p].w % Slots] = prod[p].f],
                                 !.w = prod[p].w + 1]
  <2>1. prod[p].o \in Objects => new \in Rings
    <3> HAVE prod[p].o \in Objects
    <3>1. ring \in Rings /\ prod[p].w + 1 \in Nat BY <2>0
    <3> HIDE DEF ring
    <3> QED BY <2>0, <3>1, RingStores
  <2>2. mem' = [mem EXCEPT ![prod[p].o] = new] BY <1>5 DEF WriteIndex
  <2> HIDE DEF new
  <2>3. mem' \in [Objects -> Rings] BY <2>1, <2>2
  <2> QED BY <1>5, <2>3 DEF WriteIndex, ConsumerVars, ProducerStates
<1>6. CASE Bump(p)
  <2>1. prod[p].o \in Objects => [mem[prod[p].o] EXCEPT !.seq = @ + 1] \in Rings
    <3> HAVE prod[p].o \in Objects
    <3>1. mem[prod[p].o] \in Rings /\ mem[prod[p].o].seq + 1 \in Nat BY DEF Rings
    <3> QED BY <3>1, RingStores
  <2>2. mem' = [mem EXCEPT ![prod[p].o] = [mem[prod[p].o] EXCEPT !.seq = @ + 1]]
    BY <1>6 DEF Bump
  <2>3. mem' \in [Objects -> Rings] BY <2>1, <2>2
  <2> QED BY <1>6, <2>3 DEF Bump, ConsumerVars, ProducerStates
<1>7. CASE Wake(p) BY <1>7 DEF Wake, ProducerStates
<1>8. CASE TeardownCheck(p)
  BY <1>8 DEF TeardownCheck, ConsumerVars, NoProducer, ProducerStates
<1>9. CASE TeardownUnlink(p)
  BY <1>9 DEF TeardownUnlink, ConsumerVars, NoProducer, ProducerStates
<1>10. CASE ProducerCrash(p)
  BY <1>10 DEF ProducerCrash, NoProducer, ProducerStates
<1> QED BY <1>1, <1>2, <1>3, <1>4, <1>5, <1>6, <1>7, <1>8, <1>9, <1>10
        DEF ProducerStep

\* A step of the consumer process keeps the types.
LEMMA ConsumerType ==
  ASSUME RingTypeOK, Reading,
         ReaderStep \/ MainStep \/ ConsumerCrash \/ PauseFeed
  PROVE  RingTypeOK'
<1> USE RingAssumption DEF RingTypeOK, ProducerVars
<1>1. CASE ReaderFlag
  <2>1. mem' \in [Objects -> Rings] BY <1>1 DEF ReaderFlag, Rings
  <2> QED BY <1>1, <2>1 DEF ReaderFlag
<1>2. CASE ReaderClear
  <2>1. mem' \in [Objects -> Rings] BY <1>2 DEF ReaderClear, Rings
  <2> QED BY <1>2, <2>1 DEF ReaderClear
<1>3. CASE ReaderCheck \/ ReaderSeq \/ ReaderWait \/ ReaderTimeout
  BY <1>3 DEF ReaderCheck, ReaderSeq, ReaderWait, ReaderTimeout
<1>4. CASE Attach
  <2>1. name \in Nat OBVIOUS
  <2> QED BY <1>4, <2>1 DEF Attach, Detached, MainStates
<1>5. CASE Replace BY <1>5 DEF Replace, MainStates
<1>6. CASE Joined BY <1>6 DEF Joined, Detached, MainStates
<1>7. CASE PollReady BY <1>7 DEF PollReady, MainStates
<1>8. CASE ReadBegin
  <2>1. main.o \in Objects BY <1>8 DEF ReadBegin, Objects, MainStates
  <2>2. mem[main.o].r \in Nat BY <2>1 DEF Rings
  <2> QED BY <1>8, <2>2 DEF ReadBegin, MainStates
<1>9. CASE ReadCopy
  <2>1. main.o \in Objects BY <1>9 DEF ReadCopy, Reading, Objects, MainStates
  <2>2. mem[main.o] \in Rings /\ main.r \in Nat BY <2>1 DEF MainStates
  <2>3. main.r % Slots \in 0..Slots - 1 BY <2>2, ModRange
  <2>4. mem[main.o].slot[main.r % Slots] \in Nat BY <2>2, <2>3 DEF Rings
  <2> QED BY <1>9, <2>4 DEF ReadCopy, MainStates
<1>10. CASE ReadAdvance
  <2>0. main.r + 1 \in Nat /\ main.buf \in Nat BY DEF MainStates
  <2>1. mem' \in [Objects -> Rings] BY <1>10, <2>0 DEF ReadAdvance, Rings
  <2>2. main' \in MainStates /\ main'.o = main.o /\ taken' \in Nat
    BY <1>10, <2>0 DEF ReadAdvance, MainStates
  <2> QED BY <1>10, <2>1, <2>2 DEF ReadAdvance
<1>11. CASE ConsumerCrash BY <1>11 DEF ConsumerCrash, Detached, MainStates
<1>12. CASE PauseFeed BY <1>12 DEF PauseFeed
<1> QED BY <1>1, <1>2, <1>3, <1>4, <1>5, <1>6, <1>7, <1>8, <1>9, <1>10, <1>11,
           <1>12 DEF ReaderStep, MainStep

-----------------------------------------------------------------------------
(* The invariant and the refinement, action by action *)

\* What the queues are made of is untouched.
SameRings == \A o \in Objects : /\ mem'[o].w = mem[o].w /\ mem'[o].r = mem[o].r
                                /\ mem'[o].slot = mem[o].slot

\* Rings with the same words hold the same frames.
LEMMA SameQueues ==
  ASSUME SameRings
  PROVE  /\ \A o \in Objects : Frames(mem'[o]) = Frames(mem[o])
         /\ Queues' = Queues
<1>1. \A o \in Objects : Frames(mem'[o]) = Frames(mem[o]) BY DEF SameRings, Frames
<1> QED BY <1>1 DEF Queues

\* A step that starts no write and no read, moves no index and touches no slot
\* keeps the invariant and does not show in the queues.
LEMMA Quiet ==
  ASSUME RingInv, RingTypeOK', SameRings, offered' = offered, created' = created,
         \A p \in Producers :
            /\ prod'[p].pc # "down"
                  => prod[p].pc # "down" /\ prod'[p].o = prod[p].o
            /\ prod'[p].pc \in {"slot", "publish"} => prod'[p] = prod[p],
         main'.pc \in {"copy", "advance"} => main' = main
  PROVE  RingInv' /\ Queues' = Queues
<1>1. (\A o \in Objects : Frames(mem'[o]) = Frames(mem[o])) /\ Queues' = Queues
  BY SameQueues
<1>2. \A p \in Producers : Writing(p)' => Writing(p) /\ prod'[p] = prod[p]
  BY DEF Writing
<1>3. Ownership' BY DEF RingInv, Ownership
<1>4. Indices' BY DEF RingInv, Indices, Between, SameRings
<1>5. \A p \in Producers : Writing(p) => prod[p].o \in Objects
  BY RingAssumption DEF RingInv, RingTypeOK, Ownership, Writing, Objects
<1>6. SlotFree' BY <1>2, <1>5 DEF RingInv, SlotFree, SameRings
<1>7. Reading'
  <2>1. main.pc \in {"copy", "advance"} => main.o \in Objects
    BY RingAssumption DEF RingInv, RingTypeOK, Reading, Objects, MainStates
  <2> QED BY <2>1 DEF RingInv, Reading, SameRings
<1>8. FramesNew'
  <2> HIDE DEF Frames
  <2> QED BY <1>1, <1>2 DEF RingInv, FramesNew, SameRings
<1> QED BY <1>1, <1>3, <1>4, <1>6, <1>7, <1>8 DEF RingInv

\* Opening a new object gives its producer an object of its own.
LEMMA CreateStep ==
  ASSUME RingInv, RingTypeOK', NEW p \in Producers, Create(p)
  PROVE  RingInv' /\ Queues' = Queues
<1>0. mem' = mem /\ offered' = offered /\ main' = main /\ created' = created + 1
  BY DEF Create, ConsumerVars
<1>1. prod'[p].pc = "init" /\ prod'[p].o = created + 1
  BY DEF Create, RingInv, RingTypeOK, NoProducer
<1>2. \A q \in Producers : q # p => prod'[q] = prod[q]
  BY DEF Create, RingInv, RingTypeOK
<1>3. \A q \in Producers : Writing(q)' => Writing(q) /\ prod'[q] = prod[q]
  BY <1>1, <1>2 DEF Writing
<1>4. Ownership'
  BY <1>0, <1>1, <1>2, RingAssumption DEF RingInv, Ownership, RingTypeOK
<1>5. Indices' /\ SlotFree' /\ Reading'
  BY <1>0, <1>3 DEF RingInv, Indices, SlotFree, Reading
<1>6. FramesNew' BY <1>0, <1>3 DEF RingInv, FramesNew
<1> QED BY <1>0, <1>4, <1>5, <1>6 DEF RingInv, Queues

\* Starting a write takes the next frame; nothing readable has that number yet.
LEMMA WriteBeginStep ==
  ASSUME RingInv, RingTypeOK', NEW p \in Producers, WriteBegin(p)
  PROVE  RingInv' /\ Queues' = Queues /\ offered' = offered + 1 /\ taken' = taken
<1>0. /\ mem' = mem /\ main' = main /\ created' = created
      /\ offered' = offered + 1 /\ taken' = taken /\ offered \in Nat
  BY DEF WriteBegin, ConsumerVars, RingInv, RingTypeOK
<1> DEFINE ring == mem[prod[p].o]
<1>1. prod[p].o \in Objects
  BY RingAssumption DEF WriteBegin, RingInv, RingTypeOK, Ownership, Objects
<1>2. ring \in Rings /\ Between(ring) BY <1>1 DEF RingInv, RingTypeOK, Indices
<1>3. \A q \in Producers : q # p => prod'[q] = prod[q]
  BY DEF WriteBegin, RingInv, RingTypeOK
<1>4. prod'[p].o = prod[p].o /\ prod[p].pc # "down" /\ prod'[p].pc # "down"
      /\ (Writing(p)' => prod'[p].w = ring.w /\ ring.w - ring.r < Slots
                         /\ prod'[p].f = offered + 1)
  <2>1. prod[p].pc = "idle" /\ prod[p] \in ProducerStates
        /\ prod \in [Producers -> ProducerStates]
    BY DEF WriteBegin, RingInv, RingTypeOK
  <2>2. CASE RingFull(ring.w, ring.r)
    <3>1. prod' = prod BY <2>2 DEF WriteBegin
    <3> QED BY <2>1, <3>1 DEF Writing
  <2>3. CASE ~RingFull(ring.w, ring.r)
    <3>1. prod' = [prod EXCEPT ![p].pc = "slot", ![p].w = ring.w,
                               ![p].f = offered + 1]
      BY <2>3 DEF WriteBegin
    <3>2. ring.w - ring.r < Slots
      BY <1>2, <2>3, RingAssumption DEF RingFull, Rings, Between
    <3> HIDE DEF ring
    <3>3. /\ prod'[p].o = prod[p].o /\ prod'[p].pc = "slot"
          /\ prod'[p].w = ring.w /\ prod'[p].f = offered + 1
      BY <2>1, <3>1 DEF ProducerStates
    <3> QED BY <2>1, <3>2, <3>3
  <2> QED BY <2>2, <2>3
<1>5. Ownership' BY <1>0, <1>3, <1>4 DEF RingInv, Ownership
<1>6. Indices' /\ Reading' BY <1>0 DEF RingInv, Indices, Reading
<1>7. \A q \in Producers : q # p /\ Writing(q)' => Writing(q) /\ prod'[q] = prod[q]
  BY <1>3 DEF Writing
<1>8. SlotFree' BY <1>0, <1>4, <1>7 DEF RingInv, SlotFree
<1>9. FramesNew'
  <2>1. \A o \in Objects : \A i \in 1..(mem[o].w - mem[o].r) :
           /\ Frames(mem[o])[i] \in 1..offered + 1
           /\ Frames(mem[o])[i] # offered + 1
    BY <1>0 DEF RingInv, FramesNew
  <2>2. \A q \in Producers : Writing(q) => prod[q].f \in 1..offered + 1
                                           /\ prod[q].f # offered + 1
    BY <1>0 DEF RingInv, FramesNew
  <2>3. offered + 1 \in 1..offered + 1 BY <1>0
  <2> QED BY <1>0, <1>4, <1>7, <2>1, <2>2, <2>3 DEF RingInv, FramesNew
<1> QED BY <1>0, <1>5, <1>6, <1>8, <1>9 DEF RingInv, Queues

\* Tearing the slot behind the write index is invisible.
LEMMA WriteSlotStep ==
  ASSUME RingInv, RingTypeOK', NEW p \in Producers, WriteSlot(p)
  PROVE  RingInv' /\ Queues' = Queues
<1>0. /\ offered' = offered /\ main' = main /\ created' = created
      /\ prod[p].pc = "slot"
  BY DEF WriteSlot, ConsumerVars
<1> DEFINE me == prod[p].o
<1>1. me \in Objects /\ Writing(p)
  BY <1>0, RingAssumption DEF RingInv, RingTypeOK, Ownership, Objects, Writing
<1>2. \A q \in Producers : q # p => prod'[q] = prod[q]
  BY DEF WriteSlot, RingInv, RingTypeOK
<1>3. /\ prod'[p].o = prod[p].o /\ prod'[p].w = prod[p].w
      /\ prod'[p].f = prod[p].f /\ prod'[p].pc = "publish"
  BY DEF WriteSlot, RingInv, RingTypeOK, ProducerStates
<1>4. \A o \in Objects : o # me => mem'[o] = mem[o]
  BY DEF WriteSlot, RingInv, RingTypeOK
<1>5. /\ mem[me] \in Rings /\ mem'[me] \in Rings
      /\ mem'[me].w = mem[me].w /\ mem'[me].r = mem[me].r
      /\ mem'[me].slot = [mem[me].slot EXCEPT ![mem[me].w % Slots] = Torn]
  <2>1. mem[me] \in Rings /\ mem'[me] \in Rings BY <1>1 DEF RingInv, RingTypeOK
  <2>2. prod[p].w = mem[me].w BY <1>1 DEF RingInv, SlotFree
  <2>3. mem'[me] = [mem[me] EXCEPT !.slot = [@ EXCEPT ![mem[me].w % Slots] = Torn]]
    BY <1>1, <2>2 DEF WriteSlot, RingInv, RingTypeOK
  <2> QED BY <2>1, <2>3 DEF Rings
<1>6. Between(mem[me]) /\ mem[me].w - mem[me].r < Slots
  BY <1>1 DEF RingInv, Indices, SlotFree
<1>7. Torn \in Nat BY RingAssumption DEF Torn
<1>8. \A o \in Objects : /\ Frames(mem'[o]) = Frames(mem[o])
                         /\ mem'[o].w = mem[o].w /\ mem'[o].r = mem[o].r
  <2> HIDE DEF me
  <2>1. Frames(mem'[me]) = Frames(mem[me]) BY <1>5, <1>6, <1>7, FramesTorn
  <2> QED BY <1>4, <1>5, <2>1
<1>9. \A q \in Producers :
         /\ Writing(q)' => Writing(q)
         /\ prod'[q].o = prod[q].o /\ prod'[q].w = prod[q].w /\ prod'[q].f = prod[q].f
         /\ prod'[q].pc # "down" => prod[q].pc # "down"
  BY <1>0, <1>2, <1>3 DEF Writing
<1>10. Ownership' BY <1>0, <1>9 DEF RingInv, Ownership
<1>11. Indices' BY <1>8 DEF RingInv, Indices, Between
<1>12. \A q \in Producers : Writing(q) => prod[q].o \in Objects
  BY RingAssumption DEF RingInv, RingTypeOK, Ownership, Writing, Objects
<1>13. SlotFree' BY <1>8, <1>9, <1>12 DEF RingInv, SlotFree
<1>14. Reading'
  <2> SUFFICES ASSUME main.pc \in {"copy", "advance"} PROVE Reading'
    BY <1>0 DEF Reading
  <2>1. main.o \in Objects
    BY RingAssumption DEF RingInv, RingTypeOK, Reading, Objects, MainStates
  <2>2. mem[main.o] \in Rings /\ mem[main.o].r < mem[main.o].w /\ main.r = mem[main.o].r
    BY <2>1 DEF RingInv, RingTypeOK, Reading
  <2>3. mem'[main.o].slot[main.r % Slots] = mem[main.o].slot[main.r % Slots]
    <3>1. CASE main.o # me BY <3>1, <2>1, <1>4
    <3>2. CASE main.o = me
      <4>1. mem[me].r % Slots # mem[me].w % Slots
        BY <2>2, <3>2, <1>6, ModDistinct, RingAssumption DEF Rings
      <4>2. mem[me].r % Slots \in 0..Slots - 1
        BY <1>5, ModRange, RingAssumption DEF Rings
      <4> HIDE DEF me
      <4> QED BY <2>2, <3>2, <1>5, <4>1, <4>2 DEF Rings
    <3> QED BY <3>1, <3>2
  <2> QED BY <1>0, <1>8, <2>1, <2>3 DEF RingInv, Reading
<1>15. FramesNew'
  <2> HIDE DEF me
  <2> QED BY <1>0, <1>8, <1>9 DEF RingInv, FramesNew
<1>16. Queues' = Queues BY <1>8 DEF Queues
<1> QED BY <1>10, <1>11, <1>13, <1>14, <1>15, <1>16 DEF RingInv

\* Publishing the write index is the Put of the queue.
LEMMA WriteIndexStep ==
  ASSUME RingInv, RingTypeOK', NEW p \in Producers, WriteIndex(p)
  PROVE  /\ RingInv' /\ offered' = offered /\ taken' = taken
         /\ prod[p].o \in Objects /\ prod[p].f \in 1..offered
         /\ \A o \in Objects : \A i \in 1..Len(Queues[o]) : Queues[o][i] # prod[p].f
         /\ Len(Queues[prod[p].o]) < Slots
         /\ Queues' = [Queues EXCEPT ![prod[p].o] = Append(@, prod[p].f)]
<1>0. /\ offered' = offered /\ main' = main /\ created' = created
      /\ prod[p].pc = "publish" /\ taken' = taken
  BY DEF WriteIndex, ConsumerVars
<1> DEFINE me == prod[p].o
           f == prod[p].f
<1>1. me \in Objects /\ Writing(p)
  BY <1>0, RingAssumption DEF RingInv, RingTypeOK, Ownership, Objects, Writing
<1>2. \A q \in Producers : q # p => prod'[q] = prod[q]
  BY DEF WriteIndex, RingInv, RingTypeOK
<1>3. prod'[p].o = prod[p].o /\ prod'[p].pc = "bump"
  BY DEF WriteIndex, RingInv, RingTypeOK, ProducerStates
<1>4. \A o \in Objects : o # me => mem'[o] = mem[o]
  BY DEF WriteIndex, RingInv, RingTypeOK
<1>5. /\ mem[me] \in Rings /\ mem'[me] \in Rings
      /\ mem'[me].w = mem[me].w + 1 /\ mem'[me].r = mem[me].r
      /\ mem'[me].slot = [mem[me].slot EXCEPT ![mem[me].w % Slots] = f]
  <2>1. mem[me] \in Rings /\ mem'[me] \in Rings BY <1>1 DEF RingInv, RingTypeOK
  <2>2. prod[p].w = mem[me].w BY <1>1 DEF RingInv, SlotFree
  <2>3. mem'[me] = [mem[me] EXCEPT !.slot = [@ EXCEPT ![mem[me].w % Slots] = f],
                                   !.w = mem[me].w + 1]
    BY <1>1, <2>2 DEF WriteIndex, RingInv, RingTypeOK
  <2> QED BY <2>1, <2>3 DEF Rings
<1>6. Between(mem[me]) /\ mem[me].w - mem[me].r < Slots
  BY <1>1 DEF RingInv, Indices, SlotFree
<1>7. f \in 1..offered /\ f \in Nat BY <1>1 DEF RingInv, RingTypeOK, FramesNew
<1>8. Between(mem'[me]) /\ Frames(mem'[me]) = Append(Frames(mem[me]), f)
  <2> HIDE DEF me, f
  <2> QED BY <1>5, <1>6, <1>7, FramesPut
<1>9. \A o \in Objects : Frames(mem[o]) \in Seq(Nat)
                         /\ Len(Frames(mem[o])) = mem[o].w - mem[o].r
  BY FramesSeq DEF RingInv, RingTypeOK, Indices
<1>10. \A q \in Producers : Writing(q)' => q # p /\ Writing(q) /\ prod'[q] = prod[q]
  BY <1>2, <1>3 DEF Writing
<1>11. Ownership' BY <1>0, <1>2, <1>3 DEF RingInv, Ownership
<1>12. Indices' BY <1>4, <1>8 DEF RingInv, Indices
<1>13. \A q \in Producers : q # p /\ Writing(q) => prod[q].o \in Objects /\ prod[q].o # me
  BY <1>0, RingAssumption DEF RingInv, RingTypeOK, Ownership, Writing, Objects
<1>14. SlotFree' BY <1>4, <1>10, <1>13 DEF RingInv, SlotFree
<1>15. Reading'
  <2> SUFFICES ASSUME main.pc \in {"copy", "advance"} PROVE Reading'
    BY <1>0 DEF Reading
  <2>1. main.o \in Objects
    BY RingAssumption DEF RingInv, RingTypeOK, Reading, Objects, MainStates
  <2>2. mem[main.o] \in Rings /\ mem[main.o].r < mem[main.o].w /\ main.r = mem[main.o].r
    BY <2>1 DEF RingInv, RingTypeOK, Reading
  <2>3. mem'[main.o].slot[main.r % Slots] = mem[main.o].slot[main.r % Slots]
    <3>1. CASE main.o # me BY <3>1, <2>1, <1>4
    <3>2. CASE main.o = me
      <4>1. mem[me].r % Slots # mem[me].w % Slots
        BY <2>2, <3>2, <1>6, ModDistinct, RingAssumption DEF Rings
      <4>2. mem[me].r % Slots \in 0..Slots - 1
        BY <1>5, ModRange, RingAssumption DEF Rings
      <4> HIDE DEF me
      <4> QED BY <2>2, <3>2, <1>5, <4>1, <4>2 DEF Rings
    <3> QED BY <3>1, <3>2
  <2>4. main.r = mem'[main.o].r /\ mem'[main.o].r < mem'[main.o].w
    <3> HIDE DEF me
    <3> QED BY <2>1, <2>2, <1>4, <1>5 DEF Rings
  <2> QED BY <1>0, <2>1, <2>3, <2>4 DEF RingInv, Reading
<1>16. \A o \in Objects : \A i \in 1..(mem'[o].w - mem'[o].r) :
          \/ Frames(mem'[o])[i] = f
          \/ /\ i \in 1..(mem[o].w - mem[o].r)
             /\ Frames(mem'[o])[i] = Frames(mem[o])[i]
  <2> TAKE o \in Objects
  <2> TAKE i \in 1..(mem'[o].w - mem'[o].r)
  <2>1. CASE o # me BY <2>1, <1>4
  <2>2. CASE o = me
    <3> DEFINE n == mem[me].w - mem[me].r
    <3>0. mem[me].w \in Nat /\ mem[me].r \in Nat BY <1>5 DEF Rings
    <3>1. n \in Nat /\ mem'[me].w - mem'[me].r = n + 1
      BY <3>0, <1>5, <1>6 DEF Between
    <3>2. Frames(mem[me]) \in Seq(Nat) /\ Len(Frames(mem[me])) = n BY <1>1, <1>9
    <3>3. /\ \A j \in 1..n : Append(Frames(mem[me]), f)[j] = Frames(mem[me])[j]
          /\ Append(Frames(mem[me]), f)[n + 1] = f
      <4> HIDE DEF n, me, f
      <4> QED BY <3>2, <1>7, AppendProperties
    <3>4. i \in 1..n \/ i = n + 1 BY <2>2, <3>1
    <3> HIDE DEF n, me, f
    <3>5. n = mem[me].w - mem[me].r BY DEF n
    <3>6. Frames(mem'[o]) = Append(Frames(mem[me]), f) BY <2>2, <1>8
    <3>7. CASE i = n + 1
      <4>1. Frames(mem'[o])[n + 1] = f BY <3>3, <3>6
      <4>2. Frames(mem'[o])[i] = f BY <3>7, <4>1
      <4> QED BY <4>2
    <3>8. CASE i \in 1..n
      <4>1. Frames(mem'[o])[i] = Frames(mem[o])[i] BY <2>2, <3>8, <3>3, <3>6
      <4> QED BY <2>2, <3>8, <3>5, <4>1
    <3> QED BY <3>4, <3>7, <3>8
  <2> QED BY <2>1, <2>2
<1>17. FramesNew'
  <2>1. \A o \in Objects : \A i \in 1..(mem'[o].w - mem'[o].r) :
           Frames(mem'[o])[i] \in 1..offered
    <3> HIDE DEF f
    <3> QED BY <1>7, <1>16 DEF RingInv, FramesNew
  <2>2. \A q \in Producers : Writing(q)' =>
          \A o \in Objects : \A i \in 1..(mem'[o].w - mem'[o].r) :
             Frames(mem'[o])[i] # prod[q].f
    BY <1>1, <1>10, <1>16 DEF RingInv, FramesNew
  <2>3. \A q \in Producers : Writing(q)' => prod'[q].f \in 1..offered
    BY <1>10 DEF RingInv, FramesNew
  <2>4. \A q, s \in Producers :
          (q # s /\ Writing(q)' /\ Writing(s)') => prod'[q].f # prod'[s].f
    BY <1>10 DEF RingInv, FramesNew
  <2> QED BY <1>0, <1>10, <2>1, <2>2, <2>3, <2>4 DEF FramesNew
<1>18. \A o \in Objects : \A i \in 1..Len(Queues[o]) : Queues[o][i] # f
  BY <1>1, <1>9 DEF RingInv, FramesNew, Queues
<1>19. Len(Queues[me]) < Slots BY <1>1, <1>6, <1>9 DEF Queues
<1>20. Queues' = [Queues EXCEPT ![me] = Append(@, f)]
  BY <1>1, <1>4, <1>8 DEF Queues
<1> QED BY <1>0, <1>1, <1>7, <1>11, <1>12, <1>14, <1>15, <1>17, <1>18, <1>19, <1>20
        DEF RingInv

\* The consumer's first two steps look at the ring and change nothing in it.
LEMMA ReadLookStep ==
  ASSUME RingInv, RingTypeOK', ReadBegin \/ ReadCopy
  PROVE  RingInv' /\ Queues' = Queues
<1>0. /\ mem' = mem /\ offered' = offered /\ created' = created /\ prod' = prod
  BY DEF ReadBegin, ReadCopy, ProducerVars
<1>1. Ownership' /\ Indices' /\ SlotFree' /\ FramesNew'
  BY <1>0 DEF RingInv, Ownership, Indices, SlotFree, FramesNew, Writing
<1>2. Reading'
  <2>1. CASE ReadBegin
    <3>1. main.o \in Objects /\ main \in MainStates /\ main.o # 0
      BY <2>1, RingAssumption DEF ReadBegin, RingInv, RingTypeOK, Objects, MainStates
    <3>2. /\ mem[main.o].w \in Nat /\ mem[main.o].r \in Nat
          /\ mem[main.o].r <= mem[main.o].w
      BY <3>1 DEF RingInv, RingTypeOK, Indices, Between, Rings
    <3>3. CASE mem[main.o].w = mem[main.o].r
      BY <2>1, <3>1, <3>3 DEF ReadBegin, Reading, MainStates
    <3>4. CASE mem[main.o].w # mem[main.o].r
      <4>1. /\ main'.o = main.o /\ main'.r = mem[main.o].r /\ main'.pc = "copy"
        BY <2>1, <3>1, <3>4 DEF ReadBegin, MainStates
      <4> QED BY <1>0, <3>1, <3>2, <3>4, <4>1 DEF Reading
    <3> QED BY <3>3, <3>4
  <2>2. CASE ReadCopy
    <3>1. /\ main'.o = main.o /\ main'.r = main.r
          /\ main'.buf = mem[main.o].slot[main.r % Slots] /\ main.pc = "copy"
      BY <2>2 DEF ReadCopy, RingInv, RingTypeOK, MainStates
    <3> QED BY <1>0, <3>1 DEF RingInv, Reading
  <2> QED BY <2>1, <2>2
<1> QED BY <1>0, <1>1, <1>2 DEF RingInv, Queues

\* Advancing the read index is the Take of the queue, and the frame handed over
\* is its head.
LEMMA ReadAdvanceStep ==
  ASSUME RingInv, RingTypeOK', ReadAdvance
  PROVE  /\ RingInv' /\ offered' = offered
         /\ main.o \in Objects /\ Queues[main.o] # <<>>
         /\ Queues' = [Queues EXCEPT ![main.o] = Tail(@)]
         /\ taken' \in {Head(Queues[main.o]), taken}
<1>0. /\ offered' = offered /\ created' = created /\ prod' = prod
      /\ main.pc = "advance" /\ main'.pc = "loop"
  BY DEF ReadAdvance, ProducerVars, RingInv, RingTypeOK, MainStates
<1> DEFINE me == main.o
<1>1. me \in Objects
  BY <1>0, RingAssumption DEF RingInv, RingTypeOK, Reading, Objects, MainStates
<1>2. /\ main.r = mem[me].r /\ mem[me].r < mem[me].w
      /\ main.buf = mem[me].slot[mem[me].r % Slots]
  BY <1>0 DEF RingInv, Reading
<1>3. \A o \in Objects : o # me => mem'[o] = mem[o]
  BY DEF ReadAdvance, RingInv, RingTypeOK
<1>4. /\ mem[me] \in Rings /\ mem'[me] \in Rings
      /\ mem'[me].w = mem[me].w /\ mem'[me].r = mem[me].r + 1
      /\ mem'[me].slot = mem[me].slot
  <2>1. mem[me] \in Rings /\ mem'[me] \in Rings BY <1>1 DEF RingInv, RingTypeOK
  <2>2. mem'[me] = [mem[me] EXCEPT !.r = mem[me].r + 1]
    BY <1>1, <1>2 DEF ReadAdvance, RingInv, RingTypeOK
  <2> QED BY <2>1, <2>2 DEF Rings
<1>5. Between(mem[me]) BY <1>1 DEF RingInv, Indices
<1>6. /\ Between(mem'[me]) /\ Frames(mem[me]) # <<>>
      /\ Frames(mem'[me]) = Tail(Frames(mem[me]))
      /\ Head(Frames(mem[me])) = main.buf
  <2> HIDE DEF me
  <2> QED BY <1>2, <1>4, <1>5, FramesTake
<1>7. \A o \in Objects : Frames(mem[o]) \in Seq(Nat)
                         /\ Len(Frames(mem[o])) = mem[o].w - mem[o].r
  BY FramesSeq DEF RingInv, RingTypeOK, Indices
<1>8. Ownership' BY <1>0 DEF RingInv, Ownership
<1>9. Indices' BY <1>3, <1>6 DEF RingInv, Indices
<1>10. Reading' BY <1>0 DEF Reading
<1>11. SlotFree'
  <2> SUFFICES ASSUME NEW q \in Producers, Writing(q)
               PROVE  /\ prod[q].w = mem'[prod[q].o].w
                      /\ mem'[prod[q].o].w - mem'[prod[q].o].r < Slots
    BY <1>0 DEF SlotFree, Writing
  <2>1. prod[q].o \in Objects
    BY RingAssumption DEF RingInv, RingTypeOK, Ownership, Writing, Objects
  <2>2. prod[q].w = mem[prod[q].o].w /\ mem[prod[q].o].w - mem[prod[q].o].r < Slots
    BY DEF RingInv, SlotFree
  <2>3. CASE prod[q].o # me BY <2>1, <2>2, <2>3, <1>3
  <2>4. CASE prod[q].o = me
    <3>1. mem[me].w \in Nat /\ mem[me].r \in Nat BY <1>4 DEF Rings
    <3> QED BY <2>2, <2>4, <3>1, <1>4, RingAssumption
  <2> QED BY <2>3, <2>4
<1>12. \A o \in Objects : \A i \in 1..(mem'[o].w - mem'[o].r) :
          \E j \in 1..(mem[o].w - mem[o].r) : Frames(mem'[o])[i] = Frames(mem[o])[j]
  <2> TAKE o \in Objects
  <2> TAKE i \in 1..(mem'[o].w - mem'[o].r)
  <2>1. CASE o # me BY <2>1, <1>3
  <2>2. CASE o = me
    <3> DEFINE n == mem[me].w - mem[me].r
    <3>1. mem[me].w \in Nat /\ mem[me].r \in Nat BY <1>4 DEF Rings
    <3>2. n \in Nat \ {0} /\ mem'[me].w - mem'[me].r = n - 1
      BY <3>1, <1>2, <1>4
    <3>3. Frames(mem[me]) \in Seq(Nat) /\ Len(Frames(mem[me])) = n BY <1>1, <1>7
    <3>4. i \in 1..n - 1 /\ i + 1 \in 1..n BY <2>2, <3>2
    <3>5. Tail(Frames(mem[me]))[i] = Frames(mem[me])[i + 1]
      <4> HIDE DEF n, me
      <4> QED BY <3>3, <3>4, <1>6, HeadTailProperties
    <3>6. Frames(mem'[o])[i] = Frames(mem[o])[i + 1] BY <2>2, <3>5, <1>6
    <3> QED BY <2>2, <3>4, <3>6
  <2> QED BY <2>1, <2>2
<1>13. FramesNew'
  <2>1. \A q \in Producers : Writing(q)' <=> Writing(q) BY <1>0 DEF Writing
  <2>2. \A o \in Objects : \A i \in 1..(mem'[o].w - mem'[o].r) :
           Frames(mem'[o])[i] \in 1..offered
    BY <1>12 DEF RingInv, FramesNew
  <2>3. \A q \in Producers : Writing(q) =>
          \A o \in Objects : \A i \in 1..(mem'[o].w - mem'[o].r) :
             Frames(mem'[o])[i] # prod[q].f
    BY <1>12 DEF RingInv, FramesNew
  <2> QED BY <1>0, <2>1, <2>2, <2>3 DEF RingInv, FramesNew
<1>14. Queues' = [Queues EXCEPT ![me] = Tail(@)]
  BY <1>1, <1>3, <1>6 DEF Queues
<1>15. taken' \in {main.buf, taken} BY DEF ReadAdvance
<1>16. Queues[me] # <<>> /\ Head(Queues[me]) = main.buf BY <1>1, <1>6 DEF Queues
<1> QED BY <1>0, <1>1, <1>8, <1>9, <1>10, <1>11, <1>13, <1>14, <1>15, <1>16
        DEF RingInv

\* Everything else a producer does is invisible.
LEMMA ProducerQuiet ==
  ASSUME RingInv, RingTypeOK', NEW p \in Producers,
         \/ PublishInit(p) \/ Bump(p) \/ Wake(p)
         \/ TeardownCheck(p) \/ TeardownUnlink(p) \/ ProducerCrash(p)
  PROVE  RingInv' /\ Queues' = Queues /\ offered' = offered /\ taken' = taken
<1>0. /\ offered' = offered /\ taken' = taken /\ created' = created /\ main' = main
  BY DEF PublishInit, Bump, Wake, TeardownCheck, TeardownUnlink, ProducerCrash,
         ConsumerVars
<1>1. prod \in [Producers -> ProducerStates] /\ mem \in [Objects -> Rings]
  BY DEF RingInv, RingTypeOK
<1>2. \A q \in Producers : q # p => prod'[q] = prod[q]
  BY <1>1 DEF PublishInit, Bump, Wake, TeardownCheck, TeardownUnlink, ProducerCrash
<1>3. /\ prod'[p].pc # "down" => prod[p].pc # "down" /\ prod'[p].o = prod[p].o
      /\ prod'[p].pc \notin {"slot", "publish"}
  <2>1. prod[p] \in ProducerStates BY <1>1
  <2> QED BY <1>1, <2>1
          DEF PublishInit, Bump, Wake, TeardownCheck, TeardownUnlink, ProducerCrash,
              NoProducer, ProducerStates
<1>4. SameRings
  <2>1. CASE PublishInit(p) BY <1>1, <2>1 DEF PublishInit, SameRings, Rings
  <2>2. CASE Bump(p) BY <1>1, <2>2 DEF Bump, SameRings, Rings
  <2>3. CASE Wake(p) \/ TeardownCheck(p) \/ TeardownUnlink(p) \/ ProducerCrash(p)
    BY <2>3 DEF Wake, TeardownCheck, TeardownUnlink, ProducerCrash, SameRings
  <2> QED BY <2>1, <2>2, <2>3
<1> QED BY <1>0, <1>2, <1>3, <1>4, Quiet

\* Everything else the consumer process does is invisible.
LEMMA ConsumerQuiet ==
  ASSUME RingInv, RingTypeOK',
         \/ ReaderStep \/ Attach \/ Replace \/ Joined \/ PollReady
         \/ ConsumerCrash \/ PauseFeed
  PROVE  RingInv' /\ Queues' = Queues /\ offered' = offered /\ taken' = taken
<1> USE DEF ReaderStep, ReaderCheck, ReaderFlag, ReaderSeq, ReaderWait, ReaderTimeout,
            ReaderClear, Attach, Replace, Joined, PollReady, ConsumerCrash, PauseFeed
<1>0. offered' = offered /\ taken' = taken /\ created' = created /\ prod' = prod
  BY DEF ProducerVars
<1>1. mem \in [Objects -> Rings] /\ main \in MainStates BY DEF RingInv, RingTypeOK
<1>2. SameRings
  <2>1. CASE ReaderFlag \/ ReaderClear BY <1>1, <2>1 DEF SameRings, Rings
  <2>2. CASE ~(ReaderFlag \/ ReaderClear) BY <2>2 DEF SameRings
  <2> QED BY <2>1, <2>2
<1>3. main'.pc \in {"copy", "advance"} => main' = main
  BY <1>1 DEF MainStates, Detached
<1>4. \A p \in Producers :
         /\ prod'[p].pc # "down"
               => prod[p].pc # "down" /\ prod'[p].o = prod[p].o
         /\ prod'[p].pc \in {"slot", "publish"} => prod'[p] = prod[p]
  BY <1>0
<1> QED BY <1>0, <1>2, <1>3, <1>4, Quiet

\* Initially every ring is empty.
LEMMA RingInitially == FRInit => RingInv /\ Fifo!QInit
<1> SUFFICES ASSUME FRInit PROVE RingInv /\ Fifo!QInit OBVIOUS
<1> USE RingAssumption
<1>0. /\ mem = [o \in Objects |-> FreshRing] /\ FreshRing \in Rings
      /\ FreshRing.w = 0 /\ FreshRing.r = 0
  BY DEF FRInit, FreshRing, Rings
<1>1. RingTypeOK
  <2>1. main \in MainStates /\ main.o = 0
    BY DEF FRInit, Detached, MainStates
  <2>2. prod \in [Producers -> ProducerStates]
    BY DEF FRInit, NoProducer, ProducerStates
  <2> QED BY <1>0, <2>1, <2>2 DEF FRInit, RingTypeOK
<1>2. \A p \in Producers : prod[p].pc = "down" BY DEF FRInit, NoProducer
<1>3. Ownership /\ SlotFree BY <1>2 DEF Ownership, SlotFree, Writing
<1>4. Indices BY <1>0 DEF Indices, Between
<1>5. Reading BY DEF FRInit, Detached, Reading
<1>6. \A o \in Objects : 1..(mem[o].w - mem[o].r) = {} BY <1>0
<1>7. FramesNew BY <1>2, <1>6 DEF FramesNew, Writing
<1>8. Queues = [o \in Objects |-> <<>>]
  <2>1. \A o \in Objects : Frames(mem[o]) = <<>>
    <3> TAKE o \in Objects
    <3>1. mem[o] \in Rings /\ Between(mem[o]) /\ mem[o].w - mem[o].r = 0
      BY <1>0, <1>4 DEF Indices
    <3>2. Frames(mem[o]) \in Seq(Nat) /\ Len(Frames(mem[o])) = 0
      BY <3>1, FramesSeq
    <3> QED BY <3>2, EmptySeq
  <2> QED BY <2>1 DEF Queues
<1> QED BY <1>1, <1>3, <1>4, <1>5, <1>7, <1>8
        DEF RingInv, Fifo!QInit, FRInit

\* Every step keeps the invariant and is a step of the queue or a stutter.
LEMMA RingStep ==
  RingInv /\ [FRNext]_frVars => RingInv' /\ [Fifo!QNext]_(Fifo!fqVars)
<1> SUFFICES ASSUME RingInv, [FRNext]_frVars
             PROVE  RingInv' /\ [Fifo!QNext]_(Fifo!fqVars)
  OBVIOUS
<1> DEFINE Invisible == Queues' = Queues /\ offered' = offered /\ taken' = taken
<1>0. Invisible => [Fifo!QNext]_(Fifo!fqVars) BY DEF Fifo!fqVars
<1> HIDE DEF Invisible
<1>1. CASE UNCHANGED frVars
  <2>1. Invisible BY <1>1 DEF frVars, Queues, Invisible
  <2>2. RingInv'
    BY <1>1 DEF frVars, RingInv, RingTypeOK, Ownership, Indices, SlotFree, Reading,
                FramesNew, Writing
  <2> QED BY <1>0, <2>1, <2>2
<1>2. ASSUME NEW p \in Producers, ProducerStep(p)
      PROVE  RingInv' /\ [Fifo!QNext]_(Fifo!fqVars)
  <2>0. RingTypeOK' BY <1>2, ProducerType DEF RingInv
  <2>1. CASE Create(p)
    <3>1. Invisible BY <2>0, <2>1, CreateStep DEF Create, ConsumerVars, Invisible
    <3> QED BY <1>0, <2>0, <2>1, <3>1, CreateStep
  <2>2. CASE WriteBegin(p)
    <3>1. Fifo!Offer BY <2>0, <2>2, WriteBeginStep DEF Fifo!Offer
    <3> QED BY <2>0, <2>2, <3>1, WriteBeginStep DEF Fifo!QNext
  <2>3. CASE WriteSlot(p)
    <3>1. Invisible BY <2>0, <2>3, WriteSlotStep DEF WriteSlot, ConsumerVars, Invisible
    <3> QED BY <1>0, <2>0, <2>3, <3>1, WriteSlotStep
  <2>4. CASE WriteIndex(p)
    <3>1. Fifo!Put(prod[p].o, prod[p].f) BY <2>0, <2>4, WriteIndexStep DEF Fifo!Put
    <3>2. prod[p].o \in Objects /\ prod[p].f \in 1..offered
      BY <2>0, <2>4, WriteIndexStep
    <3> QED BY <2>0, <2>4, <3>1, <3>2, WriteIndexStep DEF Fifo!QNext
  <2>5. CASE \/ PublishInit(p) \/ Bump(p) \/ Wake(p)
             \/ TeardownCheck(p) \/ TeardownUnlink(p) \/ ProducerCrash(p)
    BY <1>0, <2>0, <2>5, ProducerQuiet DEF Invisible
  <2> QED BY <1>2, <2>1, <2>2, <2>3, <2>4, <2>5 DEF ProducerStep
<1>3. CASE ReaderStep \/ MainStep \/ ConsumerCrash \/ PauseFeed
  <2>0. RingTypeOK' BY <1>3, ConsumerType DEF RingInv
  <2>1. CASE ReadAdvance
    <3>1. Fifo!Take(main.o) BY <2>0, <2>1, ReadAdvanceStep DEF Fifo!Take
    <3> QED BY <2>0, <2>1, <3>1, ReadAdvanceStep DEF Fifo!QNext
  <2>2. CASE ReadBegin \/ ReadCopy
    <3>1. Invisible
      BY <2>0, <2>2, ReadLookStep DEF ReadBegin, ReadCopy, ProducerVars, Invisible
    <3> QED BY <1>0, <2>0, <2>2, <3>1, ReadLookStep
  <2>3. CASE \/ ReaderStep \/ Attach \/ Replace \/ Joined \/ PollReady
             \/ ConsumerCrash \/ PauseFeed
    BY <1>0, <2>0, <2>3, ConsumerQuiet DEF Invisible
  <2> QED BY <1>3, <2>1, <2>2, <2>3 DEF MainStep
<1> QED BY <1>1, <1>2, <1>3 DEF FRNext

\* For every number of producers, slots, objects, frames and crashes, the
\* lock-free ring of frame_shm.cpp is a bounded FIFO per object: write_frame
\* publishes whole frames once, and read_frame takes them in that order.
THEOREM RingIsFifo == FRSpec => ImplementsFifo
<1>1. FRInit => RingInv /\ Fifo!QInit BY RingInitially
<1>2. RingInv /\ [FRNext]_frVars => RingInv' /\ [Fifo!QNext]_(Fifo!fqVars)
  BY RingStep
<1> QED BY <1>1, <1>2, PTL DEF FRSpec, ImplementsFifo, Fifo!QSpec
=============================================================================
