----------------------------- MODULE FrameRing ------------------------------
(***************************************************************************)
(* The shared-memory frame ring (src/io/src/frame_shm.cpp) and the craft   *)
(* loop that feeds on it (src/node/src/tx_node.cpp).                        *)
(*                                                                         *)
(* Producers create ring objects under one name and write whole frames;    *)
(* a newer producer replaces the name while an older one may still be      *)
(* alive.  The consumer process has two threads: the reader thread sleeps  *)
(* on the futex word and raises an eventfd, the main loop drains the ring. *)
(* Every step is one access to shared memory or one system call.  Memory   *)
(* is sequentially consistent: the index words are release/acquire and the *)
(* waiting flag and the futex word are seq_cst in the code.                *)
(***************************************************************************)
EXTENDS Naturals, FiniteSets, Sequences

CONSTANTS Producers,   \* producer processes
          Slots,       \* slot_count_
          MaxObjects,  \* bound: ring objects created in a behaviour
          MaxFrames,   \* bound: frames offered in a behaviour
          BadFrames,   \* frames whose slot carries an impossible length
          MaxCrashes   \* bound: crashes of any process in a behaviour

ASSUME RingAssumption ==
    /\ Slots \in Nat \ {0}
    /\ MaxObjects \in Nat /\ MaxFrames \in Nat /\ MaxCrashes \in Nat
    /\ BadFrames \subseteq 1..MaxFrames

Objects == 1..MaxObjects
Torn == MaxFrames + 1      \* a slot whose bytes are being copied

VARIABLES mem,      \* mem[o]: the shared words of object o
          name,     \* the object the shm name resolves to, 0 for none
          created,  \* number of objects created so far
          offered,  \* number of frames offered so far
          prod,     \* prod[p]: a producer process
          reader,   \* the consumer's reader thread
          main,     \* the consumer's main loop
          efd,      \* the eventfd is readable
          taken,    \* the last frame given to on_frame
          paused,   \* feed_paused(): a calibration direction runs
          crashes

frVars == <<mem, name, created, offered, prod, reader, main, efd, taken,
            paused, crashes>>

FreshRing == [init |-> FALSE, w |-> 0, r |-> 0, seq |-> 0, waiting |-> FALSE,
              slot |-> [i \in 0..Slots - 1 |-> 0]]
NoProducer == [pc |-> "down", o |-> 0, w |-> 0, f |-> 0]
NoReader == [pc |-> "none", seq |-> 0, stop |-> FALSE]
Detached == [pc |-> "loop", o |-> 0, r |-> 0, buf |-> 0, pending |-> FALSE]

FRInit ==
    /\ mem = [o \in Objects |-> FreshRing]
    /\ name = 0 /\ created = 0 /\ offered = 0 /\ taken = 0 /\ crashes = 0
    /\ prod = [p \in Producers |-> NoProducer]
    /\ reader = NoReader
    /\ main = Detached
    /\ efd = FALSE /\ paused = FALSE

-----------------------------------------------------------------------------
(* Producer *)

ConsumerVars == <<reader, main, efd, taken, paused, crashes>>

\* create(): the stale name is unlinked and the object created exclusively;
\* until init_complete is published the object is in the name space, zeroed.
Create(p) ==
    /\ prod[p].pc = "down"
    /\ created < MaxObjects
    /\ created' = created + 1
    /\ name' = created + 1
    /\ prod' = [prod EXCEPT ![p] = [NoProducer EXCEPT !.pc = "init",
                                                      !.o = created + 1]]
    /\ UNCHANGED <<mem, offered, ConsumerVars>>

\* The release store of init_complete, then the bump of the futex word.
PublishInit(p) ==
    /\ prod[p].pc = "init"
    /\ mem' = [mem EXCEPT ![prod[p].o].init = TRUE, ![prod[p].o].seq = 1]
    /\ prod' = [prod EXCEPT ![p].pc = "idle"]
    /\ UNCHANGED <<name, created, offered, ConsumerVars>>

\* Mutant: the full check is off by one.
RingFullLate(w, r) == w - r > Slots
RingFull(w, r) == w - r >= Slots

\* write_frame(), first part: both indices are loaded; a full ring drops.
WriteBegin(p) ==
    /\ prod[p].pc = "idle"
    /\ offered < MaxFrames
    /\ offered' = offered + 1
    /\ LET ring == mem[prod[p].o]
       IN  IF RingFull(ring.w, ring.r)
           THEN UNCHANGED prod
           ELSE prod' = [prod EXCEPT ![p].pc = "slot", ![p].w = ring.w,
                                     ![p].f = offered + 1]
    /\ UNCHANGED <<mem, name, created, ConsumerVars>>

\* The length prefix is in the slot and the payload is still being copied.
WriteSlot(p) ==
    /\ prod[p].pc = "slot"
    /\ mem' = [mem EXCEPT ![prod[p].o].slot[prod[p].w % Slots] = Torn]
    /\ prod' = [prod EXCEPT ![p].pc = "publish"]
    /\ UNCHANGED <<name, created, offered, ConsumerVars>>

\* The copy ends and the release store of write_idx publishes it; before the
\* store nobody may look at the slot, so the two are one step.
WriteIndex(p) ==
    /\ prod[p].pc = "publish"
    /\ mem' = [mem EXCEPT ![prod[p].o].slot[prod[p].w % Slots] = prod[p].f,
                          ![prod[p].o].w = prod[p].w + 1]
    /\ prod' = [prod EXCEPT ![p].pc = "bump"]
    /\ UNCHANGED <<name, created, offered, ConsumerVars>>

Bump(p) ==
    /\ prod[p].pc = "bump"
    /\ mem' = [mem EXCEPT ![prod[p].o].seq = @ + 1]
    /\ prod' = [prod EXCEPT ![p].pc = "wake"]
    /\ UNCHANGED <<name, created, offered, ConsumerVars>>

\* FUTEX_WAKE on the futex word of object o: a sleeping reader runs again.
Woken(o) == IF reader.pc = "asleep" /\ main.o = o
            THEN [reader EXCEPT !.pc = "clear"] ELSE reader

Wake(p) ==
    /\ prod[p].pc = "wake"
    /\ reader' = IF mem[prod[p].o].waiting THEN Woken(prod[p].o) ELSE reader
    /\ prod' = [prod EXCEPT ![p].pc = "idle"]
    /\ UNCHANGED <<mem, name, created, offered, main, efd, taken, paused,
                   crashes>>

\* ~FrameShmRing of an owner: is the name still our object?
TeardownCheck(p) ==
    /\ prod[p].pc = "idle"
    /\ prod' = [prod EXCEPT ![p] =
                   IF name = prod[p].o THEN [@ EXCEPT !.pc = "unlink"]
                                       ELSE NoProducer]
    /\ UNCHANGED <<mem, name, created, offered, ConsumerVars>>

TeardownUnlink(p) ==
    /\ prod[p].pc = "unlink"
    /\ name' = 0
    /\ prod' = [prod EXCEPT ![p] = NoProducer]
    /\ UNCHANGED <<mem, created, offered, ConsumerVars>>

\* The producer dies anywhere; the name and its half-done write stay behind.
ProducerCrash(p) ==
    /\ crashes < MaxCrashes /\ prod[p].pc # "down"
    /\ crashes' = crashes + 1
    /\ prod' = [prod EXCEPT ![p] = NoProducer]
    /\ UNCHANGED <<mem, name, created, offered, reader, main, efd, taken,
                   paused>>

-----------------------------------------------------------------------------
(* Consumer: reader thread *)

ProducerVars == <<name, created, offered, prod>>

\* Mutant: readiness as an edge, raised only by a futex word that moved.
EdgeRaised == mem[main.o].w # mem[main.o].r /\ mem[main.o].seq # reader.seq

\* reader_loop(), the level check: a frame not drained raises the eventfd.
LevelRaised == mem[main.o].w # mem[main.o].r

ReaderCheck ==
    /\ reader.pc = "check"
    /\ IF reader.stop
       THEN reader' = [reader EXCEPT !.pc = "joined"] /\ UNCHANGED efd
       ELSE /\ efd' = (efd \/ LevelRaised)
            /\ reader' = [reader EXCEPT !.pc = "flag"]
    /\ UNCHANGED <<mem, ProducerVars, main, taken, paused, crashes>>

ReaderFlag ==
    /\ reader.pc = "flag"
    /\ mem' = [mem EXCEPT ![main.o].waiting = TRUE]
    /\ reader' = [reader EXCEPT !.pc = "seq"]
    /\ UNCHANGED <<ProducerVars, main, efd, taken, paused, crashes>>

ReaderSeq ==
    /\ reader.pc = "seq"
    /\ reader' = [reader EXCEPT !.pc = "wait", !.seq = mem[main.o].seq]
    /\ UNCHANGED <<mem, ProducerVars, main, efd, taken, paused, crashes>>

\* FUTEX_WAIT: the kernel compares the word and parks in one step.
ReaderWait ==
    /\ reader.pc = "wait"
    /\ reader' = [reader EXCEPT !.pc = IF mem[main.o].seq = reader.seq
                                       THEN "asleep" ELSE "clear"]
    /\ UNCHANGED <<mem, ProducerVars, main, efd, taken, paused, crashes>>

\* kReaderTimeoutNs expires.
ReaderTimeout ==
    /\ reader.pc = "asleep"
    /\ reader' = [reader EXCEPT !.pc = "clear"]
    /\ UNCHANGED <<mem, ProducerVars, main, efd, taken, paused, crashes>>

ReaderClear ==
    /\ reader.pc = "clear"
    /\ mem' = [mem EXCEPT ![main.o].waiting = FALSE]
    /\ reader' = [reader EXCEPT !.pc = "check"]
    /\ UNCHANGED <<ProducerVars, main, efd, taken, paused, crashes>>

ReaderStep == \/ ReaderCheck \/ ReaderFlag \/ ReaderSeq \/ ReaderWait
              \/ ReaderTimeout \/ ReaderClear

-----------------------------------------------------------------------------
(* Consumer: main loop *)

\* attach(): refused until init_complete is published.
Attach ==
    /\ main.pc = "loop" /\ main.o = 0
    /\ name # 0 /\ mem[name].init
    /\ main' = [Detached EXCEPT !.o = name]
    /\ reader' = [NoReader EXCEPT !.pc = "check"]
    /\ efd' = FALSE
    /\ UNCHANGED <<mem, ProducerVars, taken, paused, crashes>>

\* Mutant: a consumer that trusts its mapping and never looks at the name.
BackingObjectTrusted == mem[main.o].init
BackingObjectCurrent == mem[main.o].init /\ name = main.o

\* The identity check found another object under the name, or none: the
\* destructor asks the reader to stop and kicks the futex.
Replace ==
    /\ main.pc = "loop" /\ main.o # 0
    /\ ~BackingObjectCurrent
    /\ main' = [main EXCEPT !.pc = "join"]
    /\ reader' = [Woken(main.o) EXCEPT !.stop = TRUE]
    /\ UNCHANGED <<mem, ProducerVars, efd, taken, paused, crashes>>

\* reader_.join() returns; eventfd and mapping go.
Joined ==
    /\ main.pc = "join" /\ reader.pc = "joined"
    /\ main' = Detached
    /\ reader' = NoReader
    /\ efd' = FALSE
    /\ UNCHANGED <<mem, ProducerVars, taken, paused, crashes>>

\* poll_once(): the eventfd is readable, is drained and marks the ring.
PollReady ==
    /\ main.pc = "loop" /\ main.o # 0 /\ ~paused
    /\ efd
    /\ efd' = FALSE
    /\ main' = [main EXCEPT !.pending = TRUE]
    /\ UNCHANGED <<mem, ProducerVars, reader, taken, paused, crashes>>

\* read_frame(), first part: an empty ring ends the burst.
ReadBegin ==
    /\ main.pc = "loop" /\ main.o # 0 /\ main.pending /\ ~paused
    /\ main' = IF mem[main.o].w = mem[main.o].r
               THEN [main EXCEPT !.pending = FALSE]
               ELSE [main EXCEPT !.pc = "copy", !.r = mem[main.o].r]
    /\ UNCHANGED <<mem, ProducerVars, reader, efd, taken, paused, crashes>>

ReadCopy ==
    /\ main.pc = "copy"
    /\ main' = [main EXCEPT !.pc = "advance",
                            !.buf = mem[main.o].slot[main.r % Slots]]
    /\ UNCHANGED <<mem, ProducerVars, reader, efd, taken, paused, crashes>>

\* The release store of read_idx.  A bad slot is skipped and ends the burst;
\* a burst that spends its budget (kFrameShmIngressDrainBudget) leaves the ring
\* pending, so that the next iteration of the loop goes on reading.
ReadAdvance ==
    /\ main.pc = "advance"
    /\ mem' = [mem EXCEPT ![main.o].r = main.r + 1]
    /\ LET bad == main.buf \in BadFrames
       IN  /\ taken' = IF bad THEN taken ELSE main.buf
           /\ main' = [main EXCEPT !.pc = "loop", !.pending = ~bad]
    /\ UNCHANGED <<ProducerVars, reader, efd, paused, crashes>>

MainStep == \/ Attach \/ Replace \/ Joined \/ PollReady \/ ReadBegin
            \/ ReadCopy \/ ReadAdvance

\* The consumer process dies: both threads stop where they are and
\* consumer_waiting keeps whatever the reader thread last stored.
ConsumerCrash ==
    /\ crashes < MaxCrashes /\ main.o # 0
    /\ crashes' = crashes + 1
    /\ main' = Detached /\ reader' = NoReader /\ efd' = FALSE
    /\ UNCHANGED <<mem, ProducerVars, taken, paused>>

\* A calibration direction starts or ends.
PauseFeed ==
    /\ main.pc = "loop"
    /\ paused' = ~paused
    /\ UNCHANGED <<mem, ProducerVars, reader, main, efd, taken, crashes>>

ProducerStep(p) ==
    \/ Create(p) \/ PublishInit(p) \/ WriteBegin(p) \/ WriteSlot(p)
    \/ WriteIndex(p) \/ Bump(p) \/ Wake(p)
    \/ TeardownCheck(p) \/ TeardownUnlink(p) \/ ProducerCrash(p)

FRNext == \/ \E p \in Producers : ProducerStep(p)
          \/ ReaderStep \/ MainStep \/ ConsumerCrash \/ PauseFeed

\* The kernel schedules both threads of a live consumer, the futex timeout
\* fires, and each iteration of the main loop polls, drains, checks the
\* identity and attaches.  Nothing is assumed of the producers.
FRFairness ==
    /\ WF_frVars(ReaderStep)
    /\ WF_frVars(Attach \/ Replace \/ Joined)
    /\ WF_frVars(PollReady)
    /\ WF_frVars(ReadBegin \/ ReadCopy \/ ReadAdvance)

FRSpec == FRInit /\ [][FRNext]_frVars /\ FRFairness

-----------------------------------------------------------------------------
(* Properties *)

\* The frames of a ring between the two indices, oldest first.
Frames(ring) == [i \in 1..(ring.w - ring.r) |->
                   ring.slot[(ring.r + i - 1) % Slots]]

Queues == [o \in Objects |-> Frames(mem[o])]

Fifo == INSTANCE FrameQueue WITH queue <- Queues, Capacity <- Slots

\* The lock-free ring is a bounded FIFO: a frame becomes readable only whole
\* (write_frame copies it before the release store of write_idx), is never
\* overwritten while it can be read, and frames leave in the order they were
\* published, whatever the interleaving of producer, reader and crashes.
ImplementsFifo == Fifo!QSpec

\* The ring under the current name is drained again and again (for good once
\* the producers stop offering), even when the consumer restarts, a bad slot
\* ends a burst early or the wake-up came before the reader slept; only a
\* pause of the feed or the replacement of the object excuses the consumer.
FramesConsumed ==
    \A o \in Objects :
        (name = o /\ mem[o].init) ~> (mem[o].w = mem[o].r \/ name # o \/ paused)

\* A consumer whose ring object was replaced or unlinked leaves it: the
\* identity check sees it and the destructor's join returns although its
\* FUTEX_WAKE may come before the reader thread sleeps.
OrphanAbandoned ==
    (main.o # 0 /\ name # main.o) ~> (main.o = 0)
=============================================================================
