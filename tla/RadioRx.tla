------------------------------ MODULE RadioRx ------------------------------
(***************************************************************************)
(* The receive half of the radio backend (io/src/air_radio.cpp): one RX    *)
(* thread per ear runs the driver's loop and hands accepted frames to a    *)
(* bounded queue; the main thread polls that queue, retunes the ears,      *)
(* restarts an ear's loop and tears the backend down.  AirBackend          *)
(* (node/include/wblink/node/air_backend.h) loops over the ears and keeps  *)
(* the channel of each.  A frame waits in the ear's USB pipeline, which no  *)
(* flush reaches, until the thread takes it.  A step of a thread is what   *)
(* it does between two accesses to shared state: it stamps the frame with  *)
(* the flush generation, enqueues it under the mutex, writes the eventfd.  *)
(***************************************************************************)
EXTENDS Naturals, Sequences

CONSTANTS Ears,         \* adapters, 1..n
          RxQueueCap,   \* kRxQueueCap
          Tunes,        \* channels the node uses
          MaxFrames,    \* frames heard in a behaviour
          MaxRetunes    \* retunes, recoveries and loop deaths in a behaviour

ASSUME RadioRxAssumption == /\ Ears # {} /\ Ears \subseteq Nat
                            /\ RxQueueCap \in Nat \ {0}
                            /\ Tunes # {}
                            /\ MaxFrames \in Nat /\ MaxRetunes \in Nat

VARIABLES pipe,     \* ear -> the frame heard but not yet taken by its RX thread
          thr,      \* ear -> [at, frame]: where its RX thread is, the frame in hand
          loop,     \* ear -> [stop, dead]: StopRxLoop was called; rx_dead
          queue,    \* frames waiting for poll_once, oldest first
          flushGen, \* flush_gen
          ready,    \* the eventfd holds a wakeup
          main,     \* [at, ears, target, ok, local]: the main thread's operation
          tuned,    \* ear -> channel the chip is on
          noted,    \* chan_by_adapter
          died,     \* ears whose loop threw and was not restarted
          handed,   \* the last frame poll_once passed to the node
          rxUsed    \* [frames, retunes] spent of the bounds

rrVars == <<pipe, thr, loop, queue, flushGen, ready, main, tuned, noted, died, handed, rxUsed>>

\* A frame: the ear, flush_gen when on_packet stamped it, and (not kept by the code)
\* the channel it was on the air on and flush_gen at that time.
NoFrame == [ear |-> 0, gen |-> 0, chan |-> 0, aired |-> 0]
Resting == [at |-> "idle", ears |-> {}, target |-> 0, ok |-> FALSE, local |-> << >>]
AnyTune == CHOOSE c \in Tunes : TRUE

RRInit == /\ pipe = [e \in Ears |-> NoFrame]
          /\ thr = [e \in Ears |-> [at |-> "loop", frame |-> NoFrame]]
          /\ loop = [e \in Ears |-> [stop |-> FALSE, dead |-> FALSE]]
          /\ queue = << >> /\ flushGen = 0 /\ ready = FALSE
          /\ main = Resting
          /\ tuned = [e \in Ears |-> AnyTune]
          /\ noted = tuned
          /\ died = {} /\ handed = NoFrame
          /\ rxUsed = [frames |-> 0, retunes |-> 0]

(***************************************************************************)
(* The RX threads                                                          *)
(***************************************************************************)
(* The chip receives whatever its thread is doing. *)
Hear(e) == /\ pipe[e] = NoFrame /\ main.at # "gone"
           /\ rxUsed.frames < MaxFrames
           /\ pipe' = [pipe EXCEPT ![e] =
                          [ear |-> e, gen |-> 0, chan |-> tuned[e], aired |-> flushGen]]
           /\ rxUsed' = [rxUsed EXCEPT !.frames = @ + 1]
           /\ UNCHANGED <<thr, loop, queue, flushGen, ready, main, tuned, noted, died, handed>>

(* on_packet up to the stamp *)
Stamp(e) == /\ thr[e].at = "loop" /\ pipe[e] # NoFrame
            /\ thr' = [thr EXCEPT ![e] = [at |-> "stamped",
                                         frame |-> [pipe[e] EXCEPT !.gen = flushGen]]]
            /\ pipe' = [pipe EXCEPT ![e] = NoFrame]
            /\ UNCHANGED <<loop, queue, flushGen, ready, main, tuned, noted, died, handed, rxUsed>>

DropOldest(q) == IF Len(q) >= RxQueueCap THEN Tail(q) ELSE q

Enqueue(e) == /\ thr[e].at = "stamped"
              /\ queue' = Append(DropOldest(queue), thr[e].frame)
              /\ thr' = [thr EXCEPT ![e] = [at |-> "queued", frame |-> NoFrame]]
              /\ UNCHANGED <<pipe, loop, flushGen, ready, main, tuned, noted, died, handed, rxUsed>>

Notify(e) == /\ thr[e].at = "queued"
             /\ ready' = TRUE
             /\ thr' = [thr EXCEPT ![e].at = "loop"]
             /\ UNCHANGED <<pipe, loop, queue, flushGen, main, tuned, noted, died, handed, rxUsed>>

LoopReturns(e) == /\ thr[e].at = "loop" /\ loop[e].stop
                  /\ thr' = [thr EXCEPT ![e].at = "done"]
                  /\ UNCHANGED <<pipe, loop, queue, flushGen, ready, main, tuned, noted, died, handed, rxUsed>>

(* The driver's loop threw (a dongle glitch): the thread latches rx_dead.  *)
LoopThrows(e) == /\ thr[e].at = "loop"
                 /\ rxUsed.retunes < MaxRetunes
                 /\ thr' = [thr EXCEPT ![e].at = "done"]
                 /\ loop' = [loop EXCEPT ![e].dead = TRUE]
                 /\ died' = died \union {e}
                 /\ rxUsed' = [rxUsed EXCEPT !.retunes = @ + 1]
                 /\ UNCHANGED <<pipe, queue, flushGen, ready, main, tuned, noted, handed>>

(***************************************************************************)
(* The main thread: poll_once                                              *)
(***************************************************************************)
PollBegin == /\ main.at = "idle" /\ ready
             /\ ready' = FALSE
             /\ main' = [main EXCEPT !.at = "swap"]
             /\ UNCHANGED <<pipe, thr, loop, queue, flushGen, tuned, noted, died, handed, rxUsed>>

PollSwap == /\ main.at = "swap"
            /\ main' = [main EXCEPT !.at = "deliver", !.local = queue]
            /\ queue' = << >>
            /\ UNCHANGED <<pipe, thr, loop, flushGen, ready, tuned, noted, died, handed, rxUsed>>

SinceFlush(f) == f.gen = flushGen

Deliver == /\ main.at = "deliver" /\ main.local # << >>
           /\ handed' = IF SinceFlush(Head(main.local)) THEN Head(main.local) ELSE NoFrame
           /\ main' = [main EXCEPT !.local = Tail(@)]
           /\ UNCHANGED <<pipe, thr, loop, queue, flushGen, ready, tuned, noted, died, rxUsed>>

WakeupLeft == ready

PollEnds == /\ main.at = "deliver" /\ main.local = << >>
            /\ main' = Resting
            /\ ready' = WakeupLeft
            /\ UNCHANGED <<pipe, thr, loop, queue, flushGen, tuned, noted, died, handed, rxUsed>>

(***************************************************************************)
(* The main thread: retune_all / retune_one and recover_all                *)
(***************************************************************************)
Begin(what) == /\ main.at = "idle" /\ rxUsed.retunes < MaxRetunes
               /\ \E c \in Tunes, s \in SUBSET Ears :
                    /\ s # {}
                    /\ main' = [main EXCEPT !.at = what, !.ears = s, !.target = c]
               /\ rxUsed' = [rxUsed EXCEPT !.retunes = @ + 1]
               /\ handed' = NoFrame
               /\ UNCHANGED <<pipe, thr, loop, queue, flushGen, ready, tuned, noted, died>>

BeginRetune == Begin("retune")
BeginRecover == Begin("stop")

NextEar == CHOOSE e \in main.ears : \A f \in main.ears : e <= f

(* A retune that the driver did not apply leaves the ear where it was; a   *)
(* loop over one ear is retune_one.                                        *)
Retune == /\ main.at = "retune" /\ main.ears # {}
          /\ \E applied \in BOOLEAN :
                /\ tuned' = [tuned EXCEPT ![NextEar] = IF applied THEN main.target ELSE @]
                /\ noted' = [noted EXCEPT ![NextEar] = IF applied THEN main.target ELSE @]
          /\ main' = [main EXCEPT !.ears = @ \ {NextEar}]
          /\ UNCHANGED <<pipe, thr, loop, queue, flushGen, ready, died, handed, rxUsed>>

RetunesDone == /\ main.at = "retune" /\ main.ears = {}
               /\ main' = [main EXCEPT !.at = "bump"]
               /\ UNCHANGED <<pipe, thr, loop, queue, flushGen, ready, tuned, noted, died, handed, rxUsed>>

FlushBump == /\ main.at = "bump"
             /\ flushGen' = flushGen + 1
             /\ main' = [main EXCEPT !.at = "clear"]
             /\ UNCHANGED <<pipe, thr, loop, queue, ready, tuned, noted, died, handed, rxUsed>>

FlushClear == /\ main.at = "clear"
              /\ queue' = << >>
              /\ main' = Resting
              /\ UNCHANGED <<pipe, thr, loop, flushGen, ready, tuned, noted, died, handed, rxUsed>>

(* recover: stop the loop, join the thread, set the channel, clear the     *)
(* death latch, start a new loop.                                          *)
ClearThenRestart == <<"undead", "start">>

RecoverStop == /\ main.at = "stop" /\ main.ears # {}
               /\ loop' = [loop EXCEPT ![NextEar].stop = TRUE]
               /\ main' = [main EXCEPT !.at = "join"]
               /\ UNCHANGED <<pipe, thr, queue, flushGen, ready, tuned, noted, died, handed, rxUsed>>

RecoverTune == /\ main.at = "join" /\ thr[NextEar].at = "done"
               /\ \E applied \in BOOLEAN :
                    /\ tuned' = [tuned EXCEPT ![NextEar] = IF applied THEN main.target ELSE @]
                    /\ noted' = [noted EXCEPT ![NextEar] = IF applied THEN main.target ELSE @]
                    /\ main' = [main EXCEPT !.at = ClearThenRestart[1], !.ok = @ \/ applied]
               /\ UNCHANGED <<pipe, thr, loop, queue, flushGen, ready, died, handed, rxUsed>>

AfterRestartStep(what) == IF what = ClearThenRestart[1] THEN ClearThenRestart[2] ELSE "stop"
Restarted(what) == [main EXCEPT !.at = AfterRestartStep(what),
                       !.ears = IF what = ClearThenRestart[2] THEN @ \ {NextEar} ELSE @]

RecoverUndead == /\ main.at = "undead"
                 /\ loop' = [loop EXCEPT ![NextEar].dead = FALSE]
                 /\ main' = Restarted("undead")
                 /\ UNCHANGED <<pipe, thr, queue, flushGen, ready, tuned, noted, died, handed, rxUsed>>

RecoverStart == /\ main.at = "start"
                /\ thr' = [thr EXCEPT ![NextEar].at = "loop"]
                /\ loop' = [loop EXCEPT ![NextEar].stop = FALSE]
                /\ died' = died \ {NextEar}
                /\ main' = Restarted("start")
                /\ UNCHANGED <<pipe, queue, flushGen, ready, tuned, noted, handed, rxUsed>>

RecoversDone == /\ main.at = "stop" /\ main.ears = {}
                /\ main' = IF main.ok THEN [main EXCEPT !.at = "bump"] ELSE Resting
                /\ UNCHANGED <<pipe, thr, loop, queue, flushGen, ready, tuned, noted, died, handed, rxUsed>>

(***************************************************************************)
(* ~Impl: every loop is stopped, every thread joined, and only then are    *)
(* the units destroyed: a thread may still touch another ear's counters    *)
(* while it drops that ear's oldest frame.                                 *)
(***************************************************************************)
TeardownStop == /\ main.at = "idle"
                /\ main' = [main EXCEPT !.at = "joinall"]
                /\ loop' = [e \in Ears |-> [loop[e] EXCEPT !.stop = TRUE]]
                /\ UNCHANGED <<pipe, thr, queue, flushGen, ready, tuned, noted, died, handed, rxUsed>>

SomeJoined == \E e \in Ears : thr[e].at = "done"
AllJoined == \A e \in Ears : thr[e].at = "done"

Destroy == /\ main.at = "joinall" /\ AllJoined
           /\ main' = [main EXCEPT !.at = "gone"]
           /\ UNCHANGED <<pipe, thr, loop, queue, flushGen, ready, tuned, noted, died, handed, rxUsed>>

RRNext == \/ \E e \in Ears : \/ Hear(e) \/ Stamp(e) \/ Enqueue(e) \/ Notify(e)
                             \/ LoopReturns(e) \/ LoopThrows(e)
          \/ PollBegin \/ PollSwap \/ Deliver \/ PollEnds
          \/ BeginRetune \/ BeginRecover \/ Retune \/ RetunesDone \/ FlushBump \/ FlushClear
          \/ RecoverStop \/ RecoverTune \/ RecoverUndead \/ RecoverStart \/ RecoversDone
          \/ TeardownStop \/ Destroy

RRSpec == RRInit /\ [][RRNext]_rrVars

(***************************************************************************)
(* Properties                                                              *)
(***************************************************************************)
(* ChannelHonest: a frame poll_once hands to the node was on the air on    *)
(* the channel the node believes that ear to be on.  Residue of the        *)
(* previous channel, queued or stamped in an RX thread's hand across the   *)
(* flush, is not passed on.  The one exception is what the flush cannot    *)
(* see: a frame heard before the flush that was still in the USB pipeline, *)
(* or in on_packet before its stamp, when the flush ran, and so carries a  *)
(* later generation than the one it was heard in (air_radio.h:282-285;     *)
(* air_backend.h:676-680, where the scout adds a barrier of its own).      *)
ChannelHonest == handed # NoFrame /\ handed.chan # noted[handed.ear]
                    => handed.aired < handed.gen

(* FrameWakes: a queued frame never waits for the next one: when the main  *)
(* thread may sleep, either the eventfd is readable or a thread is about   *)
(* to write it.                                                            *)
FrameWakes == main.at = "idle" /\ queue # << >>
              => ready \/ \E e \in Ears : thr[e].at = "queued"

(* DeathTold: an ear whose loop threw and was not restarted shows rx_dead  *)
(* whenever the main thread can read the counters.                         *)
DeathTold == main.at = "idle" => \A e \in died : loop[e].dead

(* TeardownQuiet: no RX thread is still inside on_packet once the units    *)
(* are destroyed.                                                          *)
TeardownQuiet == main.at = "gone" => \A e \in Ears : thr[e].at \notin {"stamped", "queued"}

(* EarsSound: what the receive threads hand to the main thread is of the   *)
(* channel the node believes in, down to the USB pipeline's residue, and   *)
(* nothing is lost on the way: no frame without its wakeup, no death       *)
(* untold, no call into a unit that is gone (air_radio.cpp on_packet,      *)
(* flush, recover_adapter, teardown).                                      *)
EarsSound == ChannelHonest /\ FrameWakes /\ DeathTold /\ TeardownQuiet
=============================================================================
