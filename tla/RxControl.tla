----------------------------- MODULE RxControl ------------------------------
(***************************************************************************)
(* A ground embedded in another program: the C handle of                   *)
(* src/node/src/rx_node_c.cpp and the mailbox between its callers and the  *)
(* RX loop (RxRuntimeControl, src/node/src/rx_runtime_control.cpp; the     *)
(* loop's side is in src/node/src/rx_node.cpp).  Callers queue commands    *)
(* into one slot and copy published snapshots, the loop applies and        *)
(* publishes.  A step is what one thread does between two lock             *)
(* acquisitions.  Of the snapshots the campaign's is modelled: scout and   *)
(* selection have the same mechanism without a verdict, discovery, stats   *)
(* and health have no generation.                                          *)
(***************************************************************************)
EXTENDS Naturals

CONSTANTS Runners,      \* threads that call wblink_rx_run on the handle
          MaxQueued,    \* bound: commands accepted
          MaxRuntimeEvents     \* bound: copies and steps of the campaign on its own

ASSUME RxControlAssumption == MaxQueued \in Nat /\ MaxRuntimeEvents \in Nat

NoCmd == [gen |-> 0, kind |-> "none"]
NoSnap == [there |-> FALSE, gen |-> 0, verdict |-> 0, age |-> 0]

VARIABLES node,     \* the handle: stop, used, state, exit_rc
          run,      \* per runner: where its call is
          box,      \* the mailbox: running, next, applied, pending, request, snapshot
          iter,     \* the loop: its step, the command in hand, a generation read
          world,    \* the loop-owned campaign state, as a version
          rtEvents

rcVars == <<node, run, box, iter, world, rtEvents>>

RCInit ==
    /\ node = [stop |-> FALSE, used |-> FALSE, state |-> "created", rc |-> "unset"]
    /\ run = [r \in Runners |-> "out"]
    /\ box = [running |-> FALSE, next |-> 0, applied |-> 0, pending |-> NoCmd,
              request |-> FALSE, snap |-> NoSnap]
    /\ iter = [at |-> "off", cmd |-> NoCmd, gen |-> 0]
    /\ world = 0 /\ rtEvents = 0

RuntimeEvent == rtEvents < MaxRuntimeEvents /\ rtEvents' = rtEvents + 1

-----------------------------------------------------------------------------
\* Callers: wblink_rx_request_stop, the enqueue_* family, copy_command.
RequestStop ==
    /\ ~node.stop /\ node' = [node EXCEPT !.stop = TRUE]
    /\ UNCHANGED <<run, box, iter, world, rtEvents>>

\* Latest intent: an untaken command is superseded.
MailSlotKeepsFirst(new) == IF box.pending = NoCmd THEN new ELSE box.pending
MailSlot(new) == new

EnqueueCommand(kind) ==
    /\ box.running /\ box.next < MaxQueued
    /\ box' = [box EXCEPT !.next = @ + 1,
                          !.pending = MailSlot([gen |-> box.next + 1, kind |-> kind])]
    /\ UNCHANGED <<node, run, iter, world, rtEvents>>

\* Every copy asks for a fresh snapshot; it returns the one there is, or the applied
\* generation when there is none, and changes nothing else.
CopyCommand ==
    /\ RuntimeEvent
    /\ box' = [box EXCEPT !.request = TRUE]
    /\ UNCHANGED <<node, run, iter, world>>

-----------------------------------------------------------------------------
\* wblink_rx_run: the handle runs once.
ClaimRun(r) ==
    /\ run[r] = "out"
    /\ run' = [run EXCEPT ![r] = IF node.used THEN "refused" ELSE "claimed"]
    /\ node' = [node EXCEPT !.used = TRUE]
    /\ UNCHANGED <<box, iter, world, rtEvents>>

Running(r) ==
    /\ run[r] = "claimed"
    /\ node' = [node EXCEPT !.state = "running"]
    /\ run' = [run EXCEPT ![r] = "starting"]
    /\ UNCHANGED <<box, iter, world, rtEvents>>

\* The stop that came first; start_run; the configuration or backend that fails.
PreStopped(r) ==
    /\ run[r] = "starting" /\ node.stop
    /\ run' = [run EXCEPT ![r] = "ok"]
    /\ UNCHANGED <<node, box, iter, world, rtEvents>>

StartRun(r) ==
    /\ run[r] = "starting" /\ ~node.stop
    /\ box' = [box EXCEPT !.running = TRUE]
    /\ run' = [run EXCEPT ![r] = "loading"]
    /\ UNCHANGED <<node, iter, world, rtEvents>>

Load(r, ok) ==
    /\ run[r] = "loading"
    /\ run' = [run EXCEPT ![r] = IF ok THEN "looping" ELSE "closing"]
    /\ iter' = IF ok THEN [iter EXCEPT !.at = "top"] ELSE iter
    /\ node' = IF ok THEN node ELSE [node EXCEPT !.rc = "failing"]
    /\ UNCHANGED <<box, world, rtEvents>>

\* ~RuntimeRunGuard: stop_run() drops what was not taken.
StopRun(r) ==
    /\ run[r] = "closing"
    /\ box' = [box EXCEPT !.running = FALSE, !.pending = NoCmd]
    /\ run' = [run EXCEPT ![r] = IF node.rc = "failing" THEN "failed" ELSE "ok"]
    /\ UNCHANGED <<node, iter, world, rtEvents>>

StoreRc(r) ==
    /\ run[r] \in {"ok", "failed"}
    /\ node' = [node EXCEPT !.rc = run[r]]
    /\ run' = [run EXCEPT ![r] = "stored"]
    /\ UNCHANGED <<box, iter, world, rtEvents>>

Exited(r) ==
    /\ run[r] = "stored"
    /\ node' = [node EXCEPT !.state = "exited"]
    /\ run' = [run EXCEPT ![r] = "returned"]
    /\ UNCHANGED <<box, iter, world, rtEvents>>

-----------------------------------------------------------------------------
\* The loop.  Top: the stop flag, then the command in the slot.
LoopEnds ==
    /\ iter.at = "top" /\ node.stop
    /\ iter' = [iter EXCEPT !.at = "final", !.gen = box.applied]
    /\ UNCHANGED <<node, run, box, world, rtEvents>>

TakeCommand ==
    /\ iter.at = "top" /\ ~node.stop
    /\ IF box.pending = NoCmd THEN iter' = [iter EXCEPT !.at = "serve"]
       ELSE iter' = [iter EXCEPT !.at = "apply", !.cmd = box.pending]
    /\ box' = [box EXCEPT !.pending = NoCmd]
    /\ UNCHANGED <<node, run, world, rtEvents>>

\* The handler runs, then note_applied.
ApplyCommand ==
    /\ iter.at = "apply"
    /\ world' = world + 1
    /\ box' = [box EXCEPT !.applied = iter.cmd.gen]
    /\ iter' = [iter EXCEPT !.at = "publish"]
    /\ UNCHANGED <<node, run, rtEvents>>

\* A snapshot: the version serialised and the generation it stands for.
Published(gen, verdict) ==
    [box EXCEPT !.snap = [there |-> TRUE, gen |-> gen, verdict |-> verdict, age |-> world]]

PublishApplied ==
    /\ iter.at = "publish"
    /\ box' = Published(iter.cmd.gen, IF iter.cmd.kind = "vehicle" THEN iter.cmd.gen ELSE 0)
    /\ iter' = [iter EXCEPT !.at = "serve", !.cmd = NoCmd]
    /\ UNCHANGED <<node, run, world, rtEvents>>

\* The rest of the iteration moves the campaign by itself.
CampaignMoves ==
    /\ iter.at = "serve" /\ RuntimeEvent
    /\ world' = world + 1
    /\ UNCHANGED <<node, run, box, iter>>

\* applied_generation(), take_command_snapshot_request(), publish_command().
ReadApplied ==
    /\ iter.at = "serve"
    /\ iter' = [iter EXCEPT !.at = "request", !.gen = box.applied]
    /\ UNCHANGED <<node, run, box, world, rtEvents>>

TakeRequest ==
    /\ iter.at = "request"
    /\ iter' = [iter EXCEPT !.at = IF box.request THEN "refresh" ELSE "top"]
    /\ box' = [box EXCEPT !.request = FALSE]
    /\ UNCHANGED <<node, run, world, rtEvents>>

PublishRequested ==
    /\ iter.at = "refresh"
    /\ box' = Published(iter.gen, 0)
    /\ iter' = [iter EXCEPT !.at = "top"]
    /\ UNCHANGED <<node, run, world, rtEvents>>

\* After the loop the final state is published once more.
FinalSkipped == box
FinalPublished == Published(iter.gen, 0)

PublishFinal(r) ==
    /\ iter.at = "final" /\ run[r] = "looping"
    /\ box' = FinalPublished
    /\ iter' = [iter EXCEPT !.at = "off"]
    /\ run' = [run EXCEPT ![r] = "closing"]
    /\ UNCHANGED <<node, world, rtEvents>>

\* The catch-all around run_rx: an exception out of the loop, an allocation that failed
\* or a handler that threw before note_applied, ends the run without the final
\* publications.
RunThrows(r) ==
    /\ run[r] = "looping"
    /\ world' \in IF iter.at = "apply" THEN {world, world + 1} ELSE {world}
    /\ iter' = [at |-> "off", cmd |-> NoCmd, gen |-> 0]
    /\ node' = [node EXCEPT !.rc = "failing"]
    /\ run' = [run EXCEPT ![r] = "closing"]
    /\ UNCHANGED <<box, rtEvents>>

RCNext ==
    \/ RequestStop \/ CopyCommand
    \/ \E k \in {"scout", "vehicle"} : EnqueueCommand(k)
    \/ \E r \in Runners : \/ ClaimRun(r) \/ Running(r) \/ PreStopped(r) \/ StartRun(r)
                          \/ StopRun(r) \/ StoreRc(r) \/ Exited(r) \/ PublishFinal(r)
                          \/ RunThrows(r)
    \/ \E r \in Runners, ok \in BOOLEAN : Load(r, ok)
    \/ LoopEnds \/ TakeCommand \/ ApplyCommand \/ PublishApplied \/ CampaignMoves
    \/ ReadApplied \/ TakeRequest \/ PublishRequested

RCSpec == RCInit /\ [][RCNext]_rcVars

-----------------------------------------------------------------------------
\* While a run is open the newest accepted command is waiting, in the loop's hand or
\* applied: a command queued while the loop takes, applies or publishes an older one
\* is never lost (take_command() empties the slot in the same lock).  Only a run that
\* ends by an exception loses one, the command it had in hand.  The snapshot of a
\* generation is never older than that command's effect.
NewestIntent ==
    /\ box.running => \/ box.next \in {box.pending.gen, iter.cmd.gen, box.applied}
                      \/ node.rc = "failing" /\ box.pending = NoCmd
    /\ box.snap.gen <= box.applied

\* Whoever observes EXITED reads the run's own code; when that code says the loop ended
\* by the stop flag, any snapshot is of the state the loop ended in (the final
\* publications, and the store of the code before the flip of the state).  After a
\* failure the snapshots are the last ones published, and the code says so.
FinalTold ==
    node.state = "exited" =>
        /\ node.rc \in {"ok", "failed"}
        /\ ~box.running /\ iter.at = "off"
        /\ node.rc = "ok" /\ box.snap # NoSnap
              => box.snap.age = world /\ box.snap.gen = box.applied

\* The embedding's view of a run: no accepted command is lost while the loop runs, and a
\* clean end is told in full (rx_runtime_control.cpp, rx_node_c.cpp run_claimed).
RuntimeTold == NewestIntent /\ FinalTold
=============================================================================
