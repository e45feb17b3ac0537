------------------------------ MODULE CsaLink ------------------------------
(***************************************************************************)
(* One ground (node/src/rx_node.cpp) and one craft (node/src/tx_node.cpp)  *)
(* switching channel together: CsaIssuer and CsaFollower, the loops that   *)
(* tick them, the quiet-gap hold of campaign copies, the blocking retunes, *)
(* the CSA_ARMED flag of the craft's DATA frames and the ground's          *)
(* selection state.  The air loses frames (a bounded number of them) and   *)
(* carries one only between radios on the same channel.                    *)
(*                                                                         *)
(* Each loop drains what its radio received, then ticks, once per instant  *)
(* it is not stalled: cNext and gNext are the instants of the next         *)
(* iterations.  An iteration may run late by up to setup.stall, a retune   *)
(* blocks its loop for up to RetuneTime more.                              *)
(***************************************************************************)
EXTENDS CsaFollower, CsaIssuer, Sequences

CONSTANTS
  Ground, Session,  \* the ground's originator and session_id
  Key,              \* the craft's live key, as token_for or the secret give it
  HomeChan,         \* the channel both nodes are configured on
  RetuneTime,       \* bound on how long a blocking retune may take
  FirstBy,          \* bound: latest instant of the first campaign
  UpCap,            \* bound: frames the craft's receive queue holds
  Setups            \* the installations and airs a run covers

\* quiet: qg.enabled(), copies wait for the craft's quiet gap; tsf: what a TSF
\* read may give; faults: failing retunes, stale scout candidates and local
\* moves happen; reports: the ground has return traffic to send; stall: how
\* late an iteration may run.  Bounds: frames lost, campaigns, last instant.
Setup == [quiet : BOOLEAN, tsf : SUBSET {"good", "none", "garbage"} \ {{}},
          faults : BOOLEAN, reports : BOOLEAN, stall : Nat,
          loss : Nat, campaigns : Nat, until : 1 .. MaxNow]

ASSUME LinkConstants ==
  /\ Ground \in Originators /\ Session \in Sessions /\ Key \in Keys
  /\ BootKey = Key /\ HomeChan \in Channels
  /\ {RetuneTime, FirstBy, UpCap} \subseteq Nat
  /\ RetuneTime <= DtToSwitch * Ms  \* the lead time covers the serial retune_all
  /\ Setups \subseteq Setup

VARIABLES
  setup,       \* the installation, fixed for a run
  craftChan,   \* cur_chan of the craft, where its radio is
  craftFlag,   \* csa_armed_flag: CSA_ARMED on every DATA frame
  cNext,       \* instant of the craft loop's next iteration
  groundChan,  \* where the ground's ears are
  gSel,        \* selection_state
  gPrevSel,    \* previous_selection_state
  gIntent,     \* campaign_intent
  gRest,       \* active_selection.chan
  held,        \* csa_copy_held: {} or {copy}
  heldUntil,   \* csa_copy_fallback_us (0 = none)
  gNext,       \* instant of the ground loop's next iteration
  gHandled,    \* an operator request was served in this iteration
  up,          \* copies and beacons in the craft's receive queue
  down,        \* CSA_ARMED flags of the DATA frames queued at the ground
  losses       \* frames lost so far

gVars == <<groundChan, gSel, gPrevSel, gIntent, gRest>>
heldVars == <<held, heldUntil>>
linkVars == <<now, setup, fVars, iVars, gVars, heldVars, craftChan, craftFlag, cNext,
              gNext, gHandled, up, down, losses>>

LinkInit ==
  /\ now = 1 /\ setup \in Setups /\ FInit /\ IInit
  /\ craftChan = HomeChan /\ craftFlag = FALSE /\ cNext = 1
  /\ groundChan = HomeChan /\ gSel = "configured" /\ gPrevSel = "configured"
  /\ gIntent = "retune" /\ gRest = HomeChan
  /\ held = {} /\ heldUntil = 0 /\ gNext = 1 /\ gHandled = FALSE
  /\ up = <<>> /\ down = <<>> /\ losses = 0

-----------------------------------------------------------------------------
(* The air.                                                                *)

Lose == losses < setup.loss /\ losses' = losses + 1

\* A frame the ground injects: heard by a craft on the channel, or lost.
\* A full queue drops the newcomer.
Transmit(p) ==
  \/ /\ craftChan = groundChan /\ UNCHANGED losses
     /\ up' = IF Len(up) < UpCap THEN Append(up, [pkt |-> p, at |-> now])
              ELSE up
  \/ craftChan = groundChan /\ Lose /\ UNCHANGED up
  \/ craftChan # groundChan /\ UNCHANGED <<up, losses>>

\* A DATA frame of the craft, on channel c; runs of equal flags collapse,
\* since the second of two equal frames handled in one drain changes nothing.
Queued(flag) == IF down # <<>> /\ down[Len(down)] = flag THEN down
                ELSE Append(down, flag)
SendData(c, flag) ==
  \/ c = groundChan /\ down' = Queued(flag) /\ UNCHANGED losses
  \/ c = groundChan /\ Lose /\ UNCHANGED down
  \/ c # groundChan /\ UNCHANGED <<down, losses>>

\* Time passes once neither loop owes an iteration at this instant.
Advance ==
  /\ now < setup.until /\ cNext > now /\ gNext > now
  /\ now' = now + 1
  /\ UNCHANGED <<setup, fVars, iVars, gVars, heldVars, craftChan, craftFlag, cNext,
                 gNext, gHandled, up, down, losses>>

\* The bound of the clock.
Halt == now = setup.until /\ cNext > now /\ gNext > now /\ UNCHANGED linkVars

-----------------------------------------------------------------------------
(* The craft's loop (run_tx): drain the radio, tick the follower, mirror   *)
(* campaign_active into CSA_ARMED, send video.                             *)

CraftRuns == cNext <= now
CraftOnly == UNCHANGED <<now, setup, iVars, gVars, heldVars, gNext, gHandled>>

\* The TSF delta on_csa sees for a frame received at `at'.
Elapsed(read, at, dt) ==
  CASE read = "good" -> now - at
    [] read = "none" -> 0
    [] read = "garbage" -> dt * Ms + 1

CraftHears ==
  /\ CraftRuns /\ up # <<>>
  /\ \E r \in setup.tsf :
       FOnCsa(Head(up).pkt, Elapsed(r, Head(up).at, Head(up).pkt.dt))
  /\ up' = Tail(up)
  /\ CraftOnly /\ UNCHANGED <<craftChan, craftFlag, cNext, down, losses>>

\* A LINK_REPORT, heartbeat or command of the ground.
CraftHearsTraffic ==
  /\ setup.reports /\ CraftRuns /\ craftChan = groundChan
  /\ FNoteValidRx(Ground)
  /\ CraftOnly /\ UNCHANGED <<craftChan, craftFlag, cNext, up, down, losses>>

CampaignActive == fState' \in {"armed", "verify"}

\* The rest of an iteration: the flag edge, then the slot's DATA frame.
FlagAndSend(c) ==
  /\ craftFlag' = CampaignActive
  /\ SendData(c, CampaignActive)
  /\ CraftOnly /\ UNCHANGED up

CraftRetune ==
  /\ CraftRuns /\ up = <<>> /\ FSwitch
  /\ craftChan' \in {fCampaign.target} \cup (IF setup.faults THEN {craftChan} ELSE {})
  /\ cNext' \in now + 1 .. now + 1 + RetuneTime
  /\ CraftOnly /\ UNCHANGED <<craftFlag, up, down, losses>>

\* Any further video slot of an iteration, under the flag of the moment.
CraftVideo ==
  /\ CraftRuns /\ craftChan = groundChan
  /\ down' = Queued(craftFlag)
  /\ CraftOnly /\ UNCHANGED <<fVars, craftChan, craftFlag, cNext, up, losses>>

CraftTick ==
  /\ CraftRuns /\ up = <<>>
  /\ FVerify \/ FRelease \/ FQuiet
  /\ cNext' \in now + 1 .. now + 1 + setup.stall
  /\ FlagAndSend(craftChan) /\ UNCHANGED craftChan

\* channel_set / move of the craft's control API.
CraftLocalRetune(c) ==
  /\ setup.faults /\ CraftRuns
  /\ FDetach /\ craftChan' = c
  /\ cNext' \in now .. now + RetuneTime
  /\ CraftOnly /\ UNCHANGED <<craftFlag, up, down, losses>>

-----------------------------------------------------------------------------
(* The ground's loop (run_rx): drain the radio, release the held copy,     *)
(* act on the issuer's tick.                                               *)

GroundRuns == gNext <= now
GroundOnly == UNCHANGED <<now, setup, fVars, craftChan, craftFlag, cNext>>

GroundHears ==
  /\ GroundRuns /\ down # <<>>
  /\ INoteCraftFrame(Head(down)) /\ down' = Tail(down)
  /\ GroundOnly /\ UNCHANGED <<gVars, heldVars, gNext, gHandled, up, losses>>

HeldDue == held # {} /\ heldUntil <= now

\* The held copy goes out in a quiet gap (any moment) or on its fallback;
\* restamped, or dropped when its campaign is over or the window closed.
GroundRelease ==
  /\ GroundRuns /\ held # {}
  /\ \E p \in held : IF CanRestamp(p) THEN Transmit(RestampCopy(p))
                     ELSE UNCHANGED <<up, losses>>
  /\ held' = {} /\ heldUntil' = 0
  /\ GroundOnly /\ UNCHANGED <<iVars, gVars, gNext, gHandled, down>>

GroundReady == GroundRuns /\ down = <<>> /\ ~HeldDue
NextIteration(late) ==
  gNext' \in now + 1 .. now + 1 + late /\ gHandled' = FALSE

GroundSendCopy ==
  /\ GroundReady /\ ISendCopy
  /\ IF setup.quiet
     THEN /\ held' = {StampCopy(iTmpl)}
          /\ heldUntil' = IF heldUntil = 0 THEN now + CopySpacing ELSE heldUntil
          /\ UNCHANGED <<up, losses>>
     ELSE Transmit(StampCopy(iTmpl)) /\ UNCHANGED heldVars
  /\ NextIteration(setup.stall)
  /\ GroundOnly /\ UNCHANGED <<gVars, down>>

GroundSendBeacon ==
  /\ GroundReady /\ ISendBeacon
  /\ Transmit(Beacon)
  /\ NextIteration(setup.stall)
  /\ GroundOnly /\ UNCHANGED <<gVars, heldVars, down>>

GroundQuiet ==
  /\ GroundReady /\ (ICloseWindow \/ IQuiet)
  /\ NextIteration(setup.stall)
  /\ GroundOnly /\ UNCHANGED <<gVars, heldVars, up, down, losses>>

\* kCommit, retune_all succeeding.
GroundCommit ==
  /\ GroundReady /\ ICommit(TRUE)
  /\ groundChan' = iTmpl.target /\ gRest' = iTmpl.target
  /\ gSel' = "verifying"
  /\ NextIteration(RetuneTime)
  /\ GroundOnly /\ UNCHANGED <<gPrevSel, gIntent, heldVars, up, down, losses>>

\* kCommit, retune_all failing: abandon and put the ears back.
GroundCommitFails ==
  /\ setup.faults /\ GroundReady /\ ICommit(FALSE)
  /\ groundChan' \in {gRest, groundChan, iTmpl.target} /\ gSel' = gPrevSel
  /\ NextIteration(RetuneTime)
  /\ GroundOnly
  /\ UNCHANGED <<gPrevSel, gIntent, gRest, heldVars, up, down, losses>>

\* kAbort: an acquire parks where it is, a retune stays on the resting channel.
GroundAbort ==
  /\ GroundReady /\ IAbort
  /\ IF gIntent = "acquire"
     THEN gRest' = iTmpl.target /\ gSel' = "select_failed" /\ UNCHANGED groundChan
     ELSE groundChan' = gRest /\ gSel' = gPrevSel /\ UNCHANGED gRest
  /\ NextIteration(RetuneTime)
  /\ GroundOnly /\ UNCHANGED <<gPrevSel, gIntent, heldVars, up, down, losses>>

\* kSuccess: the campaign closes; only craft video makes it a commit.
GroundClose ==
  /\ GroundReady /\ ISuccess
  /\ gSel' = CASE ~iVideoSeen -> "select_failed"
               [] iVideoSeen /\ gSel = "verifying" -> "committed"
               [] OTHER -> gSel
  /\ NextIteration(setup.stall)
  /\ GroundOnly
  /\ UNCHANGED <<groundChan, gPrevSel, gIntent, gRest, heldVars, up, down,
                 losses>>

-----------------------------------------------------------------------------
(* The operator.  Handlers run inside the ground's loop, one an iteration. *)

Serves == GroundRuns /\ ~gHandled
MayStart == /\ iLastCampaign = 0 => now <= FirstBy
            /\ iNextNonce <= setup.campaigns

\* A handler's retune blocks the loop; the campaign it starts is stamped with
\* the iteration's clock, read before the retune.
HandlerTime(t) == gNext' \in now .. now + t /\ gHandled' = TRUE

\* do_claim: the ears go to the candidate's channel, then the campaign starts
\* for that same channel, or is refused and the ears go back.
GroundClaim(c) ==
  /\ Serves /\ ~Active /\ (setup.faults \/ c = craftChan)
  /\ \/ /\ MayStart /\ IStart(Key, Ground, Session, c)
        /\ groundChan' = c /\ gPrevSel' = gSel /\ gIntent' = "acquire"
        /\ gSel' = "claiming" /\ UNCHANGED gRest
     \/ /\ ~CanStart(Key, c) /\ iPsk' = Key
        /\ UNCHANGED <<iState, iNextNonce, iLastCampaign, iTmpl, iCopiesLeft,
                       iNextCopy, iSwitchAt, iVerifyDeadline, iNextBeacon,
                       iArmedSeen, iVideoSeen, iLandingSeen>>
        /\ groundChan' = gRest
        /\ UNCHANGED <<gPrevSel, gIntent, gSel, gRest>>
  /\ HandlerTime(RetuneTime) /\ GroundOnly /\ UNCHANGED <<heldVars, up, down, losses>>

\* h.csa: move the craft we fly.
GroundCsa(c) ==
  /\ Serves
  /\ MayStart /\ IStart(Key, Ground, Session, c)
  /\ gPrevSel' = gSel /\ gIntent' = "retune" /\ gSel' = "claiming"
  /\ HandlerTime(0) /\ GroundOnly
  /\ UNCHANGED <<groundChan, gRest, heldVars, up, down, losses>>

\* h.move of the ground: refused while a campaign is active.
GroundMove(c) ==
  /\ setup.faults /\ Serves /\ ~Active
  /\ groundChan' = c /\ gRest' = c /\ gSel' = "spectating"
  /\ HandlerTime(RetuneTime) /\ GroundOnly
  /\ UNCHANGED <<iVars, gPrevSel, gIntent, heldVars, up, down, losses>>

\* The 2 first-latch adoptions: a heard craft promotes these states.
GroundLatch ==
  /\ GroundRuns /\ gSel \in {"configured", "select_failed"}
  /\ craftChan = groundChan
  /\ gSel' = "latched"
  /\ GroundOnly
  /\ UNCHANGED <<iVars, groundChan, gPrevSel, gIntent, gRest, heldVars, gNext,
                 gHandled, up, down, losses>>

LinkNext ==
  \/ Advance \/ Halt
  \/ CraftHears \/ CraftHearsTraffic \/ CraftRetune \/ CraftTick
  \/ CraftVideo
  \/ \E c \in Channels : CraftLocalRetune(c)
  \/ GroundHears \/ GroundRelease \/ GroundSendCopy \/ GroundSendBeacon
  \/ GroundQuiet \/ GroundCommit \/ GroundCommitFails \/ GroundAbort
  \/ GroundClose
  \/ \E c \in Channels : GroundClaim(c) \/ GroundCsa(c) \/ GroundMove(c)
  \/ GroundLatch

LinkSpec == LinkInit /\ [][LinkNext]_linkVars
-----------------------------------------------------------------------------
(* Bounds on how long things may take, from the constants above.           *)

Late == setup.stall + 1
\* start -> T_switch -> late close of the copy window -> late commit -> blocking
\* retune -> deadline, re-anchored at most once by a late frame -> late tick.
CampaignSpan == DtToSwitch * Ms + 2 * (VerifyTimeout * Ms) + RetuneTime + 4 * Late
\* T_switch -> late tick -> blocking retune -> landing tick -> deadline.
CraftSpan == VerifyTimeout * Ms + RetuneTime + 3 * Late

\* How long a copy may lie in the craft's queue, and the least dt on the air.
LookDelay == Max2(setup.stall, RetuneTime) + 1
ShortestDt == (CopyCutoff + 1) \div Ms
Lateness == IF setup.tsf = {"good"} /\ LookDelay <= ShortestDt * Ms THEN 0 ELSE LookDelay

\* 11.2: the two ends agree on T_switch.  Whichever copy the craft accepted,
\* first or last, held for the quiet gap or not, with a TSF that was good,
\* unreadable or garbage, its switch instant is the issuer's own, early by less
\* than the millisecond the wire rounds away and late by no more than the time
\* the craft took to look at the copy, and not late at all when its TSF is good
\* and it looks before the copy's dt is over (blocking local retunes of the
\* craft apart: they have no bound).
SwitchAgreement ==
  (/\ ~setup.faults
   /\ fState = "armed" /\ Active /\ fCampaign.nonce = iTmpl.nonce) =>
    /\ iSwitchAt - Ms < fSwitchAt
    /\ fSwitchAt <= iSwitchAt + Lateness

\* The vehicle acknowledges before the ground commits (README): a ground that
\* moved on a campaign moved on one the craft accepted.
AckedCommit ==
  iState = "verify" => fLastApplied[<<Ground, Session>>] >= iTmpl.nonce

\* A campaign sticks at neither end, whatever the other end does or the air
\* loses: the issuer leaves it within CampaignSpan (Pass 197: every later claim
\* would be refused as busy), and the craft, once armed, resolves T_switch and
\* its verify window within CraftSpan (CSA_ARMED would stay set).
CampaignResolves ==
  /\ Active => now <= iLastCampaign + CampaignSpan
  /\ fState \in {"armed", "verify"} => now <= fSwitchAt + CraftSpan

\* Both ends back at rest with nothing in flight.
AtRest == /\ ~Active /\ fState \notin {"armed", "verify"}
          /\ up = <<>> /\ held = {} /\ iNextNonce > 1

\* When nothing was lost, radios do what they are told and no loop runs late
\* but for its own blocking retune, a campaign ends with both nodes on the same
\* channel: no interleaving of copies, holds, flags and retunes strands the
\* pair.
NoStrand ==
  (AtRest /\ losses = 0 /\ ~setup.faults /\ setup.stall = 0)
  => craftChan = groundChan

\* The ground reports a claim committed only when the craft is on the ground's
\* channel and has itself finished the very campaign the ground closes (the
\* craft's own operator, who may detach at any moment, apart).
CommittedTogether ==
  [][(~setup.faults /\ gSel = "verifying" /\ gSel' = "committed") =>
       /\ craftChan = groundChan
       /\ fState = "committed" /\ fCampaign.nonce = iTmpl.nonce]_linkVars

\* A campaign ends, and ends well when nothing failed: neither side sticks in it, and
\* without losses or faults the pair is together afterwards (csa.cpp tick of both
\* halves, rx_node.cpp and tx_node.cpp retunes).
CampaignSettles == CampaignResolves /\ NoStrand
=============================================================================
