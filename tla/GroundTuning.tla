---------------------------- MODULE GroundTuning ----------------------------
(***************************************************************************)
(* Where a ground's ears are: the scout's sweep (ScoutEngine in            *)
(* src/node/include/wblink/node/discovery.h), a claim of a scouted craft,  *)
(* a channel switch, a followed retune and a manual move all retune the    *)
(* same adapters and pin the same net_id filter in the loop of             *)
(* src/node/src/rx_node.cpp.  One adapter, the uplink's, roams in a sweep; *)
(* the others stay.  A channel switch is the issuer of CsaIssuer, here     *)
(* only its actions.  Any retune of all ears can fail for some of them;    *)
(* most of the restoring ones have their result ignored.  Occupancy and    *)
(* its ranking, and the adoption of a first latch, which moves neither ear *)
(* nor filter, are left out.                                               *)
(***************************************************************************)
EXTENDS Naturals, Sequences

CONSTANTS Chans,      \* channels; the resting one at boot is HomeChan
          HomeChan,
          Flyers,     \* crafts; each has its own net_id
          MaxActs     \* bound: operator and retune events

Wide == "wide"        \* the filter of a sweep: every net_id
NoFlyer == "none"

ASSUME TuningAssumption == HomeChan \in Chans /\ Wide \notin Flyers

Tuple(c, ch) == [craft |-> c, chan |-> ch]    \* LinkSelection; its net_id is the craft's
Idle == [on |-> FALSE, todo |-> <<>>, ready |-> FALSE, heard |-> {}, ext |-> FALSE]

VARIABLES sweep,   \* the sweep: channels to go, retuned, crafts heard, extended
          rest,    \* the tuple a sweep returns to
          found,   \* the candidates of the last sweep
          ears,    \* the roaming adapter's channel and the others'
          filt,    \* the net_id filter
          op,      \* operating_chan
          link,    \* active_selection
          lstate,  \* selection_state
          camp,    \* the switch under way: phase, pending and previous tuple, intent,
                   \* the craft's video seen
          slip,    \* history: "refused", the last retune of all ears failed and was left
                   \* so; "followed", the follower has moved the operating channel
                   \* since the selection last set it
          at,      \* where each craft is
          spectator, \* node.spectator: no uplink; it tunes and follows, never claims
          acts

gtVars == <<sweep, rest, found, ears, filt, op, link, lstate, camp, slip, at, spectator,
            acts>>

NoCamp == [phase |-> "idle", pend |-> Tuple(NoFlyer, 0), prev |-> Tuple(NoFlyer, 0),
           pstate |-> "configured", intent |-> "retune", seen |-> FALSE]

GTInit ==
    /\ sweep = Idle /\ rest = Tuple(NoFlyer, HomeChan) /\ found = {}
    /\ ears = [roam |-> HomeChan, stay |-> HomeChan] /\ filt = NoFlyer
    /\ op = HomeChan /\ link = Tuple(NoFlyer, HomeChan) /\ lstate = "configured"
    /\ camp = NoCamp /\ slip = {} /\ acts = 0
    /\ at \in [Flyers -> Chans] /\ spectator \in BOOLEAN

\* retune_all(): every ear moves, or it fails and each has moved or not.  Of several in
\* a row the last one counts, an ear may be left on any of the channels tried.
All(ch) == [roam |-> ch, stay |-> ch]
Strayed(chs) == [roam : {ears.roam} \cup chs, stay : {ears.stay} \cup chs]
Restored(ch, ok, tried) == ears' \in IF ok THEN {All(ch)} ELSE Strayed(tried \cup {ch})

Refusal(ok) == IF ok THEN {} ELSE {"refused"}
Followed == slip \ {"refused"}

Act == acts < MaxActs /\ acts' = acts + 1
Campaign == camp.phase # "idle"

-----------------------------------------------------------------------------
\* enter_channel(): the roaming adapter moves, or the retune fails.
Enter(todo, ok) ==
    /\ sweep' = [on |-> TRUE, todo |-> todo, ready |-> ok, heard |-> {}, ext |-> FALSE]
    /\ ears' = IF ok THEN [ears EXCEPT !.roam = Head(todo)] ELSE ears

\* finalize_current(): what was heard on the channel becomes candidates.
Finalized == found \cup {Tuple(c, Head(sweep.todo)) : c \in sweep.heard}

\* rest(): every ear and the filter go back; nobody asks whether the ears did.
Rest(ok) ==
    /\ sweep' = Idle /\ Restored(rest.chan, ok, {}) /\ filt' = rest.craft
    /\ slip' = Followed \cup Refusal(ok)

\* start_scout_sweep(): any time, over a running sweep too.
StartSweep(todo, ok) ==
    /\ Act
    /\ rest' = Tuple(link.craft, op) /\ filt' = Wide /\ found' = {}
    /\ Enter(todo, ok)
    /\ UNCHANGED <<op, link, lstate, camp, slip, at, spectator>>

StopSweep(ok) ==
    /\ sweep.on /\ found' = Finalized /\ Rest(ok)
    /\ UNCHANGED <<rest, op, link, lstate, camp, at, acts, spectator>>

\* on_frame(): what the roaming adapter hears counts for the channel of the dwell,
\* wherever a switch or a move has taken the adapter since.
FrameHeard(c) ==
    /\ sweep.on /\ sweep.ready /\ at[c] = ears.roam
    /\ c \notin sweep.heard
    /\ sweep' = [sweep EXCEPT !.heard = @ \cup {c}]
    /\ UNCHANGED <<rest, found, ears, filt, op, link, lstate, camp, slip, at, acts, spectator>>

\* tick() past the dwell: a channel with traffic is heard once more.
DwellEnds(ok) ==
    /\ sweep.on
    /\ IF sweep.heard # {} /\ ~sweep.ext
       THEN sweep' = [sweep EXCEPT !.ext = TRUE] /\ UNCHANGED <<found, ears, filt, slip>>
       ELSE /\ found' = Finalized
            /\ IF Len(sweep.todo) = 1 THEN Rest(ok)
               ELSE Enter(Tail(sweep.todo), ok) /\ UNCHANGED <<filt, slip>>
    /\ UNCHANGED <<rest, op, link, lstate, camp, at, acts, spectator>>

\* abandon(): the sweep ends where it is; the caller retunes.
Abandoned == IF sweep.on THEN Finalized ELSE found

-----------------------------------------------------------------------------
\* do_claim(): the sweep ends, the ears go to the craft's channel, the switch starts;
\* a refusal of the retune or of the start rolls ears (back) and filter back.
Claim(t, ok, back) ==
    /\ ~spectator /\ Act /\ t \in found /\ ~Campaign
    /\ sweep' = Idle /\ found' = Abandoned
    /\ IF ok
       THEN /\ ears' = All(t.chan) /\ filt' = t.craft /\ lstate' = "claiming"
            /\ camp' = [phase |-> "arming", pend |-> t, prev |-> link, pstate |-> lstate,
                        intent |-> "acquire", seen |-> FALSE]
            /\ slip' = Followed
       ELSE /\ Restored(link.chan, back, {t.chan}) /\ filt' = link.craft
            /\ slip' = Followed \cup Refusal(back) /\ UNCHANGED <<lstate, camp>>
    /\ UNCHANGED <<rest, op, link, at, spectator>>

\* select_scout_candidate(): a spectator's choice is a passive tune; a retune that
\* fails is reported and not undone.
SpectatorSelect(t, ok) ==
    /\ spectator /\ Act /\ t \in found
    /\ sweep' = Idle /\ found' = Abandoned
    /\ IF ok
       THEN /\ ears' = All(t.chan) /\ filt' = t.craft /\ op' = t.chan
            /\ link' = t /\ rest' = t /\ lstate' = "tuned" /\ slip' = {}
       ELSE /\ Restored(t.chan, FALSE, {}) /\ filt' = link.craft
            /\ slip' = slip \cup {"refused"} /\ UNCHANGED <<op, link, rest, lstate>>
    /\ UNCHANGED <<camp, at, spectator>>

\* POST csa: the selected craft, another channel.
Csa(ch) ==
    /\ ~spectator /\ Act /\ ~Campaign /\ link.craft # NoFlyer
    /\ camp' = [phase |-> "arming", pend |-> Tuple(link.craft, ch), prev |-> link,
                pstate |-> lstate, intent |-> "retune", seen |-> FALSE]
    /\ lstate' = "claiming"
    /\ UNCHANGED <<sweep, rest, found, ears, filt, op, link, slip, at, spectator>>

\* kAbort.  An acquire parks where do_claim() left the ears; a switch goes back.
IssuerAborts(ok) ==
    /\ camp.phase = "arming"
    /\ IF camp.intent = "acquire"
       THEN /\ link' = camp.pend /\ op' = camp.pend.chan /\ rest' = camp.pend
            /\ lstate' = "select_failed" /\ UNCHANGED <<ears, filt, slip>>
       ELSE /\ Restored(link.chan, ok, {}) /\ filt' = link.craft /\ op' = link.chan
            /\ slip' = Followed \cup Refusal(ok)
            /\ lstate' = camp.pstate /\ UNCHANGED <<link, rest>>
    /\ camp' = NoCamp
    /\ UNCHANGED <<sweep, found, at, acts, spectator>>

\* The tuple the scout returns to follows a commit.
RestKept(t) == rest
RestMoved(t) == t

\* kCommit: all ears to the target, or, if they would not move, back to the previous
\* tuple (back: the fallback did move them).  The craft went along or did not.
IssuerCommits(ok, back, went) ==
    /\ camp.phase = "arming"
    /\ at' = IF went THEN [at EXCEPT ![camp.pend.craft] = camp.pend.chan] ELSE at
    /\ IF ok
       THEN /\ ears' = All(camp.pend.chan) /\ op' = camp.pend.chan /\ link' = camp.pend
            /\ rest' = RestMoved(camp.pend) /\ lstate' = "verifying"
            /\ camp' = [camp EXCEPT !.phase = "verifying"] /\ filt' = filt /\ slip' = {}
       ELSE /\ Restored(camp.prev.chan, back, {camp.pend.chan}) /\ filt' = camp.prev.craft
            /\ slip' = Refusal(back) /\ op' = camp.prev.chan /\ link' = camp.prev
            /\ rest' = camp.prev /\ lstate' = camp.pstate /\ camp' = NoCamp
    /\ UNCHANGED <<sweep, found, acts, spectator>>

\* The issuer's evidence: the craft's video on the target within the window.
VideoHeard ==
    /\ camp.phase = "verifying" /\ ~camp.seen
    /\ at[link.craft] \in {ears.roam, ears.stay} /\ filt \in {link.craft, Wide}
    /\ camp' = [camp EXCEPT !.seen = TRUE]
    /\ UNCHANGED <<sweep, rest, found, ears, filt, op, link, lstate, slip, at, acts, spectator>>

\* kSuccess at the deadline: committed only if the video was seen.
IssuerCloses ==
    /\ camp.phase = "verifying"
    /\ lstate' = IF ~camp.seen THEN "select_failed"
                 ELSE IF lstate = "verifying" THEN "committed" ELSE lstate
    /\ camp' = NoCamp
    /\ UNCHANGED <<sweep, rest, found, ears, filt, op, link, slip, at, acts, spectator>>

\* The follower runs on every ground: a switch another issuer of the same psk announces
\* moves every ear it can and operating_chan, whatever is selected, and nothing else.
FollowRetune(ch, ok) ==
    /\ Act
    /\ Restored(ch, ok, {}) /\ op' = ch
    /\ slip' = {"followed"} \cup Refusal(ok)
    /\ UNCHANGED <<sweep, rest, found, filt, link, lstate, camp, at, spectator>>

\* POST move: detach and watch another channel.  The retune comes first; if it
\* fails every ear goes back to the operating channel and nothing is detached.
Move(ch, ok, back) ==
    /\ Act /\ ~Campaign
    /\ IF ok
       THEN /\ sweep' = Idle /\ found' = Abandoned
            /\ ears' = All(ch) /\ filt' = NoFlyer /\ op' = ch
            /\ link' = Tuple(NoFlyer, ch) /\ rest' = Tuple(NoFlyer, ch)
            /\ lstate' = "spectating" /\ slip' = {}
       ELSE /\ Restored(op, back, {ch}) /\ slip' = Followed \cup Refusal(back)
            /\ UNCHANGED <<sweep, found, filt, op, link, rest, lstate>>
    /\ UNCHANGED <<camp, at, spectator>>

Orders == {q \in UNION {[1..n -> Chans] : n \in 1..2} : Len(q) = 2 => q[1] # q[2]}

GTNext ==
    \/ \E q \in Orders, ok \in BOOLEAN : StartSweep(q, ok)
    \/ \E c \in Flyers : FrameHeard(c)
    \/ \E ok \in BOOLEAN : StopSweep(ok) \/ DwellEnds(ok) \/ IssuerAborts(ok)
    \/ \E t \in found, ok, back \in BOOLEAN : Claim(t, ok, back)
    \/ \E t \in found, ok \in BOOLEAN : SpectatorSelect(t, ok)
    \/ \E ch \in Chans : Csa(ch)
    \/ \E ch \in Chans, ok \in BOOLEAN : FollowRetune(ch, ok)
    \/ \E ch \in Chans, ok, back \in BOOLEAN : Move(ch, ok, back)
    \/ \E ok, back, went \in BOOLEAN : IssuerCommits(ok, back, went)
    \/ VideoHeard \/ IssuerCloses

GTSpec == GTInit /\ [][GTNext]_gtVars

-----------------------------------------------------------------------------
\* A craft the ground reports as its own is one it listens to: committed, and no
\* sweep or switch under way, the filter is the craft's, the ears are together, and
\* they and operating_chan are on the link's channel (rest(), do_claim() and the
\* issuer's actions in rx_node.cpp).  Two things the code lets happen take the ears
\* elsewhere: a restoring retune that failed, whose result is ignored, can leave any
\* ear behind; and the follower of a ground that shares its psk with another issuer
\* moves all of them together, and the state still reads committed.
CommittedTuned ==
    lstate = "committed" /\ ~sweep.on /\ ~Campaign
        => /\ filt = link.craft
           /\ "refused" \notin slip => ears.roam = ears.stay
           /\ slip = {} => ears = All(link.chan) /\ op = link.chan
=============================================================================
