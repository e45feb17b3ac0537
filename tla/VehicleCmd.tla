----------------------------- MODULE VehicleCmd -----------------------------
(***************************************************************************)
(* Remote vehicle commands (core/src/vehicle_cmd.cpp): VcmdIssuer on the   *)
(* ground sends copies of one nonce and retries the same nonce until a     *)
(* matching echo; VcmdCraft applies a fresh nonce of its bound issuer once *)
(* and answers every duplicate with the remembered outcome.  The two run   *)
(* in the loops of node/src/rx_node.cpp and node/src/tx_node.cpp over an   *)
(* air that loses frames.  The ground may reboot (new session, new nonce   *)
(* seed), the craft may be re-keyed, and its command-source binding comes  *)
(* and goes.  The MAC is symbolic: the key the packet was stamped with.    *)
(***************************************************************************)
EXTENDS Integers, Sequences

CONSTANTS
  Cmds,          \* (cmd_id, cmd_arg) pairs the operator may ask for
  Applicable,    \* those the craft's apply hook carries out
  CmdKeys,          \* 11.4a keys, in the order the craft may be re-keyed
  Seeds,         \* nonce seeds of the ground's boots, one each: a sequence
  Copies, CopyInterval, EchoCopies, AckTimeout, RetryCap, CmdMinInterval,
  MaxStarts,     \* bound: commands per boot
  QueueCap,      \* bound: frames a receive queue holds
  Setups         \* the circumstances a run covers

\* moves: the binding comes and goes, the craft is re-keyed, the ground
\* reboots.  Bounds: how late an iteration may run, frames lost, commands per
\* boot, last instant.
Setup == [moves : BOOLEAN, stall : Nat, loss : Nat, starts : 0 .. MaxStarts,
          until : Nat]

ASSUME VcmdConstants ==
  /\ Applicable \subseteq Cmds /\ Setups \subseteq Setup
  /\ CmdKeys \in Seq(STRING) /\ Len(CmdKeys) > 0 /\ Seeds \in Seq(Nat) /\ Len(Seeds) > 0
  /\ {Copies, EchoCopies, RetryCap, CopyInterval} \subseteq Nat \ {0}
  /\ {AckTimeout, CmdMinInterval, MaxStarts, QueueCap} \subseteq Nat
  \* next_nonce_ starts at a random 32-bit value: boots never share a nonce
  /\ \A a, b \in DOMAIN Seeds :
       a # b => Seeds[a] + MaxStarts <= Seeds[b] \/ Seeds[b] + MaxStarts <= Seeds[a]

VARIABLES
  setup,         \* the circumstances, fixed for a run
  cmdNow,
  \* the craft: policy_.psk as an index of Keys, the 11.5a binding, the last
  \* consumed outcome per session, the rate-limit anchor, the echo burst
  cKey, cBound, cLast, cLastAccept, cEcho, cEchoesLeft, cNextEcho,
  cLastEchoNonce, cLastEchoStart, cEchoedOnce, cNext,
  \* the ground: boot count (its session_id), policy_.psk, campaign
  gBoot, gKey, gState, gNextNonce, gLastStart, gTmpl, gCopiesLeft,
  gCampaignsLeft, gNextCopy, gEchoDeadline, gNext,
  up, down, losses,
  \* history: every call of apply and its outcome; losses when gTmpl started
  hOutcomes, hLossesAtStart

craftVars == <<cKey, cBound, cLast, cLastAccept, cEcho, cEchoesLeft, cNextEcho,
               cLastEchoNonce, cLastEchoStart, cEchoedOnce>>
groundVars == <<gBoot, gKey, gState, gNextNonce, gLastStart, gTmpl, gCopiesLeft,
                gCampaignsLeft, gNextCopy, gEchoDeadline, hLossesAtStart>>
vars == <<setup, cmdNow, craftVars, cNext, groundVars, gNext, up, down, losses, hOutcomes>>

Boots == DOMAIN Seeds
NoOutcome == [nonce |-> -1, cmd |-> "none", rejected |-> FALSE]
NoCmd == [nonce |-> -1, cmd |-> "none"]

Init ==
  /\ setup \in Setups /\ cmdNow = 1
  /\ cKey = 1 /\ cBound = TRUE /\ cLast = [b \in Boots |-> NoOutcome]
  /\ cLastAccept = 0 /\ cEcho = NoOutcome /\ cEchoesLeft = 0 /\ cNextEcho = 0
  /\ cLastEchoNonce = 0 /\ cLastEchoStart = 0 /\ cEchoedOnce = FALSE /\ cNext = 1
  /\ gBoot = 1 /\ gKey = 1 /\ gState = "idle" /\ gNextNonce = Seeds[1]
  /\ gLastStart = 0 /\ gTmpl = NoCmd /\ gCopiesLeft = 0 /\ gCampaignsLeft = 0
  /\ gNextCopy = 0 /\ gEchoDeadline = 0 /\ gNext = 1
  /\ up = <<>> /\ down = <<>> /\ losses = 0
  /\ hOutcomes = {} /\ hLossesAtStart = 0

Lose == losses < setup.loss /\ losses' = losses + 1
Offer(q, m) == IF Len(q) < QueueCap THEN Append(q, m) ELSE q

AdvanceClock ==
  /\ cmdNow < setup.until /\ cNext > cmdNow /\ gNext > cmdNow
  /\ cmdNow' = cmdNow + 1
  /\ UNCHANGED <<setup, craftVars, cNext, groundVars, gNext, up, down, losses, hOutcomes>>

Halt == cmdNow = setup.until /\ cNext > cmdNow /\ gNext > cmdNow /\ UNCHANGED vars

-----------------------------------------------------------------------------
(* VcmdCraft                                                               *)

CraftRuns == cNext <= cmdNow
GroundIdle == UNCHANGED <<setup, cmdNow, groundVars, gNext>>

\* on_cmd's guards: a key match, and the bound issuer only.
Heard(m) == m.key = cKey /\ cBound

\* Mutant: a repeated nonce counts as new.
ConsumedStrictly(m) == m.nonce < cLast[m.boot].nonce
Consumed(m) == m.nonce <= cLast[m.boot].nonce

\* The exact command again: re-echo its remembered outcome.
Retried(m) == m.nonce = cLast[m.boot].nonce /\ m.cmd = cLast[m.boot].cmd

CmdRateLimited == cLastAccept # 0 /\ cmdNow - cLastAccept < CmdMinInterval

\* Mutant: one burst per nonce, with no end to the holddown.
HolddownForever(o) == cEchoedOnce /\ cLastEchoNonce = o.nonce

\* queue_echo: one burst per nonce per min_interval.
Holddown(o) == /\ cEchoedOnce /\ cLastEchoNonce = o.nonce
               /\ cEchoesLeft > 0 \/ cmdNow - cLastEchoStart < CmdMinInterval
QueueEcho(o) ==
  IF Holddown(o)
  THEN UNCHANGED <<cEcho, cEchoesLeft, cNextEcho, cLastEchoNonce,
                   cLastEchoStart, cEchoedOnce>>
  ELSE /\ cEcho' = o /\ cEchoesLeft' = EchoCopies /\ cNextEcho' = cmdNow
       /\ cLastEchoNonce' = o.nonce /\ cLastEchoStart' = cmdNow
       /\ cEchoedOnce' = TRUE

Accept(m) ==
  LET o == [nonce |-> m.nonce, cmd |-> m.cmd, rejected |-> m.cmd \notin Applicable]
  IN /\ Heard(m) /\ ~Consumed(m) /\ ~CmdRateLimited
     /\ cLast' = [cLast EXCEPT ![m.boot] = o] /\ cLastAccept' = cmdNow
     /\ hOutcomes' = hOutcomes \cup
          {[key |-> cKey, boot |-> m.boot, out |-> o, at |-> cmdNow]}
     /\ QueueEcho(o) /\ UNCHANGED <<cKey, cBound>>

ReEcho(m) ==
  /\ Heard(m) /\ Consumed(m) /\ Retried(m)
  /\ QueueEcho(cLast[m.boot])
  /\ UNCHANGED <<cKey, cBound, cLast, cLastAccept, hOutcomes>>

Drop(m) ==
  /\ \/ ~Heard(m)
     \/ Consumed(m) /\ ~Retried(m)
     \/ ~Consumed(m) /\ CmdRateLimited
  /\ UNCHANGED <<craftVars, hOutcomes>>

CraftHears ==
  /\ CraftRuns /\ up # <<>> /\ up' = Tail(up)
  /\ Accept(Head(up)) \/ ReEcho(Head(up)) \/ Drop(Head(up))
  /\ GroundIdle /\ UNCHANGED <<cNext, down, losses>>

\* tick: the next echo of the burst, stamped with the key of the moment.
CraftTick ==
  /\ CraftRuns /\ up = <<>>
  /\ IF cEchoesLeft > 0 /\ cmdNow >= cNextEcho
     THEN /\ cEchoesLeft' = cEchoesLeft - 1 /\ cNextEcho' = cmdNow + CopyInterval
          /\ \/ down' = Offer(down, [key |-> cKey, echo |-> cEcho]) /\ UNCHANGED losses
             \/ Lose /\ UNCHANGED down
     ELSE UNCHANGED <<cEchoesLeft, cNextEcho, down, losses>>
  /\ cNext' \in cmdNow + 1 .. cmdNow + 1 + setup.stall
  /\ UNCHANGED <<cKey, cBound, cLast, cLastAccept, cEcho, cLastEchoNonce,
                 cLastEchoStart, cEchoedOnce, up, hOutcomes>>
  /\ GroundIdle

\* psk_enable: a new pairing epoch, which also drops the binding.
CraftRekey ==
  /\ setup.moves /\ cKey < Len(CmdKeys) /\ cKey' = cKey + 1
  /\ cLast' = [b \in Boots |-> NoOutcome] /\ cEchoesLeft' = 0
  /\ cBound' = FALSE
  /\ UNCHANGED <<hOutcomes, cLastAccept, cEcho, cNextEcho, cLastEchoNonce, cLastEchoStart,
                 cEchoedOnce, cNext, up, down, losses>>
  /\ GroundIdle

\* The CSA engine claims the craft for this ground, or releases it.
CraftBinding ==
  /\ setup.moves /\ cBound' = ~cBound
  /\ UNCHANGED <<cKey, cLast, cLastAccept, cEcho, cEchoesLeft, cNextEcho,
                 cLastEchoNonce, cLastEchoStart, cEchoedOnce, cNext, up, down,
                 losses, hOutcomes>>
  /\ GroundIdle

-----------------------------------------------------------------------------
(* VcmdIssuer                                                              *)

GroundRuns == gNext <= cmdNow
CraftIdle == UNCHANGED <<setup, cmdNow, craftVars, cNext, hOutcomes>>
Pending == gState \in {"sending", "awaitecho"}

\* Starts are paced by the craft's accept limit and one copy more.
StartPaced == gLastStart = 0 \/ cmdNow - gLastStart >= CmdMinInterval + CopyInterval

\* start_vehicle_command: re-key from the craft's live token, then start.
GroundStart(cmd) ==
  /\ GroundRuns /\ ~Pending /\ StartPaced
  /\ gNextNonce < Seeds[gBoot] + setup.starts
  /\ gKey' \in {gKey, cKey}    \* the token last heard, or the live one
  /\ gLastStart' = cmdNow /\ gTmpl' = [nonce |-> gNextNonce, cmd |-> cmd]
  /\ gNextNonce' = gNextNonce + 1
  /\ gCopiesLeft' = Copies /\ gCampaignsLeft' = RetryCap /\ gNextCopy' = cmdNow
  /\ gState' = "sending" /\ hLossesAtStart' = losses
  /\ CraftIdle /\ UNCHANGED <<gBoot, gEchoDeadline, gNext, up, down, losses>>

\* Mutant: the echo is matched by command, its nonce not compared.
MatchesCommand(e) == e.key = gKey /\ e.echo.cmd = gTmpl.cmd
Matches(e) == /\ e.key = gKey /\ e.echo.nonce = gTmpl.nonce
              /\ e.echo.cmd = gTmpl.cmd

GroundHears ==
  /\ GroundRuns /\ down # <<>> /\ down' = Tail(down)
  /\ gState' = IF Pending /\ Matches(Head(down))
               THEN IF Head(down).echo.rejected THEN "rejected" ELSE "acked"
               ELSE gState
  /\ CraftIdle
  /\ UNCHANGED <<gBoot, gKey, gNextNonce, gLastStart, gTmpl, gCopiesLeft,
                 gCampaignsLeft, gNextCopy, gEchoDeadline, hLossesAtStart, gNext,
                 up, losses>>

GroundReady == GroundRuns /\ down = <<>>

GroundSend ==
  /\ GroundReady /\ gState = "sending" /\ cmdNow >= gNextCopy
  /\ \/ UNCHANGED losses
        /\ up' = Offer(up, [boot |-> gBoot, key |-> gKey,
                            nonce |-> gTmpl.nonce, cmd |-> gTmpl.cmd])
     \/ Lose /\ UNCHANGED up
  /\ gNextCopy' = cmdNow + CopyInterval /\ gCopiesLeft' = gCopiesLeft - 1
  /\ gState' = IF gCopiesLeft = 1 THEN "awaitecho" ELSE "sending"
  /\ gEchoDeadline' = IF gCopiesLeft = 1 THEN cmdNow + AckTimeout ELSE gEchoDeadline
  /\ gNext' \in cmdNow + 1 .. cmdNow + 1 + setup.stall
  /\ CraftIdle
  /\ UNCHANGED <<gBoot, gKey, gNextNonce, gLastStart, gTmpl, gCampaignsLeft,
                 hLossesAtStart, down>>

\* Mutant: the campaign counter is compared before it is decremented.
LastRoundOffByOne == gCampaignsLeft = 0
LastRound == gCampaignsLeft = 1

\* The echo timer: retry the same nonce, or give up.
GroundRetry ==
  /\ GroundReady /\ gState = "awaitecho" /\ cmdNow >= gEchoDeadline
  /\ gCampaignsLeft' = gCampaignsLeft - 1
  /\ IF LastRound THEN gState' = "timeout" /\ UNCHANGED <<gCopiesLeft, gNextCopy>>
     ELSE gState' = "sending" /\ gCopiesLeft' = Copies /\ gNextCopy' = cmdNow
  /\ gNext' \in cmdNow + 1 .. cmdNow + 1 + setup.stall
  /\ CraftIdle
  /\ UNCHANGED <<gBoot, gKey, gNextNonce, gLastStart, gTmpl, gEchoDeadline,
                 hLossesAtStart, up, down, losses>>

GroundQuiet ==
  /\ GroundReady
  /\ gState = "sending" => cmdNow < gNextCopy
  /\ gState = "awaitecho" => cmdNow < gEchoDeadline
  /\ gNext' \in cmdNow + 1 .. cmdNow + 1 + setup.stall
  /\ CraftIdle /\ UNCHANGED <<groundVars, up, down, losses>>

\* The ground node restarts: a new session, its nonces seeded afresh.
GroundReboot ==
  /\ setup.moves /\ gBoot < Len(Seeds) /\ gBoot' = gBoot + 1
  /\ gState' = "idle" /\ gNextNonce' = Seeds[gBoot + 1] /\ gLastStart' = 0
  /\ gTmpl' = NoCmd /\ gCopiesLeft' = 0 /\ gCampaignsLeft' = 0
  /\ gNextCopy' = 0 /\ gEchoDeadline' = 0 /\ hLossesAtStart' = losses
  /\ gNext' = cmdNow + 1
  /\ CraftIdle /\ UNCHANGED <<gKey, up, down, losses>>

Next ==
  \/ AdvanceClock \/ Halt
  \/ CraftHears \/ CraftTick \/ CraftRekey \/ CraftBinding
  \/ \E c \in Cmds : GroundStart(c)
  \/ GroundHears \/ GroundSend \/ GroundRetry \/ GroundQuiet \/ GroundReboot

Spec == Init /\ [][Next]_vars
-----------------------------------------------------------------------------
\* A campaign's longest life: every round sends its copies and waits out the
\* echo timer, each tick as late as the loop may be.
Span == RetryCap * (Copies * (CopyInterval + setup.stall + 1)
                    + AckTimeout + setup.stall + 1)

\* One command is applied at most once, however many copies, retries and
\* duplicates of it the craft hears.
AppliedOnce ==
  \A a, b \in hOutcomes :
    (a.key = b.key /\ a.boot = b.boot /\ a.out.nonce = b.out.nonce) => a = b

\* The ground never reports an outcome the craft did not have: acked means the
\* craft carried out this very command, rejected that it declined it.
OutcomeTrue ==
  gState \in {"acked", "rejected"} =>
    \E h \in hOutcomes :
      /\ h.key = gKey /\ h.boot = gBoot
      /\ h.out = [nonce |-> gTmpl.nonce, cmd |-> gTmpl.cmd,
                  rejected |-> gState = "rejected"]

\* A pending campaign always ends: nothing the air or the craft does keeps the
\* issuer busy beyond its retries.
CampaignEnds == Pending => cmdNow <= gLastStart + Span

\* Rounds the craft's accept limit may silence: the first of a command that follows another,
\* whose acceptance in a late round the pacing of starts does not see.
Spared == IF gTmpl.nonce = Seeds[gBoot] THEN 0 ELSE 1

\* The issuer gives up only on an air that really failed it: every round but a
\* spared one lost all its copies or all its echoes.  The craft's rate limit and
\* echo holddown never turn a retry into silence while the pair stays paired and
\* bound.
TimeoutJustified ==
  (gState = "timeout" /\ ~setup.moves) =>
    losses - hLossesAtStart >=
      (RetryCap - Spared) * (IF Copies < EchoCopies THEN Copies ELSE EchoCopies)

\* A command is applied at most once, and what the issuer concludes is sound: a
\* verdict is the craft's own, silence is never blamed on an air that delivered,
\* and a conclusion comes within the retries (vehicle_cmd.cpp on_cmd, on_echo
\* and tick).
CommandSound == AppliedOnce /\ OutcomeTrue /\ TimeoutJustified /\ CampaignEnds
=============================================================================
