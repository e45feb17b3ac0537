----------------------------- MODULE FrameRate ------------------------------
(***************************************************************************)
(* The frame-rate ladder of the craft (FpsLadder,                          *)
(* src/core/include/wblink/fps_ladder.h) and the commands that switch it   *)
(* on and off and pick a rate while it is off (TxCore::apply_command).     *)
(* Rates are positions on the ladder of commandable rates.  Of a P frame's *)
(* size the ladder tells three classes apart, the smoothed size lies       *)
(* between the one before and the sample.  Time passes in ticks; ages are  *)
(* capped at AgeCap.  What becomes of an offered rate is in VencHttp.      *)
(***************************************************************************)
EXTENDS Naturals

CONSTANTS Rates,          \* positions 1..n of kFpsLadder
          MinRate, Preferred,
          Presets,        \* positions a FPS_SELECT can name
          ReduceAfter, ReduceDwell, RestoreAfter, FpsSettle, SampleTimeout,   \* in ticks
          MaxCommands     \* bound

ASSUME FrameRateAssumption ==
    /\ Rates \subseteq Nat \ {0} /\ MinRate \in Rates /\ Preferred \in Rates
    /\ MinRate <= Preferred /\ Presets \subseteq Rates
    /\ {ReduceAfter, ReduceDwell, RestoreAfter, FpsSettle, SampleTimeout} \subseteq Nat

NoHz == 0
Small == 1            \* below min_p_frame_bytes
Fits == 2             \* above it, not by enough for the next rate
Roomy == 3            \* the next rate's predicted size clears the hysteresis
Sizes == {Small, Fits, Roomy}
Never == 0            \* an evidence clock that is not running

Limits == {ReduceAfter + 1, ReduceDwell, RestoreAfter + 1, SampleTimeout + 1,
           FpsSettle + ReduceAfter, FpsSettle + RestoreAfter}
AgeCap == CHOOSE n \in Limits : \A m \in Limits : m <= n
Older(n) == IF n < AgeCap THEN n + 1 ELSE n

VARIABLES ladder,   \* FpsLadder: started, current, size, sampleAge, changeAge, settle,
                    \* reduce, restore (ages plus one, Never when not running)
          cmd,      \* enabled (cmd_fps_enabled_), select (cmd_fps_select_hz_)
          offered,  \* the rate last given to the encoder's actuator
          calm,     \* history: ticks since the rate was last changed or the loop resumed
          commands

flVars == <<ladder, cmd, offered, calm, commands>>

FLInit ==
    /\ \E on \in BOOLEAN : cmd = [enabled |-> on, select |-> NoHz]
    /\ ladder = [started |-> FALSE, current |-> NoHz, size |-> NoHz, sampleAge |-> 0,
                 changeAge |-> 0, settle |-> 0, reduce |-> Never, restore |-> Never]
    /\ offered = NoHz /\ calm = 0 /\ commands = 0

-----------------------------------------------------------------------------
\* note_p_frame(): the average moves towards the sample.
SizesBetween(a, b) == {x \in Sizes : (a <= x /\ x <= b) \/ (b <= x /\ x <= a)}

Frame(size, new) ==
    /\ new \in IF ladder.size = NoHz THEN {size} ELSE SizesBetween(ladder.size, size)
    /\ ladder' = [ladder EXCEPT !.size = new, !.sampleAge = 0]
    /\ UNCHANGED <<cmd, offered, calm, commands>>

\* step(): the neighbour inside the configured band, or the rate itself.
Down(r) == IF r - 1 \in Rates /\ r - 1 >= MinRate /\ r - 1 <= Preferred THEN r - 1 ELSE r
Up(r) == IF r + 1 \in Rates /\ r + 1 >= MinRate /\ r + 1 <= Preferred THEN r + 1 ELSE r

NoEvidence(l) == [l EXCEPT !.reduce = Never, !.restore = Never]
Forgotten(l) == [NoEvidence(l) EXCEPT !.size = NoHz, !.sampleAge = 0, !.settle = FpsSettle]
Committed(l, r) == [Forgotten(l) EXCEPT !.current = r, !.changeAge = 0]

\* tick() over the clocks of l; settling is a bitrate change still under way.
Started(l) == [l EXCEPT !.started = TRUE, !.current = Preferred, !.settle = FpsSettle,
                        !.changeAge = 0]
ClockOn(n) == IF n = Never THEN 1 ELSE n
Reduces(l) ==
    LET d == [l EXCEPT !.restore = Never, !.reduce = ClockOn(@)]
    IN IF Down(l.current) = l.current THEN NoEvidence(l)
       ELSE IF d.reduce > ReduceAfter /\ l.changeAge >= ReduceDwell
       THEN Committed(l, Down(l.current)) ELSE d
Restores(l) ==
    LET u == [l EXCEPT !.reduce = Never, !.restore = ClockOn(@)]
    IN IF Up(l.current) = l.current \/ l.size # Roomy THEN NoEvidence(l)
       ELSE IF u.restore > RestoreAfter THEN Committed(l, Up(l.current)) ELSE u
Ticked(l, settling) ==
    IF ~l.started THEN Started(l)
    ELSE IF settling THEN NoEvidence(l)
    ELSE IF l.settle > 0 THEN l
    ELSE IF l.size = NoHz \/ l.sampleAge > SampleTimeout THEN NoEvidence(l)
    ELSE IF l.size = Small THEN Reduces(l) ELSE Restores(l)

\* Time passes, then TxCore::tick: the loop, or the selected rate, is offered again.
Aged(l) == [l EXCEPT !.sampleAge = Older(@), !.changeAge = Older(@),
                     !.settle = IF @ > 0 THEN @ - 1 ELSE 0,
                     !.reduce = IF @ = Never THEN Never ELSE Older(@),
                     !.restore = IF @ = Never THEN Never ELSE Older(@)]

TickRate(settling) ==
    \E l \in {IF cmd.enabled THEN Ticked(Aged(ladder), settling) ELSE Aged(ladder)} :
        /\ ladder' = l
        /\ offered' = IF cmd.enabled THEN l.current
                      ELSE IF cmd.select # NoHz THEN cmd.select ELSE offered
        /\ calm' = IF l.current # ladder.current THEN 0 ELSE Older(calm)
        /\ UNCHANGED <<cmd, commands>>

-----------------------------------------------------------------------------
\* The commands FPS_LADDER and FPS_SELECT.
Command == commands < MaxCommands /\ commands' = commands + 1

ResumedAsLeft(l) == [l EXCEPT !.settle = FpsSettle]
Resumed(l) == Forgotten(l)

LadderOn ==
    /\ ~cmd.enabled /\ Command
    /\ ladder' = Resumed(ladder) /\ calm' = 0
    /\ cmd' = [enabled |-> TRUE, select |-> NoHz]
    /\ UNCHANGED offered

LadderOff ==
    /\ cmd.enabled /\ Command /\ cmd' = [cmd EXCEPT !.enabled = FALSE]
    /\ UNCHANGED <<ladder, offered, calm>>

FpsSelect(r) ==
    /\ ~cmd.enabled /\ cmd.select # r /\ Command
    /\ ladder' = [ladder EXCEPT !.current = r] /\ calm' = 0
    /\ offered' = r
    /\ cmd' = [cmd EXCEPT !.select = r]

FLNext ==
    \/ \E size, new \in Sizes : Frame(size, new)
    \/ LadderOn \/ LadderOff
    \/ \E settling \in BOOLEAN : TickRate(settling)
    \/ \E r \in Presets : FpsSelect(r)

FLSpec == FLInit /\ [][FLNext]_flVars

-----------------------------------------------------------------------------
\* The ladder's own move in a step.
Moves == cmd.enabled /\ ladder.started /\ ladder'.current # ladder.current

\* The ladder never moves on the spur of the moment: between its move and anything that
\* changed the rate or restarted the loop before it lie the settle time and a whole
\* evidence period, however the loop was switched off, left alone and switched on again.
MovesEarned ==
    [][Moves => calm + 1 >= FpsSettle + (IF ladder'.current < ladder.current
                                         THEN ReduceAfter ELSE RestoreAfter)]_flVars
=============================================================================
