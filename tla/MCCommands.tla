----------------------------- MODULE MCCommands -----------------------------
(***************************************************************************)
(* The ways a node is commanded, checked side by side: the CSA follower     *)
(* under a hostile issuer, the vehicle-command campaign, and the control    *)
(* server.  They share no state, so a behaviour exercises one of them       *)
(* (part) while the others rest in an initial state.                        *)
(***************************************************************************)
EXTENDS CsaFollowerEnv, VehicleCmd, ControlServer

CONSTANTS g1, g2, s1, k1, k2, c1, c2
VARIABLE part

MCOriginators == {g1, g2}
MCSessions == {s1}
MCKeys == {k1, k2}
MCChannels == {c1, c2}
MCAllowlist == {c1}
MCNonces == {1, 2}
MCDts == {0, 2, 3}
MCReverts == {0, 1, 5}
MCElapsed == {0, 1, 9}

TwoKeys == <<"k1", "k2">>
TwoBoots == <<5, 3>>

\* Re-keys, reboots, a binding that comes and goes, one loss.
Moving == [moves |-> TRUE, stall |-> 0, loss |-> 1, starts |-> 2, until |-> 7]
\* Late loops and a lossy air, past the longest campaign.
Lossy == [moves |-> FALSE, stall |-> 1, loss |-> 3, starts |-> 1, until |-> 27]
\* A command after one that needed its second round.
Again == [moves |-> FALSE, stall |-> 0, loss |-> 3, starts |-> 2, until |-> 22]
MCSetups == {Moving, Lossy, Again}

MCInit ==
    /\ part \in {"csa", "vehicle", "server"}
    /\ EnvInit
    /\ CSInit /\ (part # "server" => \A c \in Clients : client[c].asks = "read")
    /\ Init /\ (part # "vehicle" => setup = Moving)

\* The environments of the follower and of the server stop at their bounds; the
\* vehicle campaign must not.
Follower == part = "csa" /\ (EnvNext \/ UNCHANGED envVars) /\ UNCHANGED <<part, vars, csVars>>
Campaign == part = "vehicle" /\ Next /\ UNCHANGED <<part, envVars, csVars>>
Server == part = "server" /\ (CSNext \/ UNCHANGED csVars) /\ UNCHANGED <<part, envVars, vars>>

MCSpec == MCInit /\ [][Follower \/ Campaign \/ Server]_<<part, envVars, vars, csVars>>
=============================================================================
