--------------------------- MODULE CsaFollowerEnv ---------------------------
(***************************************************************************)
(* The craft's CSA engine against an environment that hands it any packet  *)
(* at any moment: copies of any campaign of any issuer under any key, in   *)
(* any order, repeated, late, with any TSF delta; beacons; traffic of      *)
(* bound and unbound originators; operator retunes and re-keys.  The craft *)
(* loop (node/src/tx_node.cpp) calls tick at moments of its own choosing.  *)
(***************************************************************************)
EXTENDS CsaFollower

CONSTANTS EnvNonces, EnvDts, EnvReverts, EnvElapsed  \* what the air may carry

ASSUME EnvConstants ==
  /\ EnvNonces \subseteq Nat /\ EnvDts \subseteq Nat /\ EnvReverts \subseteq Nat
  /\ EnvElapsed \subseteq Nat

VARIABLE hArmed   \* history: campaigns accepted since the last re-key

envVars == <<now, hArmed, fVars>>

EnvPackets == [orig : Originators, sess : Sessions, nonce : EnvNonces,
               target : Channels, dt : EnvDts, tRevert : EnvReverts,
               mac : Keys]

CampaignId(p) == <<p.orig, p.sess, p.nonce>>

EnvInit == FInit /\ now = 1 /\ hArmed = {}

EnvAdvance == /\ now < MaxNow /\ now' = now + 1
              /\ UNCHANGED <<hArmed, fVars>>

HearCopy(p, e) == /\ FAccept(p, e)
                  /\ hArmed' = hArmed \cup {CampaignId(p)}
                  /\ UNCHANGED now

HearBeacon(p) == FConfirm(p) /\ UNCHANGED <<now, hArmed>>

HearTraffic(o) == FNoteValidRx(o) /\ UNCHANGED <<now, hArmed>>

Tick == /\ FSwitch \/ FVerify \/ FRelease
        /\ UNCHANGED <<now, hArmed>>

LocalRetune == FDetach /\ UNCHANGED <<now, hArmed>>

Rekey(k) == FSetPsk(k) /\ hArmed' = {} /\ UNCHANGED now

EnvNext ==
  \/ EnvAdvance
  \/ \E p \in EnvPackets, e \in EnvElapsed : HearCopy(p, e)
  \/ \E p \in EnvPackets : HearBeacon(p)
  \/ \E o \in Originators : HearTraffic(o)
  \/ Tick
  \/ LocalRetune
  \/ \E k \in Keys : Rekey(k)

EnvSpec == EnvInit /\ [][EnvNext]_envVars

-----------------------------------------------------------------------------
\* Every variable of the engine keeps its type, and what it remembers having
\* happened is not ahead of the clock.
FTypeOK ==
  /\ now \in Time
  /\ hArmed \subseteq Originators \X Sessions \X Nat
  /\ fState \in FStates
  /\ fPsk \in Keys \cup {NoKey}
  /\ fLatched \in Originators \cup {NoIssuer}
  /\ fLastApplied \in [Originators \X Sessions -> Nat \cup {-1}]
  /\ fLastAccept \in Nat /\ fLastAccept <= now
  /\ fCampaign \in CsaPacket \cup {NoCampaign}
  /\ fSwitchAt \in Nat /\ fVerifyDeadline \in Nat /\ fFreezeUntil \in Nat
  /\ fLastBoundRx \in Nat /\ fLastBoundRx <= now

\* A campaign in progress is one the current key authenticates, is bound to
\* its issuer, targets an allowlisted channel and is on record against replay,
\* whatever re-keys, detaches and packets came in between.
CampaignBound ==
  fState \in {"armed", "verify"} =>
    /\ fCampaign \in CsaPacket
    /\ fLatched = fCampaign.orig
    /\ fPsk # NoKey => fCampaign.mac = fPsk
    /\ Allowed(fCampaign.target)
    /\ fLastApplied[Stream(fCampaign)] = fCampaign.nonce

\* tick releases a binding only in the committed state, so a binding that
\* outlives its campaign in any other state would lock every other ground out
\* until reboot: a bound craft is always on its way to the release.
BindingReleasable ==
  fLatched # NoIssuer => /\ fState # "idle"
                         /\ fCampaign \in CsaPacket /\ fLatched = fCampaign.orig

\* How long the craft stays deaf is the craft's decision (csa.cpp, Pass 86):
\* no t_revert_ms an issuer sends keeps a landed craft in its verify window
\* beyond verify_timeout_ms.
DeafnessBounded ==
  fState = "verify" => fVerifyDeadline <= now + VerifyTimeout * Ms

\* One campaign arms at most once in a key epoch: copies 2..n, replays and
\* copies delayed past other campaigns of the stream never arm it again.
ArmsOnce ==
  [][fLastAccept' # fLastAccept => CampaignId(fCampaign') \notin hArmed]_envVars

\* While no announced dt exceeds min_interval_ms, an accepted campaign is never
\* replaced by another before its own switch instant: the craft keeps the
\* appointment it acknowledged.
AppointmentKept ==
  [][(fState = "armed" /\ fLastAccept' # fLastAccept)
       => now >= fSwitchAt]_envVars

\* The command source is never stolen: a bound craft goes to no other issuer
\* directly, and loses its binding only to a local re-key or retune or, on a
\* settled channel, after more than bind_release_ms without its issuer.
BindingNotStolen ==
  [][(fLatched # NoIssuer /\ fLatched' # fLatched) =>
       /\ fLatched' = NoIssuer
       /\ \/ fState' = "idle"
          \/ /\ fState = "committed" /\ fState' = "committed"
             /\ now - fLastBoundRx > BindRelease * Ms]_envVars

\* What an issuer can hold of the craft is bounded: its binding always leads to the
\* release, and the deaf window it opens is the craft's own (csa.cpp tick and accept).
BindingBounded == BindingReleasable /\ DeafnessBounded
=============================================================================
