---------------------------- MODULE CsaFollower ----------------------------
(***************************************************************************)
(* CsaFollower (core/src/csa.cpp): the craft's half of a follow-me channel *)
(* switch.  A campaign copy is authenticated, checked against the command- *)
(* source binding, replay, the allowlist and the rate limit, and arms the  *)
(* switch; the tick retunes at T_switch, opens the verify window at the    *)
(* first tick after the (blocking) retune and commits on valid traffic, on *)
(* a rendezvous beacon of the same campaign, or when the window closes     *)
(* (the final jump: nothing reverts).                                      *)
(*                                                                         *)
(* CsaFollowerEnv runs the engine against an arbitrary environment;        *)
(* CsaLink composes it with a real issuer.                                 *)
(***************************************************************************)
EXTENDS CsaTypes

CONSTANTS
  AllowUnauth,    \* allow_unauthenticated: a spectator, never craft/ground
  BindRelease,    \* bind_release_ms
  Settle,         \* settle_ms
  BootKey         \* the key the follower is constructed with

ASSUME FollowerConstants ==
  /\ AllowUnauth \in BOOLEAN /\ BindRelease \in Nat /\ Settle \in Nat
  /\ BootKey \in Keys \cup {NoKey}

VARIABLES
  fState,          \* state_
  fPsk,            \* policy_.psk
  fLatched,        \* latched_: the bound command source
  fLastApplied,    \* last_applied_ per (originator, session); -1 = no entry
  fLastAccept,     \* last_accept_us_ (0 = never)
  fCampaign,       \* campaign_
  fSwitchAt,       \* switch_at_us_
  fVerifyDeadline, \* verify_deadline_us_ (0 = not landed yet)
  fFreezeUntil,    \* freeze_until_us_
  fLastBoundRx     \* last_bound_rx_us_

fVars == <<fState, fPsk, fLatched, fLastApplied, fLastAccept, fCampaign,
           fSwitchAt, fVerifyDeadline, fFreezeUntil, fLastBoundRx>>

FStates == {"idle", "armed", "verify", "committed"}
NoCampaign == [orig |-> NoIssuer, nonce |-> 0]
Stream(p) == <<p.orig, p.sess>>

FInit ==
  /\ fState = "idle" /\ fPsk = BootKey /\ fLatched = NoIssuer
  /\ fLastApplied = [s \in Originators \X Sessions |-> -1]
  /\ fLastAccept = 0 /\ fCampaign = NoCampaign
  /\ fSwitchAt = 0 /\ fVerifyDeadline = 0 /\ fFreezeUntil = 0
  /\ fLastBoundRx = 0

-----------------------------------------------------------------------------
(* on_csa, one received copy: the guards in the order of the code.         *)

Authentic(p) == IF fPsk = NoKey THEN AllowUnauth ELSE p.mac = fPsk
NoIssuerLock(p) == FALSE                                    \* mutant
IssuerLocked(p) == fLatched # NoIssuer /\ fLatched # p.orig
IsBeacon(p) == p.dt = 0
FreshOrEqual(p) == p.nonce >= fLastApplied[Stream(p)]       \* mutant
Fresh(p) == p.nonce > fLastApplied[Stream(p)]
NeverRateLimited == FALSE                                   \* mutant
RateLimited == fLastAccept # 0 /\ now - fLastAccept < MinInterval * Ms

Acceptable(p) ==
  /\ Authentic(p) /\ ~IssuerLocked(p) /\ ~IsBeacon(p)
  /\ Fresh(p) /\ Allowed(p.target) /\ ~RateLimited

\* Mutant: a garbage TSF delta is subtracted like any other.
GarbageTrusted(p, elapsed) == now + p.dt * Ms - elapsed

\* 11.2: T_switch from the copy's own dt, less the time since it left the air;
\* an elapsed time beyond dt is a garbage TSF delta and is discarded.
SwitchInstant(p, elapsed) ==
  now + p.dt * Ms - (IF elapsed > p.dt * Ms THEN 0 ELSE elapsed)

FAccept(p, elapsed) ==
  /\ Acceptable(p)
  /\ fState' = "armed"
  /\ fLastApplied' = [fLastApplied EXCEPT ![Stream(p)] = p.nonce]
  /\ fLastAccept' = now
  /\ fLatched' = p.orig
  /\ fLastBoundRx' = now
  /\ fCampaign' = p
  /\ fSwitchAt' = SwitchInstant(p, elapsed)
  /\ fFreezeUntil' = now + Settle * Ms
  /\ UNCHANGED <<fPsk, fVerifyDeadline>>

ConfirmsVerify(p) ==
  /\ Authentic(p) /\ ~IssuerLocked(p) /\ IsBeacon(p)
  /\ fState = "verify"
  /\ Stream(p) = Stream(fCampaign) /\ p.nonce = fCampaign.nonce

FConfirm(p) ==
  /\ ConfirmsVerify(p)
  /\ fState' = "committed"
  /\ fLastBoundRx' = now
  /\ UNCHANGED <<fPsk, fLatched, fLastApplied, fLastAccept, fCampaign,
                 fSwitchAt, fVerifyDeadline, fFreezeUntil>>

\* Every other copy is refused (and counted) with no other effect.
FRefuse(p) == ~Acceptable(p) /\ ~ConfirmsVerify(p) /\ UNCHANGED fVars

FOnCsa(p, elapsed) == FAccept(p, elapsed) \/ FConfirm(p) \/ FRefuse(p)

-----------------------------------------------------------------------------
FNoteValidRx(from) ==
  /\ fState' = IF fState = "verify" THEN "committed" ELSE fState
  /\ fLastBoundRx' = IF fLatched # NoIssuer /\ from = fLatched THEN now
                     ELSE fLastBoundRx
  /\ UNCHANGED <<fPsk, fLatched, fLastApplied, fLastAccept, fCampaign,
                 fSwitchAt, fVerifyDeadline, fFreezeUntil>>

\* tick: the retune step.  The caller retunes to fCampaign.target.
SwitchDue == fState = "armed" /\ now >= fSwitchAt

FSwitch ==
  /\ SwitchDue
  /\ fState' = "verify" /\ fVerifyDeadline' = 0
  /\ UNCHANGED <<fPsk, fLatched, fLastApplied, fLastAccept, fCampaign,
                 fSwitchAt, fFreezeUntil, fLastBoundRx>>

\* Mutant: t_revert_ms taken unclamped.
UnclampedWindow ==
  IF fCampaign.tRevert # 0 THEN fCampaign.tRevert ELSE VerifyTimeout

\* 11.5: the issuer may shorten the window, never lengthen it.
VerifyWindow ==
  Min2(IF fCampaign.tRevert # 0 THEN fCampaign.tRevert ELSE VerifyTimeout,
       VerifyTimeout)

\* Mutant: the window re-opens at every tick instead of at the landing.
VerifyReopens ==
  /\ fState = "verify"
  /\ fVerifyDeadline' = now + VerifyWindow * Ms
  /\ fState' = IF now >= fVerifyDeadline' THEN "committed" ELSE "verify"
  /\ UNCHANGED <<fPsk, fLatched, fLastApplied, fLastAccept, fCampaign,
                 fSwitchAt, fFreezeUntil, fLastBoundRx>>

FVerify ==
  /\ fState = "verify"
  /\ fVerifyDeadline' = IF fVerifyDeadline = 0 THEN now + VerifyWindow * Ms
                        ELSE fVerifyDeadline
  /\ fState' = IF now >= fVerifyDeadline' THEN "committed" ELSE "verify"
  /\ UNCHANGED <<fPsk, fLatched, fLastApplied, fLastAccept, fCampaign,
                 fSwitchAt, fFreezeUntil, fLastBoundRx>>

BindingExpired ==
  /\ fState = "committed" /\ fLatched # NoIssuer
  /\ now >= fLastBoundRx /\ now - fLastBoundRx > BindRelease * Ms

FRelease ==
  /\ BindingExpired
  /\ fLatched' = NoIssuer
  /\ UNCHANGED <<fState, fPsk, fLastApplied, fLastAccept, fCampaign,
                 fSwitchAt, fVerifyDeadline, fFreezeUntil, fLastBoundRx>>

\* One call of tick; the composition adds the retune of FSwitch.
FQuiet == /\ fState # "verify" /\ ~SwitchDue /\ ~BindingExpired
          /\ UNCHANGED fVars

\* Mutant: a local retune that keeps the binding.
DetachKeepsBinding ==
  /\ fState' = "idle" /\ fCampaign' = NoCampaign
  /\ UNCHANGED <<fLatched, fPsk, fLastApplied, fLastAccept, fSwitchAt,
                 fVerifyDeadline, fFreezeUntil, fLastBoundRx>>

\* clear_campaign with release_binding: what both local-retune handlers do.
FDetach ==
  /\ fState' = "idle" /\ fCampaign' = NoCampaign /\ fLatched' = NoIssuer
  /\ UNCHANGED <<fPsk, fLastApplied, fLastAccept, fSwitchAt, fVerifyDeadline,
                 fFreezeUntil, fLastBoundRx>>

\* Mutant: a re-key that forgets the campaign in progress.
SetPskKeepsCampaign(k) ==
  /\ fPsk' = k /\ fLatched' = NoIssuer
  /\ fLastApplied' = [s \in Originators \X Sessions |-> -1]
  /\ UNCHANGED <<fState, fCampaign, fLastAccept, fSwitchAt, fVerifyDeadline,
                 fFreezeUntil, fLastBoundRx>>

\* set_psk: a new pairing epoch.
FSetPsk(k) ==
  /\ fPsk' = k /\ fLatched' = NoIssuer
  /\ fLastApplied' = [s \in Originators \X Sessions |-> -1]
  /\ fState' = "idle" /\ fCampaign' = NoCampaign
  /\ UNCHANGED <<fLastAccept, fSwitchAt, fVerifyDeadline, fFreezeUntil,
                 fLastBoundRx>>
=============================================================================
