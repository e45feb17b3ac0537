----------------------------- MODULE CsaProofs -----------------------------
(***************************************************************************)
(* The craft's CSA engine against any environment (CsaFollowerEnv) and the *)
(* two ends together (CsaLink), for every set of issuers, sessions, keys,  *)
(* channels and packets, and every value of the policy's timers.           *)
(***************************************************************************)
EXTENDS CsaFollowerEnv, CsaLink, SequenceTheorems, TLAPS

\* What ArmsOnce needs: the anti-replay record dominates every campaign the
\* key epoch accepted.
ReplayRecord ==
  \A h \in hArmed : h[3] <= fLastApplied[<<h[1], h[2]>>]

\* What AppointmentKept needs: an armed switch lies within the accepted
\* copy's own dt.
Appointment ==
  fState = "armed" =>
    /\ fLastAccept # 0 /\ fCampaign \in CsaPacket /\ fCampaign.dt \in EnvDts
    /\ fSwitchAt <= fLastAccept + fCampaign.dt * Ms

FInv == /\ FTypeOK /\ CampaignBound /\ BindingReleasable /\ DeafnessBounded
        /\ ReplayRecord /\ Appointment

-----------------------------------------------------------------------------
\* A product of naturals is a natural and grows with its factors.
LEMMA MulNat ==
  ASSUME NEW a \in Nat, NEW b \in Nat
  PROVE  a * b \in Nat
OBVIOUS

\* Products of naturals grow with a factor.
LEMMA MulMono ==
  ASSUME NEW a \in Nat, NEW b \in Nat, NEW c \in Nat, a <= b
  PROVE  a * c <= b * c
<1>1. b - a \in Nat
  OBVIOUS
<1>2. (b - a) * c \in Nat
  BY <1>1, MulNat
<1>3. (b - a) * c = b * c - a * c
  OBVIOUS
<1> QED
  BY <1>2, <1>3, MulNat

\* The switch instant is a time no later than the copy's dt from now.
LEMMA SwitchInstantBounds ==
  ASSUME now \in Nat, Ms \in Nat, NEW p \in CsaPacket, NEW e \in Nat
  PROVE  /\ SwitchInstant(p, e) \in Nat
         /\ SwitchInstant(p, e) <= now + p.dt * Ms
<1>1. p.dt * Ms \in Nat
  BY MulNat DEF CsaPacket
<1> QED
  BY <1>1 DEF SwitchInstant

\* The verify window is a duration within the craft's own timeout.
LEMMA WindowBounds ==
  ASSUME fCampaign \in CsaPacket
  PROVE  VerifyWindow \in Nat /\ VerifyWindow <= VerifyTimeout
BY CsaConstants DEF VerifyWindow, Min2, CsaPacket
-----------------------------------------------------------------------------
\* Packets of the environment are CSA packets.
LEMMA EnvPacket ==
  ASSUME NEW p \in EnvPackets
  PROVE  p \in CsaPacket /\ p.dt \in EnvDts
BY EnvConstants DEF EnvPackets, CsaPacket

\* NoCampaign is no packet: it has no issuer.
LEMMA NoCampaignNoPacket == NoCampaign \notin CsaPacket
BY CsaConstants DEF NoCampaign, CsaPacket

\* The follower starts idle, with no campaign and no binding.
LEMMA InitInv == EnvInit => FInv
<1> SUFFICES ASSUME EnvInit PROVE FInv
  OBVIOUS
<1> USE CsaConstants, FollowerConstants DEF EnvInit, FInit
<1>1. FTypeOK
  BY DEF FTypeOK, Time, FStates
<1>2. CampaignBound /\ BindingReleasable /\ DeafnessBounded /\ Appointment
  BY DEF CampaignBound, BindingReleasable, DeafnessBounded, Appointment
<1>3. ReplayRecord
  BY DEF ReplayRecord
<1> QED
  BY <1>1, <1>2, <1>3 DEF FInv

\* Accepting a copy: the new campaign is bound, recorded and within its dt.
LEMMA AcceptInv ==
  ASSUME FInv, NEW p \in EnvPackets, NEW e \in EnvElapsed, HearCopy(p, e)
  PROVE  FInv'
<1> DEFINE s == Stream(p)
<1> USE CsaConstants, FollowerConstants, EnvConstants
<1>0. /\ p \in CsaPacket /\ p.dt \in EnvDts /\ e \in Nat
      /\ now \in Nat /\ now # 0 /\ Ms \in Nat /\ Settle * Ms \in Nat
  BY EnvPacket, MulNat DEF FInv, FTypeOK, Time
<1>1. /\ p.orig \in Originators /\ p.sess \in Sessions /\ p.nonce \in Nat
      /\ s = <<p.orig, p.sess>> /\ s \in Originators \X Sessions
  BY <1>0 DEF CsaPacket, Stream
<1>2. SwitchInstant(p, e) \in Nat /\ SwitchInstant(p, e) <= now + p.dt * Ms
  BY <1>0, SwitchInstantBounds
<1>3. FTypeOK'
  BY <1>0, <1>1, <1>2
     DEF FInv, FTypeOK, HearCopy, FAccept, FStates, Time, CampaignId
<1>4. fLastApplied'[s] = p.nonce
  BY <1>1 DEF FInv, FTypeOK, HearCopy, FAccept
<1>5. (CampaignBound /\ BindingReleasable /\ DeafnessBounded)'
  BY <1>0, <1>1, <1>4 DEF HearCopy, FAccept, Acceptable, Authentic,
     CampaignBound, BindingReleasable, DeafnessBounded, Stream, Allowed
<1>6. Appointment'
  BY <1>0, <1>2 DEF HearCopy, FAccept, Appointment
<1>7. ReplayRecord'
  <2> SUFFICES ASSUME NEW h \in hArmed'
               PROVE  h[3] <= fLastApplied'[<<h[1], h[2]>>]
    BY DEF ReplayRecord
  <2>1. CASE h = CampaignId(p)
    BY <2>1, <1>1, <1>4 DEF CampaignId
  <2>2. CASE h \in hArmed
    <3>1. /\ h \in Originators \X Sessions \X Nat
          /\ h[3] <= fLastApplied[<<h[1], h[2]>>]
      BY <2>2 DEF FInv, FTypeOK, ReplayRecord
    <3>2. p.nonce > fLastApplied[s]
      BY DEF HearCopy, FAccept, Acceptable, Fresh
    <3>3. CASE <<h[1], h[2]>> = s
      BY <3>1, <3>2, <3>3, <1>1, <1>4 DEF FInv, FTypeOK
    <3>4. CASE <<h[1], h[2]>> # s
      BY <3>1, <3>4, <1>1 DEF FInv, FTypeOK, HearCopy, FAccept
    <3> QED
      BY <3>3, <3>4
  <2> QED
    BY <2>1, <2>2 DEF HearCopy
<1> QED
  BY <1>3, <1>5, <1>6, <1>7 DEF FInv

\* Every step preserves the invariant.
LEMMA NextInv == FInv /\ [EnvNext]_envVars => FInv'
<1> SUFFICES ASSUME FInv, [EnvNext]_envVars PROVE FInv'
  OBVIOUS
<1> USE CsaConstants, FollowerConstants, EnvConstants
<1> DEFINE Rest == CampaignBound /\ BindingReleasable /\ ReplayRecord
<1>0. VerifyTimeout * Ms \in Nat /\ Ms \in Nat /\ now \in Nat
  BY MulNat DEF FInv, FTypeOK, Time
<1>1. CASE EnvAdvance
  <2>1. FTypeOK'
    BY <1>1 DEF FInv, FTypeOK, EnvAdvance, fVars, Time
  <2>2. (Rest /\ Appointment)'
    BY <1>1 DEF FInv, EnvAdvance, fVars, CampaignBound, BindingReleasable,
       ReplayRecord, Appointment, Stream, Allowed
  <2>3. DeafnessBounded'
    BY <1>1, <1>0 DEF FInv, FTypeOK, EnvAdvance, fVars, DeafnessBounded
  <2> QED
    BY <2>1, <2>2, <2>3 DEF FInv
<1>2. CASE \E p \in EnvPackets, e \in EnvElapsed : HearCopy(p, e)
  BY <1>2, AcceptInv
<1>3. CASE \E p \in EnvPackets : HearBeacon(p)
  <2>1. FTypeOK'
    BY <1>3, <1>0 DEF FInv, FTypeOK, HearBeacon, FConfirm, FStates, Time
  <2>2. (Rest /\ Appointment /\ DeafnessBounded)'
    BY <1>3 DEF FInv, HearBeacon, FConfirm, ConfirmsVerify, CampaignBound,
       BindingReleasable, ReplayRecord, Appointment, DeafnessBounded, Stream
  <2> QED
    BY <2>1, <2>2 DEF FInv
<1>4. CASE \E o \in Originators : HearTraffic(o)
  <2>1. FTypeOK'
    BY <1>4, <1>0 DEF FInv, FTypeOK, HearTraffic, FNoteValidRx, FStates, Time
  <2>2. (Rest /\ Appointment /\ DeafnessBounded)'
    BY <1>4 DEF FInv, HearTraffic, FNoteValidRx, CampaignBound,
       BindingReleasable, ReplayRecord, Appointment, DeafnessBounded, Stream,
       Allowed
  <2> QED
    BY <2>1, <2>2 DEF FInv
<1>5. CASE Tick
  <2> USE <1>5 DEF Tick
  <2>1. CASE FSwitch
    <3>1. FTypeOK'
      BY <2>1 DEF FInv, FTypeOK, FSwitch, FStates
    <3>2. (Rest /\ Appointment)'
      BY <2>1 DEF FInv, FSwitch, SwitchDue, CampaignBound, BindingReleasable,
         ReplayRecord, Appointment, Stream, Allowed
    <3>3. DeafnessBounded'
      BY <2>1, <1>0 DEF FSwitch, DeafnessBounded
    <3> QED
      BY <3>1, <3>2, <3>3 DEF FInv
  <2>2. CASE FVerify
    <3>0. fCampaign \in CsaPacket
      BY <2>2 DEF FInv, CampaignBound, FVerify
    <3>1. VerifyWindow \in Nat /\ VerifyWindow <= VerifyTimeout
      BY <3>0, WindowBounds
    <3>2. VerifyWindow * Ms \in Nat /\ VerifyWindow * Ms <= VerifyTimeout * Ms
      BY <3>1, <1>0, MulNat, MulMono
    <3>3. FTypeOK'
      BY <2>2, <3>2, <1>0 DEF FInv, FTypeOK, FVerify, FStates
    <3>4. (Rest /\ Appointment)'
      BY <2>2 DEF FInv, FVerify, CampaignBound, BindingReleasable,
         ReplayRecord, Appointment, Stream, Allowed
    <3>5. DeafnessBounded'
      BY <2>2, <3>2, <1>0 DEF FInv, FTypeOK, FVerify, DeafnessBounded
    <3> QED
      BY <3>3, <3>4, <3>5 DEF FInv
  <2>3. CASE FRelease
    <3>1. FTypeOK'
      BY <2>3 DEF FInv, FTypeOK, FRelease
    <3>2. (Rest /\ Appointment /\ DeafnessBounded)'
      BY <2>3 DEF FInv, FRelease, BindingExpired, CampaignBound,
         BindingReleasable, ReplayRecord, Appointment, DeafnessBounded
    <3> QED
      BY <3>1, <3>2 DEF FInv
  <2> QED
    BY <2>1, <2>2, <2>3
<1>6. CASE LocalRetune
  <2>1. FTypeOK'
    BY <1>6 DEF FInv, FTypeOK, LocalRetune, FDetach, FStates
  <2>2. (Rest /\ Appointment /\ DeafnessBounded)'
    BY <1>6 DEF FInv, LocalRetune, FDetach, CampaignBound, BindingReleasable,
       ReplayRecord, Appointment, DeafnessBounded
  <2> QED
    BY <2>1, <2>2 DEF FInv
<1>7. CASE \E k \in Keys : Rekey(k)
  <2>1. FTypeOK'
    BY <1>7 DEF FInv, FTypeOK, Rekey, FSetPsk, FStates
  <2>2. (Rest /\ Appointment /\ DeafnessBounded)'
    BY <1>7 DEF FInv, Rekey, FSetPsk, CampaignBound, BindingReleasable,
       ReplayRecord, Appointment, DeafnessBounded
  <2> QED
    BY <2>1, <2>2 DEF FInv
<1>8. CASE UNCHANGED envVars
  BY <1>8 DEF FInv, FTypeOK, CampaignBound, BindingReleasable, ReplayRecord,
     Appointment, DeafnessBounded, envVars, fVars, Stream, Allowed
<1> QED
  BY <1>1, <1>2, <1>3, <1>4, <1>5, <1>6, <1>7, <1>8 DEF EnvNext

\* The engine's invariant holds in every state of every environment.
THEOREM Invariant == EnvSpec => []FInv
BY InitInv, NextInv, PTL DEF EnvSpec

\* Every variable of the craft's CSA engine keeps its type.
THEOREM TypeCorrect == EnvSpec => []FTypeOK
<1>1. FInv => FTypeOK
  BY DEF FInv
<1> QED
  BY <1>1, Invariant, PTL

\* A campaign in progress is authenticated by the current key, bound to its
\* issuer, allowlisted and on record; a bound craft is on its way to release;
\* no issuer keeps it deaf beyond its own timeout.
THEOREM CampaignSafety ==
  EnvSpec => [](CampaignBound /\ BindingReleasable /\ DeafnessBounded)
<1>1. FInv => CampaignBound /\ BindingReleasable /\ DeafnessBounded
  BY DEF FInv
<1> QED
  BY <1>1, Invariant, PTL

\* A bound craft can always be released by silence or a local command, and no issuer
\* keeps it deaf longer than its own timeout (csa.cpp tick, set_psk, release_binding).
THEOREM BindingBoundedHolds == EnvSpec => []BindingBounded
<1>1. FInv => BindingBounded
  BY DEF FInv, BindingBounded
<1> QED
  BY <1>1, Invariant, PTL
-----------------------------------------------------------------------------
\* Only an accepted copy moves the rate-limit anchor.
LEMMA AcceptOnly ==
  ASSUME FInv, [EnvNext]_envVars, fLastAccept' # fLastAccept
  PROVE  \E p \in EnvPackets, e \in EnvElapsed : HearCopy(p, e)
BY DEF EnvNext, envVars, fVars, EnvAdvance, HearBeacon, FConfirm, HearTraffic,
   FNoteValidRx, Tick, FSwitch, FVerify, FRelease, LocalRetune, FDetach, Rekey,
   FSetPsk

\* A campaign arms at most once in a key epoch, whatever copies are repeated,
\* reordered or replayed.
THEOREM ArmsOnceHolds == EnvSpec => ArmsOnce
<1>1. FInv /\ [EnvNext]_envVars =>
        [fLastAccept' # fLastAccept => CampaignId(fCampaign') \notin hArmed]_envVars
  <2> SUFFICES ASSUME FInv, [EnvNext]_envVars, fLastAccept' # fLastAccept,
                      CampaignId(fCampaign') \in hArmed
               PROVE  FALSE
    OBVIOUS
  <2>1. PICK p \in EnvPackets, e \in EnvElapsed : HearCopy(p, e)
    BY AcceptOnly
  <2>2. p \in CsaPacket /\ fCampaign' = p
    BY <2>1, EnvPacket DEF HearCopy, FAccept
  <2>3. p.nonce > fLastApplied[<<p.orig, p.sess>>]
    BY <2>1 DEF HearCopy, FAccept, Acceptable, Fresh, Stream
  <2>4. CampaignId(p) = <<p.orig, p.sess, p.nonce>>
    BY DEF CampaignId
  <2>5. p.nonce <= fLastApplied[<<p.orig, p.sess>>]
    BY <2>2, <2>4 DEF FInv, ReplayRecord
  <2>6. /\ p.nonce \in Nat /\ <<p.orig, p.sess>> \in Originators \X Sessions
        /\ fLastApplied[<<p.orig, p.sess>>] \in Int
    BY <2>2 DEF FInv, FTypeOK, CsaPacket
  <2> QED
    BY <2>3, <2>5, <2>6
<1> QED
  BY <1>1, Invariant, PTL DEF EnvSpec, ArmsOnce

\* While every dt on the air is within min_interval_ms, the craft keeps the
\* switch appointment it acknowledged.
THEOREM AppointmentKeptHolds ==
  ASSUME \A d \in EnvDts : d <= MinInterval
  PROVE  EnvSpec => AppointmentKept
<1>1. FInv /\ [EnvNext]_envVars =>
        [(fState = "armed" /\ fLastAccept' # fLastAccept)
           => now >= fSwitchAt]_envVars
  <2> SUFFICES ASSUME FInv, [EnvNext]_envVars, fState = "armed",
                      fLastAccept' # fLastAccept
               PROVE  now >= fSwitchAt
    OBVIOUS
  <2> USE CsaConstants, EnvConstants
  <2>1. PICK p \in EnvPackets, e \in EnvElapsed : HearCopy(p, e)
    BY AcceptOnly
  <2>2. /\ fLastAccept # 0 /\ fCampaign.dt \in EnvDts
        /\ fSwitchAt <= fLastAccept + fCampaign.dt * Ms
    BY DEF FInv, Appointment
  <2>3. now - fLastAccept >= MinInterval * Ms
    BY <2>1, <2>2, MulNat
       DEF HearCopy, FAccept, Acceptable, RateLimited, FInv, FTypeOK, Time
  <2>4. fCampaign.dt * Ms <= MinInterval * Ms
    BY <2>2, MulMono
  <2>5. fCampaign.dt * Ms \in Nat /\ MinInterval * Ms \in Nat
    BY <2>2, MulNat
  <2> QED
    BY <2>2, <2>3, <2>4, <2>5 DEF FInv, FTypeOK, Time
<1> QED
  BY <1>1, Invariant, PTL DEF EnvSpec, AppointmentKept

\* No sequence of packets takes a bound craft from its issuer.
THEOREM BindingNotStolenHolds == EnvSpec => BindingNotStolen
<1>1. FInv /\ [EnvNext]_envVars =>
        [(fLatched # NoIssuer /\ fLatched' # fLatched) =>
           /\ fLatched' = NoIssuer
           /\ \/ fState' = "idle"
              \/ /\ fState = "committed" /\ fState' = "committed"
                 /\ now - fLastBoundRx > BindRelease * Ms]_envVars
  BY DEF EnvNext, envVars, fVars, EnvAdvance, HearCopy, FAccept, Acceptable,
     IssuerLocked, HearBeacon, FConfirm, HearTraffic, FNoteValidRx, Tick,
     FSwitch, FVerify, FRelease, BindingExpired, LocalRetune, FDetach, Rekey,
     FSetPsk
<1> QED
  BY <1>1, Invariant, PTL DEF EnvSpec, BindingNotStolen

-----------------------------------------------------------------------------
(* The two ends agree on the switch instant *)

Heard == [pkt : CsaPacket, at : Nat]
LinkTypeOK ==
  /\ setup \in Setup /\ now \in Nat /\ cNext \in Nat
  /\ up \in Seq(Heard) /\ held \in SUBSET CsaPacket
  /\ iPsk \in Keys \cup {NoKey} /\ iSwitchAt \in Nat /\ iNextNonce \in Nat \ {0}
  /\ Active => iTmpl \in CsaPacket
  /\ iTmpl.nonce \in Nat /\ fSwitchAt \in Int

\* A nonce names one campaign: those in use are spent.
NoncesSpent ==
  /\ iTmpl.nonce < iNextNonce
  /\ \A i \in 1..Len(up) : up[i].pkt.nonce < iNextNonce
  /\ \A p \in held : p.nonce < iNextNonce
  /\ fState = "armed" => fCampaign.nonce \in Nat /\ fCampaign.nonce < iNextNonce

\* A copy that left the air at `at' with this dt is of this switch instant.
DatedCopy(p, at) ==
  p.nonce = iTmpl.nonce /\ p.dt # 0 =>
    /\ p.dt >= ShortestDt
    /\ iSwitchAt - Ms < at + p.dt * Ms /\ at + p.dt * Ms <= iSwitchAt
CopiesDated == \A i \in 1..Len(up) : DatedCopy(up[i].pkt, up[i].at)

\* The craft looks at what it hears within LookDelay.
LookedAtSoon ==
  ~setup.faults =>
    /\ cNext <= now + LookDelay
    /\ \A i \in 1..Len(up) : /\ up[i].at <= now /\ now <= up[i].at + LookDelay
                             /\ cNext <= up[i].at + LookDelay

AgreementInv == /\ LinkTypeOK /\ NoncesSpent /\ CopiesDated /\ LookedAtSoon
                /\ SwitchAgreement

\* Whole milliseconds: what the division drops is less than one.
LEMMA WholeMs ==
  ASSUME NEW left \in Nat
  PROVE  /\ left \div Ms \in Nat /\ (left \div Ms) * Ms \in Nat
         /\ (left \div Ms) * Ms <= left /\ left < (left \div Ms) * Ms + Ms
<1>1. Ms \in Nat \ {0} BY CsaConstants
<1>2. \A m \in Nat \ {0} : /\ left \div m \in Nat /\ m * (left \div m) <= left
                           /\ left < m * (left \div m) + m
  OBVIOUS
<1>3. left \div Ms \in Nat BY <1>1, <1>2
<1>4. (left \div Ms) * Ms = Ms * (left \div Ms) BY <1>1, <1>3
<1> QED BY <1>1, <1>2, <1>3, <1>4

\* A quotient grows with what is divided.
LEMMA DivMono ==
  ASSUME NEW a \in Nat, NEW b \in Nat, a <= b
  PROVE  a \div Ms <= b \div Ms
<1>1. Ms \in Nat \ {0} BY CsaConstants
<1>2. /\ (a \div Ms) * Ms <= a /\ b < (b \div Ms) * Ms + Ms
      /\ a \div Ms \in Nat /\ b \div Ms \in Nat
  BY WholeMs
<1> DEFINE qa == a \div Ms
           qb == b \div Ms
<1> HIDE DEF qa, qb
<1>3. ASSUME qa >= qb + 1 PROVE FALSE
  <2>0. qb + 1 \in Nat /\ qa \in Nat BY <1>2 DEF qa, qb
  <2>1. (qb + 1) * Ms <= qa * Ms BY <1>1, <1>3, <2>0, MulMono
  <2>2. (qb + 1) * Ms = qb * Ms + Ms BY <1>1, <1>2 DEF qa, qb
  <2>3. qa * Ms <= a /\ b < qb * Ms + Ms /\ qa * Ms \in Nat /\ qb * Ms \in Nat
    BY <1>1, <1>2, <2>0, MulNat DEF qa, qb
  <2> QED BY <1>1, <2>1, <2>2, <2>3
<1>4. qa \in Nat /\ qb \in Nat BY <1>2 DEF qa, qb
<1>5. qa <= qb BY <1>3, <1>4
<1> QED BY <1>5 DEF qa, qb

\* A copy stamped while the copy window is open is dated.
LEMMA StampDates ==
  ASSUME LinkTypeOK, CopyWindowOpen, NEW p \in CsaPacket
  PROVE  /\ StampCopy(p) \in CsaPacket /\ StampCopy(p).nonce = p.nonce
         /\ DatedCopy(StampCopy(p), now)
<1> DEFINE left == iSwitchAt - now
           q == left \div Ms
<1>0. Ms \in Nat \ {0} /\ CopyCutoff \in Nat /\ CopyCutoff + 1 >= Ms
  BY CsaConstants, IssuerConstants
<1>1. iSwitchAt > now /\ left \in Nat /\ CopyCutoff + 1 <= left
  BY <1>0 DEF LinkTypeOK, CopyWindowOpen
<1>2. q \in Nat /\ q * Ms \in Nat /\ q * Ms <= left /\ left < q * Ms + Ms
  BY <1>1, WholeMs
<1>3. ShortestDt <= q
  <2>1. CopyCutoff + 1 \in Nat BY <1>0
  <2> HIDE DEF left
  <2> QED BY <1>1, <2>1, DivMono DEF ShortestDt
<1>4. q >= 1
  <2>1. CASE q = 0
    <3>1. q * Ms = 0 BY <1>0, <2>1
    <3> HIDE DEF q, left
    <3> QED BY <1>0, <1>1, <1>2, <3>1
  <2> QED BY <1>2, <2>1
<1>5. StampCopy(p) = [p EXCEPT !.dt = q, !.mac = iPsk]
  <2>1. Max2(1, q) = q
    <3> HIDE DEF q
    <3> QED BY <1>2, <1>4 DEF Max2
  <2> QED BY <1>1, <2>1 DEF StampCopy
<1> HIDE DEF q
<1>6. /\ StampCopy(p) \in CsaPacket /\ StampCopy(p).nonce = p.nonce /\ StampCopy(p).dt = q
  BY <1>2, <1>5 DEF CsaPacket, LinkTypeOK
<1>7. iSwitchAt - Ms < now + q * Ms /\ now + q * Ms <= iSwitchAt
  BY <1>0, <1>2 DEF LinkTypeOK
<1> QED BY <1>3, <1>6, <1>7 DEF DatedCopy

\* What the ground transmits enters the craft's queue dated, or does not enter it.
LEMMA TransmitKeeps ==
  ASSUME AgreementInv, NEW p \in CsaPacket, p.nonce < iNextNonce, DatedCopy(p, now),
         Transmit(p), UNCHANGED <<now, setup, cNext, iTmpl, iSwitchAt, iNextNonce>>,
         Active' => Active
  PROVE  /\ up' \in Seq(Heard)
         /\ \A i \in 1..Len(up') : up'[i].pkt.nonce < iNextNonce'
         /\ CopiesDated' /\ LookedAtSoon'
<1> USE DEF AgreementInv
<1>0. LookDelay' = LookDelay /\ ShortestDt' = ShortestDt /\ Lateness' = Lateness
  BY DEF LookDelay, ShortestDt, Lateness
<1>1. CASE up' = up
  BY <1>0, <1>1 DEF LinkTypeOK, NoncesSpent, CopiesDated, DatedCopy, LookedAtSoon
<1>2. CASE up' = Append(up, [pkt |-> p, at |-> now])
  <2> DEFINE f == [pkt |-> p, at |-> now]
  <2>1. up \in Seq(Heard) /\ f \in Heard /\ now \in Nat BY DEF LinkTypeOK, Heard
  <2>2. f.pkt = p /\ f.at = now OBVIOUS
  <2> HIDE DEF f
  <2>3. /\ up' \in Seq(Heard) /\ Len(up') = Len(up) + 1 /\ Len(up) \in Nat
        /\ \A i \in 1..Len(up) : up'[i] = up[i]
        /\ up'[Len(up) + 1] = f
    BY <1>2, <2>1, AppendProperties, LenProperties DEF f
  <2>4. \A i \in 1..Len(up') : i \in 1..Len(up) \/ i = Len(up) + 1 BY <2>3
  <2>5. \A i \in 1..Len(up') : up'[i].pkt.nonce < iNextNonce'
    BY <2>2, <2>3, <2>4 DEF NoncesSpent
  <2>6. CopiesDated'
    <3> SUFFICES ASSUME NEW i \in 1..Len(up') PROVE DatedCopy(up[i].pkt, up[i].at)'
      BY DEF CopiesDated
    <3>1. DatedCopy(up'[i].pkt, up'[i].at) BY <2>2, <2>3, <2>4 DEF CopiesDated
    <3> QED BY <1>0, <3>1 DEF DatedCopy
  <2>7. LookDelay \in Nat
    BY LinkConstants DEF LookDelay, LinkTypeOK, Setup, Max2
  <2>8. ASSUME ~setup.faults
        PROVE  \A i \in 1..Len(up') : /\ up'[i].at <= now /\ now <= up'[i].at + LookDelay
                                      /\ cNext <= up'[i].at + LookDelay
    BY <2>1, <2>2, <2>3, <2>4, <2>7, <2>8 DEF LookedAtSoon
  <2>9. LookedAtSoon' BY <1>0, <2>8 DEF LookedAtSoon
  <2> QED BY <2>3, <2>5, <2>6, <2>9
<1> QED BY <1>1, <1>2 DEF Transmit

\* Steps that leave the campaign's identity and the craft's queue alone.
LEMMA GroundSteady ==
  ASSUME AgreementInv,
         UNCHANGED <<now, setup, cNext, iTmpl, iSwitchAt, iNextNonce, up, fState, fCampaign,
                     fSwitchAt>>,
         Active' => Active, held' \in SUBSET held, iPsk' \in Keys \cup {NoKey}
  PROVE  AgreementInv'
<1> USE DEF AgreementInv
<1>0. LookDelay' = LookDelay /\ ShortestDt' = ShortestDt /\ Lateness' = Lateness
  BY DEF LookDelay, ShortestDt, Lateness
<1>1. LinkTypeOK' BY DEF LinkTypeOK
<1>2. NoncesSpent' BY DEF NoncesSpent
<1>3. CopiesDated' BY <1>0 DEF CopiesDated, DatedCopy
<1>4. LookedAtSoon' BY <1>0 DEF LookedAtSoon
<1>5. SwitchAgreement' BY <1>0 DEF SwitchAgreement
<1> QED BY <1>1, <1>2, <1>3, <1>4, <1>5

\* The ground's steps that send nothing and start nothing.
LEMMA GroundQuietKeeps ==
  ASSUME AgreementInv,
         \/ GroundHears \/ GroundQuiet \/ GroundCommit \/ GroundCommitFails \/ GroundAbort
         \/ GroundClose \/ GroundLatch \/ \E c \in Channels : GroundMove(c)
  PROVE  AgreementInv'
<1> DEFINE Steady ==
             /\ UNCHANGED <<now, setup, cNext, iTmpl, iSwitchAt, iNextNonce, up, fState,
                            fCampaign, fSwitchAt, held, iPsk>>
             /\ Active' => Active
<1>0. Steady => AgreementInv'
  <2> SUFFICES ASSUME Steady PROVE AgreementInv' OBVIOUS
  <2>1. held' \in SUBSET held /\ iPsk' \in Keys \cup {NoKey} BY DEF AgreementInv, LinkTypeOK
  <2>2. /\ UNCHANGED <<now, setup, cNext, iTmpl, iSwitchAt, iNextNonce, up, fState, fCampaign,
                       fSwitchAt>>
        /\ Active' => Active
    OBVIOUS
  <2> HIDE DEF Steady
  <2> QED BY <2>1, <2>2, GroundSteady, Zenon
<1> USE DEF GroundOnly, fVars, heldVars
<1>3. CASE GroundHears
  <2>1. UNCHANGED <<iState, iPsk, iNextNonce, iTmpl, iSwitchAt>>
    BY <1>3, Zenon DEF GroundHears, INoteCraftFrame
  <2> QED BY <1>3, <1>0, <2>1 DEF GroundHears, Active
<1>4. CASE GroundQuiet
  BY <1>4, <1>0 DEF GroundQuiet, ICloseWindow, WindowCloses, IQuiet, Stay, Active, iVars
<1>5. CASE GroundCommit
  BY <1>5, <1>0 DEF GroundCommit, ICommit, CommitDue, Stay, Active
<1>6. CASE GroundCommitFails
  BY <1>6, <1>0 DEF GroundCommitFails, ICommit, CommitDue, Stay, Active
<1>7. CASE GroundAbort
  BY <1>7, <1>0 DEF GroundAbort, IAbort, AbortDue, Stay, Active
<1>8. CASE GroundClose
  BY <1>8, <1>0 DEF GroundClose, ISuccess, Stay, Active
<1>9. CASE GroundLatch
  BY <1>9, <1>0 DEF GroundLatch, iVars, Active
<1>2. ASSUME NEW c \in Channels, GroundMove(c) PROVE AgreementInv'
  BY <1>2, <1>0 DEF GroundMove, iVars, Active
<1> QED BY <1>2, <1>3, <1>4, <1>5, <1>6, <1>7, <1>8, <1>9

\* The ground's steps that send: the held copy, a copy, a beacon.
LEMMA GroundSendKeeps ==
  ASSUME AgreementInv, GroundRelease \/ GroundSendCopy \/ GroundSendBeacon
  PROVE  AgreementInv'
<1> USE DEF AgreementInv
<1>0. LookDelay \in Nat BY LinkConstants DEF LookDelay, LinkTypeOK, Setup, Max2
<1>1. /\ UNCHANGED <<now, setup, cNext, fState, fCampaign, fSwitchAt>>
      /\ LookDelay' = LookDelay /\ ShortestDt' = ShortestDt /\ Lateness' = Lateness
  BY DEF GroundRelease, GroundSendCopy, GroundSendBeacon, GroundOnly, fVars, LookDelay,
         ShortestDt, Lateness
<1>2. CASE GroundRelease
  <2>1. /\ UNCHANGED <<iState, iPsk, iTmpl, iSwitchAt, iNextNonce>> /\ held' = {}
    BY <1>2 DEF GroundRelease, iVars
  <2>2. Active' = Active BY <2>1 DEF Active
  <2>3. PICK p \in held : IF CanRestamp(p) THEN Transmit(RestampCopy(p))
                          ELSE UNCHANGED <<up, losses>>
    BY <1>2 DEF GroundRelease
  <2>4. CASE CanRestamp(p)
    <3>1. p \in CsaPacket /\ p.nonce < iNextNonce /\ CopyWindowOpen /\ Transmit(StampCopy(p))
      BY <2>3, <2>4 DEF LinkTypeOK, NoncesSpent, CanRestamp, RestampCopy
    <3>2. /\ StampCopy(p) \in CsaPacket /\ StampCopy(p).nonce < iNextNonce
          /\ DatedCopy(StampCopy(p), now)
      BY <3>1, StampDates
    <3>3. /\ up' \in Seq(Heard) /\ \A i \in 1..Len(up') : up'[i].pkt.nonce < iNextNonce'
          /\ CopiesDated' /\ LookedAtSoon'
      BY <1>1, <2>1, <2>2, <3>1, <3>2, TransmitKeeps
    <3>4. LinkTypeOK' BY <1>1, <2>1, <2>2, <3>3 DEF LinkTypeOK
    <3>5. NoncesSpent' BY <1>1, <2>1, <2>2, <3>3 DEF NoncesSpent
    <3>6. SwitchAgreement' BY <1>1, <2>1, <2>2 DEF SwitchAgreement
    <3> QED BY <3>3, <3>4, <3>5, <3>6
  <2>5. CASE ~CanRestamp(p)
    <3>1. up' = up BY <2>3, <2>5
    <3>2. held' \in SUBSET held /\ iPsk' \in Keys \cup {NoKey} BY <2>1 DEF LinkTypeOK
    <3> QED BY <1>1, <2>1, <2>2, <3>1, <3>2, GroundSteady
  <2> QED BY <2>4, <2>5
<1>3. CASE GroundSendCopy
  <2>1. /\ UNCHANGED <<iPsk, iTmpl, iSwitchAt, iNextNonce>> /\ Active /\ CopyWindowOpen
        /\ iTmpl \in CsaPacket /\ iTmpl.nonce < iNextNonce
    BY <1>3 DEF GroundSendCopy, ISendCopy, AnnounceDue, RepeatDue, Stay, Active, LinkTypeOK,
                NoncesSpent
  <2>2. /\ StampCopy(iTmpl) \in CsaPacket /\ StampCopy(iTmpl).nonce < iNextNonce
        /\ DatedCopy(StampCopy(iTmpl), now)
    BY <2>1, StampDates
  <2>3. SwitchAgreement' BY <1>1, <2>1 DEF SwitchAgreement
  <2>4. CASE up' = up /\ held' = {StampCopy(iTmpl)}
    <3>1. LinkTypeOK' BY <1>1, <2>1, <2>2, <2>4 DEF LinkTypeOK
    <3>2. NoncesSpent' BY <1>1, <2>1, <2>2, <2>4 DEF NoncesSpent
    <3>3. CopiesDated' BY <1>1, <2>1, <2>4 DEF CopiesDated, DatedCopy
    <3>4. LookedAtSoon' BY <1>1, <2>4 DEF LookedAtSoon
    <3> QED BY <2>3, <3>1, <3>2, <3>3, <3>4
  <2>5. CASE Transmit(StampCopy(iTmpl)) /\ held' = held
    <3>3. /\ up' \in Seq(Heard) /\ \A i \in 1..Len(up') : up'[i].pkt.nonce < iNextNonce'
          /\ CopiesDated' /\ LookedAtSoon'
      BY <1>1, <2>1, <2>2, <2>5, TransmitKeeps
    <3>4. LinkTypeOK' BY <1>1, <2>1, <2>5, <3>3 DEF LinkTypeOK
    <3>5. NoncesSpent' BY <1>1, <2>1, <2>5, <3>3 DEF NoncesSpent
    <3> QED BY <2>3, <3>3, <3>4, <3>5
  <2> QED BY <1>3, <2>4, <2>5 DEF GroundSendCopy, heldVars
<1>4. CASE GroundSendBeacon
  <2>1. /\ UNCHANGED <<iPsk, iTmpl, iSwitchAt, iNextNonce, iState, held>> /\ Active
        /\ iTmpl \in CsaPacket /\ iTmpl.nonce < iNextNonce /\ Transmit(Beacon)
    BY <1>4 DEF GroundSendBeacon, ISendBeacon, Stay, Active, LinkTypeOK, NoncesSpent,
                heldVars
  <2>2. /\ Beacon \in CsaPacket /\ Beacon.nonce < iNextNonce /\ Beacon.dt = 0
    BY <2>1 DEF Beacon, CsaPacket, LinkTypeOK
  <2>3. DatedCopy(Beacon, now) BY <2>2 DEF DatedCopy
  <2>4. Active' = Active BY <2>1 DEF Active
  <2>5. /\ up' \in Seq(Heard) /\ \A i \in 1..Len(up') : up'[i].pkt.nonce < iNextNonce'
        /\ CopiesDated' /\ LookedAtSoon'
    BY <1>1, <2>1, <2>2, <2>3, <2>4, TransmitKeeps
  <2>6. LinkTypeOK' BY <1>1, <2>1, <2>4, <2>5 DEF LinkTypeOK
  <2>7. NoncesSpent' BY <1>1, <2>1, <2>4, <2>5 DEF NoncesSpent
  <2>8. SwitchAgreement' BY <1>1, <2>1, <2>4 DEF SwitchAgreement
  <2> QED BY <2>5, <2>6, <2>7, <2>8
<1> QED BY <1>2, <1>3, <1>4

\* A campaign starts under a nonce nothing carries yet.
LEMMA StartKeeps ==
  ASSUME AgreementInv, NEW c \in Channels, GroundClaim(c) \/ GroundCsa(c)
  PROVE  AgreementInv'
<1> USE DEF AgreementInv
<1>1. /\ UNCHANGED <<now, setup, cNext, fState, fCampaign, fSwitchAt, up, held>>
      /\ LookDelay' = LookDelay
  BY DEF GroundClaim, GroundCsa, GroundOnly, fVars, heldVars, LookDelay
<1>2. LookedAtSoon' BY <1>1 DEF LookedAtSoon
<1>3. CASE IStart(Key, Ground, Session, c)
  <2>1. /\ iPsk' = Key /\ iNextNonce' = iNextNonce + 1 /\ iSwitchAt' = now + DtToSwitch * Ms
        /\ iTmpl' = [orig |-> Ground, sess |-> Session, nonce |-> iNextNonce,
                     target |-> c, dt |-> 0, tRevert |-> VerifyTimeout % 65536, mac |-> Key]
    BY <1>3 DEF IStart
  <2>2. iTmpl' \in CsaPacket /\ iTmpl'.nonce = iNextNonce
    <3>1. VerifyTimeout % 65536 \in Nat BY CsaConstants
    <3> QED BY <2>1, <3>1, LinkConstants DEF CsaPacket, LinkTypeOK
  <2>3. iSwitchAt' \in Nat
    <3>1. DtToSwitch * Ms \in Nat BY CsaConstants, IssuerConstants, MulNat
    <3> QED BY <2>1, <3>1 DEF LinkTypeOK
  <2>4. LinkTypeOK' BY <1>1, <2>1, <2>2, <2>3, LinkConstants DEF LinkTypeOK
  <2>5. up \in Seq(Heard) /\ held \in SUBSET CsaPacket BY DEF LinkTypeOK
  <2>6. \A i \in 1..Len(up) : up[i].pkt.nonce \in Nat
    <3>1. \A i \in 1..Len(up) : up[i] \in Heard BY <2>5, ElementOfSeq
    <3> QED BY <3>1 DEF Heard, CsaPacket
  <2>7. \A p \in held : p.nonce \in Nat BY <2>5 DEF CsaPacket
  <2>8. iNextNonce \in Nat BY DEF LinkTypeOK
  <2>9. NoncesSpent' BY <1>1, <2>1, <2>2, <2>6, <2>7, <2>8 DEF NoncesSpent
  <2>10. CopiesDated'
    <3>1. \A i \in 1..Len(up) : up[i].pkt.nonce # iTmpl'.nonce
      BY <2>2, <2>6, <2>8 DEF NoncesSpent
    <3> QED BY <1>1, <3>1 DEF CopiesDated, DatedCopy
  <2>11. SwitchAgreement' BY <1>1, <2>2, <2>8 DEF SwitchAgreement, NoncesSpent
  <2> QED BY <1>2, <2>4, <2>9, <2>10, <2>11
<1>4. CASE ~IStart(Key, Ground, Session, c)
  <2>1. iPsk' = Key /\ UNCHANGED <<iState, iNextNonce, iTmpl, iSwitchAt>>
    BY <1>4 DEF GroundClaim, GroundCsa
  <2>2. /\ Active' => Active
        /\ held' \in SUBSET held /\ iPsk' \in Keys \cup {NoKey}
    BY <1>1, <2>1, LinkConstants DEF Active
  <2> QED BY <1>1, <2>1, <2>2, GroundSteady
<1> QED BY <1>3, <1>4

\* The switch instant of a copy accepted now.
LEMMA AcceptedInstant ==
  ASSUME AgreementInv, NEW i \in 1..Len(up), NEW r \in setup.tsf,
         LET p == up[i].pkt IN
         p.dt # 0 /\ p.nonce = iTmpl.nonce /\ ~setup.faults
  PROVE  LET s == SwitchInstant(up[i].pkt, Elapsed(r, up[i].at, up[i].pkt.dt)) IN
         /\ iSwitchAt - Ms < s
         /\ s <= iSwitchAt + Lateness
<1> DEFINE dt == up[i].pkt.dt
           w == dt * Ms
           at == up[i].at
           e == Elapsed(r, at, dt)
<1>0. LookDelay \in Nat BY LinkConstants DEF AgreementInv, LookDelay, LinkTypeOK, Setup, Max2
<1>1. up[i] \in Heard BY ElementOfSeq DEF AgreementInv, LinkTypeOK
<1>2. dt \in Nat /\ at \in Nat /\ Ms \in Nat \ {0} /\ now \in Nat /\ iSwitchAt \in Nat
  BY <1>1, CsaConstants DEF Heard, CsaPacket, AgreementInv, LinkTypeOK
<1>3. w \in Nat BY <1>2, MulNat
<1>4. /\ dt >= ShortestDt /\ iSwitchAt - Ms < at + w /\ at + w <= iSwitchAt
  BY DEF AgreementInv, CopiesDated, DatedCopy
<1>5. at <= now /\ now <= at + LookDelay BY DEF AgreementInv, LookedAtSoon
<1>6. ShortestDt \in Nat /\ ShortestDt * Ms <= w
  <2>1. CopyCutoff + 1 \in Nat BY IssuerConstants
  <2>2. ShortestDt \in Nat BY <2>1, WholeMs DEF ShortestDt
  <2> QED BY <1>2, <1>4, <2>2, MulMono
<1>7. r \in {"good", "none", "garbage"} BY DEF AgreementInv, LinkTypeOK, Setup
<1> DEFINE s == SwitchInstant(up[i].pkt, e)
<1>8. s = now + w - (IF e > w THEN 0 ELSE e) BY DEF SwitchInstant
<1>9. ShortestDt * Ms \in Nat BY <1>2, <1>6, MulNat
<1>a. \/ r = "good" /\ e = now - at
      \/ r # "good" /\ (e = 0 \/ e = w + 1)
  BY <1>7 DEF Elapsed
<1>b. r \in setup.tsf OBVIOUS
<1> DEFINE least == ShortestDt * Ms
           Agrees == /\ iSwitchAt - Ms < s
                     /\ s <= iSwitchAt + (IF setup.tsf = {"good"} /\ LookDelay <= least
                                          THEN 0 ELSE LookDelay)
<1> HIDE DEF dt, w, at, e, s, least
<1>10. ASSUME r = "good" PROVE Agrees
  <2>1. e = now - at BY <1>10, <1>a
  <2>2. CASE e > w
    <3>1. s = now + w BY <1>2, <1>3, <1>8, <2>2
    <3>2. ~(LookDelay <= least) BY <1>0, <1>2, <1>3, <1>5, <1>6, <1>9, <2>1, <2>2 DEF least
    <3> QED BY <1>0, <1>2, <1>3, <1>4, <1>5, <3>1, <3>2 DEF least
  <2>3. CASE ~(e > w)
    <3>1. s = at + w BY <1>2, <1>3, <1>8, <2>1, <2>3
    <3> QED BY <1>0, <1>2, <1>3, <1>4, <3>1
  <2> QED BY <2>2, <2>3
<1>11. ASSUME r # "good" PROVE Agrees
  <2>1. setup.tsf # {"good"} BY <1>b, <1>11
  <2>2. s = now + w BY <1>2, <1>3, <1>8, <1>11, <1>a
  <2> QED BY <1>0, <1>2, <1>3, <1>4, <1>5, <2>1, <2>2
<1>12. Agrees BY <1>10, <1>11
<1> QED BY <1>12 DEF s, e, at, dt, least, Lateness

\* The craft looks at the next copy of its queue.
LEMMA CraftHearsKeeps == ASSUME AgreementInv, CraftHears PROVE AgreementInv'
<1> USE DEF AgreementInv
<1>1. PICK r \in setup.tsf :
        FOnCsa(Head(up).pkt, Elapsed(r, Head(up).at, Head(up).pkt.dt))
  BY DEF CraftHears
<1>2. /\ up # << >> /\ up' = Tail(up)
      /\ UNCHANGED <<now, setup, cNext, iState, iPsk, iTmpl, iSwitchAt, iNextNonce, held>>
      /\ LookDelay' = LookDelay /\ Active' = Active /\ Lateness' = Lateness
  BY DEF CraftHears, CraftOnly, iVars, heldVars, LookDelay, Active, Lateness, ShortestDt
<1>3. up \in Seq(Heard) /\ Len(up) \in Nat BY LenProperties DEF LinkTypeOK
<1>4. /\ 1 \in 1..Len(up) /\ Head(up) = up[1] /\ up[1] \in Heard
  BY <1>2, <1>3, EmptySeq, ElementOfSeq
<1>5. /\ up' \in Seq(Heard) /\ Len(up') = Len(up) - 1
      /\ \A i \in 1..Len(up') : up'[i] = up[i + 1] /\ i + 1 \in 1..Len(up)
  BY <1>2, <1>3, HeadTailProperties
<1>6. CopiesDated'
  <2> SUFFICES ASSUME NEW i \in 1..Len(up') PROVE DatedCopy(up[i].pkt, up[i].at)'
    BY DEF CopiesDated
  <2>1. DatedCopy(up'[i].pkt, up'[i].at) BY <1>5 DEF CopiesDated
  <2> QED BY <1>2, <2>1 DEF DatedCopy
<1>7. LookedAtSoon' BY <1>2, <1>5 DEF LookedAtSoon
<1>8. CASE FAccept(up[1].pkt, Elapsed(r, up[1].at, up[1].pkt.dt))
  <2> DEFINE p == up[1].pkt
             s == SwitchInstant(p, Elapsed(r, up[1].at, p.dt))
  <2>1. /\ p.dt # 0 /\ fState' = "armed" /\ fCampaign' = p /\ fSwitchAt' = s
    BY <1>8 DEF FAccept, Acceptable, IsBeacon
  <2>2. p.nonce < iNextNonce /\ p.nonce \in Nat
    BY <1>4 DEF NoncesSpent, Heard, CsaPacket
  <2>3. s \in Int
    <3>1. /\ p.dt \in Nat /\ up[1].at \in Nat /\ Ms \in Nat /\ now \in Nat
      BY <1>4, CsaConstants DEF Heard, CsaPacket, LinkTypeOK
    <3>2. p.dt * Ms \in Nat BY <3>1, MulNat
    <3>3. r \in {"good", "none", "garbage"} BY DEF LinkTypeOK, Setup
    <3>4. Elapsed(r, up[1].at, p.dt) \in Int BY <3>1, <3>2, <3>3 DEF Elapsed
    <3> QED BY <3>1, <3>2, <3>4 DEF SwitchInstant
  <2>4. LinkTypeOK' BY <1>2, <1>5, <2>1, <2>3 DEF LinkTypeOK
  <2>5. NoncesSpent' BY <1>2, <1>5, <2>1, <2>2 DEF NoncesSpent
  <2>6. SwitchAgreement'
    <3>1. ASSUME p.nonce = iTmpl.nonce, ~setup.faults
          PROVE  /\ iSwitchAt - Ms < s
                 /\ s <= iSwitchAt + Lateness
      BY <1>4, <2>1, <3>1, AcceptedInstant
    <3> HIDE DEF p, s
    <3> QED BY <1>2, <2>1, <3>1 DEF SwitchAgreement
  <2> QED BY <1>6, <1>7, <2>4, <2>5, <2>6
<1>9. CASE FConfirm(up[1].pkt) \/ FRefuse(up[1].pkt)
  <2>1. /\ fState' = "armed" => fState = "armed"
        /\ UNCHANGED <<fCampaign, fSwitchAt>>
    BY <1>9 DEF FConfirm, FRefuse, fVars
  <2>2. LinkTypeOK' BY <1>2, <1>5, <2>1 DEF LinkTypeOK
  <2>3. NoncesSpent' BY <1>2, <1>5, <2>1 DEF NoncesSpent
  <2>4. SwitchAgreement' BY <1>2, <2>1 DEF SwitchAgreement
  <2> QED BY <1>6, <1>7, <2>2, <2>3, <2>4
<1> QED BY <1>1, <1>4, <1>8, <1>9 DEF FOnCsa

\* The craft's other steps: its queue is read empty before its loop is late again.
LEMMA CraftOtherKeeps ==
  ASSUME AgreementInv,
         \/ CraftHearsTraffic \/ CraftRetune \/ CraftTick \/ CraftVideo
         \/ \E c \in Channels : CraftLocalRetune(c)
  PROVE  AgreementInv'
<1> USE DEF AgreementInv
<1>0. /\ LookDelay \in Nat /\ now \in Nat /\ cNext \in Nat
      /\ now + 1 + RetuneTime <= now + LookDelay /\ now + 1 + setup.stall <= now + LookDelay
      /\ RetuneTime \in Nat /\ setup.stall \in Nat
  <2>1. now \in Nat /\ cNext \in Nat /\ setup \in Setup BY DEF LinkTypeOK
  <2>2. RetuneTime \in Nat /\ setup.stall \in Nat BY <2>1, LinkConstants DEF Setup
  <2> HIDE DEF AgreementInv
  <2>3. /\ LookDelay \in Nat /\ setup.stall + 1 <= LookDelay /\ RetuneTime + 1 <= LookDelay
    BY <2>2 DEF LookDelay, Max2
  <2> QED BY <2>1, <2>2, <2>3
<1>1. /\ UNCHANGED <<now, setup, iState, iPsk, iTmpl, iSwitchAt, iNextNonce, held, up>>
      /\ LookDelay' = LookDelay /\ ShortestDt' = ShortestDt /\ Lateness' = Lateness /\ Active' = Active
  <2>1. CraftOnly /\ UNCHANGED up
    BY Zenon DEF CraftHearsTraffic, CraftRetune, CraftTick, CraftVideo, CraftLocalRetune,
         FlagAndSend
  <2>2. UNCHANGED <<now, setup, iState, iPsk, iTmpl, iSwitchAt, iNextNonce, held, up>>
    BY <2>1 DEF CraftOnly, iVars, heldVars
  <2>3. LookDelay' = LookDelay /\ ShortestDt' = ShortestDt /\ Active' = Active
    BY <2>2 DEF LookDelay, ShortestDt, Active
  <2>4. Lateness' = Lateness BY <2>2, <2>3 DEF Lateness
  <2> QED BY <2>2, <2>3, <2>4
<1>2. /\ fState' = "armed" => fState = "armed" /\ fCampaign' = fCampaign
      /\ fSwitchAt' = fSwitchAt
  <2>1. CASE CraftHearsTraffic BY <2>1 DEF CraftHearsTraffic, FNoteValidRx
  <2>2. CASE CraftRetune BY <2>2 DEF CraftRetune, FSwitch
  <2>3. CASE CraftTick BY <2>3 DEF CraftTick, FVerify, FRelease, FQuiet, fVars
  <2>4. CASE CraftVideo BY <2>4 DEF CraftVideo, fVars
  <2>5. CASE \E c \in Channels : CraftLocalRetune(c)
    BY <2>5 DEF CraftLocalRetune, FDetach
  <2> QED BY <2>1, <2>2, <2>3, <2>4, <2>5
<1>3. \/ cNext' = cNext
      \/ up = << >> /\ cNext' \in Nat /\ cNext' <= now + LookDelay
      \/ setup.faults /\ cNext' \in Nat
  <2>1. CASE CraftHearsTraffic \/ CraftVideo BY <2>1 DEF CraftHearsTraffic, CraftVideo
  <2>2. CASE CraftRetune
    <3>1. up = << >> /\ cNext' \in now + 1 .. now + 1 + RetuneTime BY <2>2 DEF CraftRetune
    <3> QED BY <1>0, <3>1
  <2>3. CASE CraftTick
    <3>1. up = << >> /\ cNext' \in now + 1 .. now + 1 + setup.stall BY <2>3 DEF CraftTick
    <3> QED BY <1>0, <3>1
  <2>4. CASE \E c \in Channels : CraftLocalRetune(c)
    BY <1>0, <2>4 DEF CraftLocalRetune
  <2> QED BY <2>1, <2>2, <2>3, <2>4
<1>4. LinkTypeOK' BY <1>0, <1>1, <1>2, <1>3 DEF LinkTypeOK
<1>5. NoncesSpent' BY <1>1, <1>2 DEF NoncesSpent
<1>6. CopiesDated' BY <1>1 DEF CopiesDated, DatedCopy
<1>7. LookedAtSoon'
  <2>1. up = << >> => \A i \in 1..Len(up) : FALSE OBVIOUS
  <2> QED BY <1>1, <1>3, <2>1 DEF LookedAtSoon
<1>8. SwitchAgreement' BY <1>1, <1>2 DEF SwitchAgreement
<1> QED BY <1>4, <1>5, <1>6, <1>7, <1>8

\* Time does not pass a loop that has something to do.
LEMMA TimeKeeps == ASSUME AgreementInv, Advance PROVE AgreementInv'
<1> USE DEF AgreementInv
<1>1. /\ now' = now + 1 /\ cNext > now
      /\ UNCHANGED <<setup, iState, iPsk, iTmpl, iSwitchAt, iNextNonce, held, up, cNext,
                     fState, fCampaign, fSwitchAt>>
      /\ LookDelay' = LookDelay /\ ShortestDt' = ShortestDt /\ Lateness' = Lateness /\ Active' = Active
  BY DEF Advance, iVars, fVars, heldVars, LookDelay, ShortestDt, Lateness, Active
<1>2. LookDelay \in Nat /\ now \in Nat /\ cNext \in Nat /\ up \in Seq(Heard)
  BY LinkConstants DEF LookDelay, LinkTypeOK, Setup, Max2
<1>3. \A i \in 1..Len(up) : up[i].at \in Nat
  <2>1. \A i \in 1..Len(up) : up[i] \in Heard BY <1>2, ElementOfSeq
  <2> QED BY <2>1 DEF Heard
<1>4. LinkTypeOK' BY <1>1, <1>2 DEF LinkTypeOK
<1>5. NoncesSpent' BY <1>1 DEF NoncesSpent
<1>6. CopiesDated' BY <1>1 DEF CopiesDated, DatedCopy
<1>7. LookedAtSoon'
  <2> SUFFICES ASSUME ~setup.faults PROVE LookedAtSoon' BY <1>1 DEF LookedAtSoon
  <2>1. cNext <= now' + LookDelay BY <1>1, <1>2 DEF LookedAtSoon
  <2>2. ASSUME NEW i \in 1..Len(up)
        PROVE  /\ up[i].at <= now' /\ now' <= up[i].at + LookDelay
               /\ cNext <= up[i].at + LookDelay
    <3>1. up[i].at <= now /\ cNext <= up[i].at + LookDelay BY DEF LookedAtSoon
    <3> QED BY <1>1, <1>2, <1>3, <3>1
  <2> QED BY <1>1, <2>1, <2>2 DEF LookedAtSoon
<1>8. SwitchAgreement' BY <1>1 DEF SwitchAgreement
<1> QED BY <1>4, <1>5, <1>6, <1>7, <1>8

\* The agreement's invariant holds of the link.
LEMMA AgreementInductive == LinkSpec => []AgreementInv
<1>1. LinkInit => AgreementInv
  <2> SUFFICES ASSUME LinkInit PROVE AgreementInv OBVIOUS
  <2>1. /\ up = << >> /\ held = {} /\ iState = "idle" /\ fState = "idle" /\ now = 1
        /\ cNext = 1 /\ iPsk = NoKey /\ iNextNonce = 1 /\ iSwitchAt = 0 /\ fSwitchAt = 0
        /\ setup \in Setup /\ iTmpl.nonce = 0
    BY LinkConstants DEF LinkInit, FInit, IInit, NoTmpl
  <2>2. ~Active BY <2>1 DEF Active
  <2>3. LinkTypeOK BY <2>1, <2>2, EmptySeq DEF LinkTypeOK
  <2>4. LookDelay \in Nat /\ 1 <= 1 + LookDelay
    BY <2>1, LinkConstants DEF LookDelay, Setup, Max2
  <2>5. \A i \in 1..Len(up) : FALSE BY <2>1
  <2> QED BY <2>1, <2>2, <2>3, <2>4, <2>5
          DEF AgreementInv, NoncesSpent, CopiesDated, LookedAtSoon, SwitchAgreement
<1>2. AgreementInv /\ [LinkNext]_linkVars => AgreementInv'
  <2> SUFFICES ASSUME AgreementInv, [LinkNext]_linkVars PROVE AgreementInv' OBVIOUS
  <2>1. CASE Halt \/ UNCHANGED linkVars
    <3>1. /\ UNCHANGED <<now, setup, cNext, iTmpl, iSwitchAt, iNextNonce, up, fState,
                         fCampaign, fSwitchAt, held, iPsk, iState>>
      BY <2>1 DEF Halt, linkVars, iVars, fVars, heldVars
    <3>2. /\ Active' => Active
          /\ held' \in SUBSET held /\ iPsk' \in Keys \cup {NoKey}
      BY <3>1 DEF Active, AgreementInv, LinkTypeOK
    <3> QED BY <3>1, <3>2, GroundSteady
  <2>2. CASE Advance BY <2>2, TimeKeeps
  <2>3. CASE CraftHears BY <2>3, CraftHearsKeeps
  <2>4. CASE \/ CraftHearsTraffic \/ CraftRetune \/ CraftTick \/ CraftVideo
             \/ \E c \in Channels : CraftLocalRetune(c)
    BY <2>4, CraftOtherKeeps
  <2>5. CASE \/ GroundHears \/ GroundQuiet \/ GroundCommit \/ GroundCommitFails \/ GroundAbort
             \/ GroundClose \/ GroundLatch \/ \E c \in Channels : GroundMove(c)
    BY <2>5, GroundQuietKeeps
  <2>6. CASE GroundRelease \/ GroundSendCopy \/ GroundSendBeacon BY <2>6, GroundSendKeeps
  <2>7. CASE \E c \in Channels : GroundClaim(c) \/ GroundCsa(c) BY <2>7, StartKeeps
  <2> QED BY <2>1, <2>2, <2>3, <2>4, <2>5, <2>6, <2>7 DEF LinkNext
<1> QED BY <1>1, <1>2, PTL DEF LinkSpec

\* For every installation, lead time, copy spacing, cutoff of at least a millisecond and
\* every lateness of the loops, on any lossy air: whichever copy arms the craft, first or
\* last, held or restamped, under any TSF, its switch instant is the issuer's own within
\* the bound (csa.cpp stamp_copy, restamp and accept).
THEOREM SwitchAlwaysAgreed == LinkSpec => []SwitchAgreement
<1>1. AgreementInv => SwitchAgreement BY DEF AgreementInv
<1> QED BY <1>1, AgreementInductive, PTL

-----------------------------------------------------------------------------
(* A campaign sticks at neither end *)

VerifySpan == VerifyTimeout * Ms

\* The latest instants of the craft's first tick after its retune, and of the
\* ground's after its own.
CraftLands == fSwitchAt + setup.stall + 1 + RetuneTime
GroundLands == iSwitchAt + 2 * setup.stall + 2 + RetuneTime

ResolveTypeOK ==
  /\ now >= 1 /\ gNext \in Nat /\ iVerifyDeadline \in Nat /\ fVerifyDeadline \in Nat
  /\ iLandingSeen \in BOOLEAN /\ iState \in IStates
  /\ fState \in {"armed", "verify"} => fCampaign \in CsaPacket
  /\ Active => iSwitchAt = iLastCampaign + DtToSwitch * Ms /\ iLastCampaign \in Nat

CraftTimely ==
  /\ fState = "armed" => /\ cNext <= fSwitchAt + setup.stall
                         /\ now <= fSwitchAt + setup.stall
  /\ fState = "verify" /\ fVerifyDeadline = 0 => cNext <= CraftLands /\ now <= CraftLands
  /\ fState = "verify" /\ fVerifyDeadline # 0 =>
       /\ fVerifyDeadline <= CraftLands + VerifySpan
       /\ cNext <= fVerifyDeadline + setup.stall /\ now <= fVerifyDeadline + setup.stall

IssuerTimely ==
  /\ iState = "announce" => gNext <= iSwitchAt + setup.stall /\ now <= iSwitchAt + setup.stall
  /\ iState = "awaitack" => /\ gNext <= iSwitchAt + 2 * setup.stall + 1
                            /\ now <= iSwitchAt + 2 * setup.stall + 1
  /\ iState \in {"announce", "awaitack"} => ~iLandingSeen
  /\ iState = "verify" /\ iVerifyDeadline = 0 => /\ ~iLandingSeen
                                                 /\ gNext <= GroundLands /\ now <= GroundLands
  /\ iState = "verify" /\ iVerifyDeadline # 0 =>
       /\ iVerifyDeadline <= GroundLands + VerifySpan
                                + (IF iLandingSeen THEN setup.stall + VerifySpan ELSE 0)
       /\ gNext <= iVerifyDeadline + setup.stall /\ now <= iVerifyDeadline + setup.stall

ResolveInv == ResolveTypeOK /\ CraftTimely /\ IssuerTimely

\* The durations are naturals.
LEMMA Durations ==
  ASSUME AgreementInv, ResolveInv
  PROVE  /\ setup.stall \in Nat /\ RetuneTime \in Nat /\ VerifySpan \in Nat
         /\ now \in Nat /\ cNext \in Nat /\ gNext \in Nat /\ iSwitchAt \in Nat
         /\ fSwitchAt \in Int /\ fVerifyDeadline \in Nat /\ iVerifyDeadline \in Nat
         /\ now >= 1 /\ RetuneTime <= DtToSwitch * Ms /\ DtToSwitch * Ms \in Nat
<1>1. VerifySpan \in Nat /\ DtToSwitch * Ms \in Nat
  BY MulNat, CsaConstants, IssuerConstants DEF VerifySpan
<1> QED BY <1>1, LinkConstants DEF AgreementInv, ResolveInv, LinkTypeOK, ResolveTypeOK, Setup

\* An iteration of the craft's loop keeps the craft's appointments.
LEMMA CraftTimelyTick ==
  ASSUME AgreementInv, ResolveInv, CraftTick
  PROVE  CraftTimely' /\ fVerifyDeadline' \in Nat
<1> USE Durations
<1>1. /\ UNCHANGED <<now, setup, fSwitchAt>> /\ CraftRuns
      /\ cNext' \in now + 1 .. now + 1 + setup.stall
      /\ CraftLands' = CraftLands /\ VerifySpan' = VerifySpan
  BY DEF CraftTick, FlagAndSend, CraftOnly, FVerify, FRelease, FQuiet, fVars, CraftLands,
         VerifySpan
<1>2. CASE FVerify
  <2>1. /\ fState = "verify"
        /\ fVerifyDeadline' = IF fVerifyDeadline = 0 THEN now + VerifyWindow * Ms
                              ELSE fVerifyDeadline
        /\ fState' = IF now >= fVerifyDeadline' THEN "committed" ELSE "verify"
    BY <1>2 DEF FVerify
  <2> DEFINE w == VerifyWindow * Ms
  <2>2. w \in Nat /\ w <= VerifySpan
    <3>1. VerifyWindow \in Nat /\ VerifyWindow <= VerifyTimeout
      BY <2>1, WindowBounds DEF ResolveInv, ResolveTypeOK
    <3> QED BY <3>1, MulNat, MulMono, CsaConstants DEF VerifySpan
  <2> HIDE DEF w
  <2>3. fVerifyDeadline' = IF fVerifyDeadline = 0 THEN now + w ELSE fVerifyDeadline
    BY <2>1 DEF w
  <2>4. /\ fVerifyDeadline' \in Nat /\ fVerifyDeadline' # 0
        /\ fVerifyDeadline' <= CraftLands + VerifySpan
    <3>1. CASE fVerifyDeadline = 0
      BY <2>1, <2>2, <2>3, <3>1 DEF ResolveInv, CraftTimely, CraftLands
    <3>2. CASE fVerifyDeadline # 0
      BY <2>1, <2>3, <3>2 DEF ResolveInv, CraftTimely
    <3> QED BY <3>1, <3>2
  <2>5. CASE now >= fVerifyDeadline'
    BY <2>1, <2>4, <2>5 DEF CraftTimely
  <2>6. CASE ~(now >= fVerifyDeadline')
    <3>1. /\ cNext' <= fVerifyDeadline' + setup.stall /\ now <= fVerifyDeadline' + setup.stall
      BY <1>1, <2>4, <2>6
    <3> QED BY <1>1, <2>1, <2>4, <2>6, <3>1 DEF CraftTimely
  <2> QED BY <2>5, <2>6
<1>3. CASE FRelease \/ FQuiet
  <2>1. /\ fState # "verify" /\ fState' = fState /\ fVerifyDeadline' = fVerifyDeadline
        /\ fState = "armed" => now < fSwitchAt
    BY <1>3 DEF FRelease, FQuiet, BindingExpired, SwitchDue, fVars
  <2>2. fState = "armed" => /\ cNext' <= fSwitchAt + setup.stall
                            /\ now <= fSwitchAt + setup.stall
    BY <1>1, <2>1
  <2> QED BY <1>1, <2>1, <2>2 DEF CraftTimely
<1> QED BY <1>2, <1>3 DEF CraftTick

\* A copy's switch instant is not in the past.
LEMMA InstantAhead ==
  ASSUME AgreementInv, ResolveInv, up # << >>, NEW e \in Int
  PROVE  now <= SwitchInstant(Head(up).pkt, e)
<1>1. up \in Seq(Heard) /\ Len(up) \in Nat BY LenProperties DEF AgreementInv, LinkTypeOK
<1>2. Head(up) \in Heard BY <1>1, HeadTailProperties
<1>3. Head(up).pkt.dt \in Nat BY <1>2 DEF Heard, CsaPacket
<1>4. Head(up).pkt.dt * Ms \in Nat BY <1>3, MulNat, CsaConstants
<1> DEFINE w == Head(up).pkt.dt * Ms
<1>5. SwitchInstant(Head(up).pkt, e) = now + w - (IF e > w THEN 0 ELSE e)
  BY DEF SwitchInstant
<1> HIDE DEF w
<1>6. w \in Nat /\ now \in Nat BY <1>4, Durations DEF w
<1>7. now <= now + w - (IF e > w THEN 0 ELSE e) BY <1>6
<1> QED BY <1>5, <1>7

\* Every step of the link leaves the craft in time.
LEMMA CraftStaysTimely ==
  ASSUME AgreementInv, AgreementInv', ResolveInv, LinkNext \/ UNCHANGED linkVars
  PROVE  /\ CraftTimely' /\ fVerifyDeadline' \in Nat
         /\ (fState \in {"armed", "verify"} => fCampaign \in CsaPacket)'
<1> USE Durations
<1>1. CASE UNCHANGED <<now, setup, cNext, fVars>>
  <2>1. /\ UNCHANGED <<now, setup, cNext, fState, fSwitchAt, fVerifyDeadline, fCampaign>>
        /\ CraftLands' = CraftLands /\ VerifySpan' = VerifySpan
    BY <1>1 DEF fVars, CraftLands, VerifySpan
  <2> QED BY <2>1 DEF ResolveInv, ResolveTypeOK, CraftTimely
<1>2. CASE Advance
  <2>1. /\ UNCHANGED <<setup, cNext, fState, fSwitchAt, fVerifyDeadline, fCampaign>>
        /\ now' = now + 1 /\ cNext > now
        /\ CraftLands' = CraftLands /\ VerifySpan' = VerifySpan
    BY <1>2 DEF Advance, fVars, CraftLands, VerifySpan
  <2>2. now' <= cNext BY <2>1
  <2>3. CraftTimely'
    <3>1. CASE fState = "armed" BY <2>1, <2>2, <3>1 DEF ResolveInv, CraftTimely
    <3>2. CASE fState = "verify" /\ fVerifyDeadline = 0
      BY <2>1, <2>2, <3>2 DEF ResolveInv, CraftTimely, CraftLands
    <3>3. CASE fState = "verify" /\ fVerifyDeadline # 0
      BY <2>1, <2>2, <3>3 DEF ResolveInv, CraftTimely
    <3>4. CASE fState \notin {"armed", "verify"} BY <2>1, <3>4 DEF CraftTimely
    <3> QED BY <3>1, <3>2, <3>3, <3>4
  <2> QED BY <2>1, <2>3 DEF ResolveInv, ResolveTypeOK
<1>3. CASE CraftHears
  <2>1. PICK r \in setup.tsf :
          FOnCsa(Head(up).pkt, Elapsed(r, Head(up).at, Head(up).pkt.dt))
    BY <1>3 DEF CraftHears
  <2>2. /\ up # << >> /\ cNext <= now /\ UNCHANGED <<now, setup, cNext>>
        /\ VerifySpan' = VerifySpan
    BY <1>3 DEF CraftHears, CraftRuns, CraftOnly, VerifySpan
  <2>3. Head(up) \in Heard
    BY <2>2, HeadTailProperties DEF AgreementInv, LinkTypeOK
  <2> DEFINE p == Head(up).pkt
             e == Elapsed(r, Head(up).at, p.dt)
  <2>4. CASE FAccept(p, e)
    <3>1. /\ fState' = "armed" /\ fCampaign' = p /\ fSwitchAt' = SwitchInstant(p, e)
          /\ fVerifyDeadline' = fVerifyDeadline
      BY <2>4 DEF FAccept
    <3>2. e \in Int
      <4>1. p.dt \in Nat /\ Head(up).at \in Nat BY <2>3 DEF Heard, CsaPacket
      <4>2. p.dt * Ms \in Nat BY <4>1, MulNat, CsaConstants
      <4>3. r \in {"good", "none", "garbage"} BY DEF AgreementInv, LinkTypeOK, Setup
      <4> QED BY <4>1, <4>2, <4>3 DEF Elapsed
    <3>3. now <= fSwitchAt' BY <2>2, <3>1, <3>2, InstantAhead
    <3>4. fSwitchAt' \in Int BY DEF AgreementInv, LinkTypeOK
    <3>5. cNext <= fSwitchAt' + setup.stall /\ now <= fSwitchAt' + setup.stall
      <4>1. setup.stall \in Nat /\ now \in Nat /\ cNext \in Nat BY Durations
      <4>2. cNext <= now BY <2>2
      <4> QED BY <3>3, <3>4, <4>1, <4>2
    <3>6. CraftTimely' BY <2>2, <3>1, <3>5 DEF CraftTimely
    <3> QED BY <2>3, <3>1, <3>6 DEF Heard
  <2>5. CASE FConfirm(p) \/ FRefuse(p)
    <3>1. /\ UNCHANGED <<fSwitchAt, fVerifyDeadline, fCampaign>>
          /\ fState' = fState \/ fState' = "committed"
          /\ CraftLands' = CraftLands
      BY <2>2, <2>5 DEF FConfirm, FRefuse, fVars, CraftLands
    <3> QED BY <2>2, <3>1 DEF ResolveInv, ResolveTypeOK, CraftTimely
  <2> QED BY <2>1, <2>4, <2>5 DEF FOnCsa
<1>4. CASE CraftHearsTraffic
  <2>1. /\ UNCHANGED <<now, setup, cNext, fSwitchAt, fVerifyDeadline, fCampaign>>
        /\ fState' = fState \/ fState' = "committed"
        /\ CraftLands' = CraftLands /\ VerifySpan' = VerifySpan
    BY <1>4 DEF CraftHearsTraffic, CraftOnly, FNoteValidRx, CraftLands, VerifySpan
  <2> QED BY <2>1 DEF ResolveInv, ResolveTypeOK, CraftTimely
<1>5. CASE CraftRetune
  <2>1. /\ fState = "armed" /\ fState' = "verify" /\ fVerifyDeadline' = 0
        /\ UNCHANGED <<now, setup, fSwitchAt, fCampaign>>
        /\ cNext' \in now + 1 .. now + 1 + RetuneTime /\ CraftLands' = CraftLands
    BY <1>5 DEF CraftRetune, FSwitch, SwitchDue, CraftOnly, CraftLands
  <2>2. now <= fSwitchAt + setup.stall BY <2>1 DEF ResolveInv, CraftTimely
  <2>3. cNext' <= CraftLands /\ now <= CraftLands BY <2>1, <2>2 DEF CraftLands
  <2> QED BY <2>1, <2>3 DEF ResolveInv, ResolveTypeOK, CraftTimely
<1>6. CASE CraftTick
  <2>1. fState' \in {"armed", "verify"} => fState = fState' /\ fCampaign' = fCampaign
    BY <1>6 DEF CraftTick, FVerify, FRelease, FQuiet, fVars
  <2> QED BY <1>6, <2>1, CraftTimelyTick DEF ResolveInv, ResolveTypeOK
<1>7. ASSUME NEW c \in Channels, CraftLocalRetune(c)
      PROVE  /\ CraftTimely' /\ fVerifyDeadline' \in Nat
             /\ (fState \in {"armed", "verify"} => fCampaign \in CsaPacket)'
  <2>1. fState' = "idle" /\ fVerifyDeadline' = fVerifyDeadline
    BY <1>7 DEF CraftLocalRetune, FDetach
  <2> QED BY <2>1 DEF CraftTimely
<1>8. \/ UNCHANGED <<now, setup, cNext, fVars>> \/ Advance \/ CraftHears \/ CraftHearsTraffic
      \/ CraftRetune \/ CraftTick \/ \E c \in Channels : CraftLocalRetune(c)
  BY DEF LinkNext, linkVars, Halt, CraftVideo, CraftOnly, GroundHears, GroundRelease,
         GroundSendCopy, GroundSendBeacon, GroundQuiet, GroundCommit, GroundCommitFails,
         GroundAbort, GroundClose, GroundClaim, GroundCsa, GroundMove, GroundLatch, GroundOnly
<1> QED BY <1>1, <1>2, <1>3, <1>4, <1>5, <1>6, <1>7, <1>8

IssuerResolves == /\ IssuerTimely /\ gNext \in Nat /\ iVerifyDeadline \in Nat
                  /\ iLandingSeen \in BOOLEAN /\ iState \in IStates
                  /\ Active => /\ iSwitchAt = iLastCampaign + DtToSwitch * Ms
                               /\ iLastCampaign \in Nat

\* The issuer's clocks are of this campaign.
LEMMA IssuerHas == ResolveInv => IssuerResolves
BY DEF ResolveInv, ResolveTypeOK, IssuerResolves

\* A DATA frame of the craft: its first flag after T_switch re-anchors the deadline.
LEMMA IssuerHears ==
  ASSUME AgreementInv, ResolveInv, GroundHears
  PROVE  IssuerResolves'
<1> USE Durations, IssuerHas
<1> DEFINE flag == Head(down)
<1>1. /\ gNext <= now /\ UNCHANGED <<now, setup, gNext>> /\ INoteCraftFrame(flag)
      /\ VerifySpan' = VerifySpan
  BY DEF GroundHears, GroundRuns, GroundOnly, VerifySpan
<1>2. UNCHANGED <<iState, iLastCampaign, iSwitchAt>> BY <1>1, Zenon DEF INoteCraftFrame
<1>3. GroundLands' = GroundLands BY <1>1, <1>2 DEF GroundLands
<1>a. /\ iLandingSeen' = (iLandingSeen \/ Landing(flag))
      /\ iVerifyDeadline' = IF Landing(flag) THEN now + VerifyTimeout * Ms
                            ELSE iVerifyDeadline
  BY <1>1, Zenon DEF INoteCraftFrame
<1>4. CASE Landing(flag)
  <2>1. iState = "verify" /\ ~iLandingSeen BY <1>4, Zenon DEF Landing
  <2>2. iVerifyDeadline' = now + VerifySpan /\ iLandingSeen' = TRUE
    BY <1>4, <1>a DEF VerifySpan
  <2>3. now <= GroundLands + VerifySpan + setup.stall
    <3>1. CASE iVerifyDeadline = 0
      BY <2>1, <3>1 DEF IssuerResolves, IssuerTimely, GroundLands
    <3>2. CASE iVerifyDeadline # 0
      <4>1. now <= iVerifyDeadline + setup.stall /\ iVerifyDeadline <= GroundLands + VerifySpan
        BY <2>1, <3>2 DEF IssuerResolves, IssuerTimely, GroundLands
      <4> QED BY <4>1 DEF GroundLands
    <3> QED BY <3>1, <3>2
  <2>4. GroundLands \in Nat BY DEF GroundLands
  <2>5. /\ iVerifyDeadline' \in Nat /\ iVerifyDeadline' # 0
        /\ iVerifyDeadline' <= GroundLands + VerifySpan + (setup.stall + VerifySpan)
        /\ gNext <= iVerifyDeadline' + setup.stall /\ now <= iVerifyDeadline' + setup.stall
    BY <1>1, <2>2, <2>3, <2>4
  <2>6. IssuerTimely' BY <1>1, <1>2, <1>3, <2>1, <2>2, <2>5 DEF IssuerTimely
  <2> QED BY <1>1, <1>2, <2>2, <2>5, <2>6 DEF IssuerResolves, Active
<1>5. CASE ~Landing(flag)
  <2>1. iVerifyDeadline' = iVerifyDeadline BY <1>5, <1>a
  <2>2. iLandingSeen' = iLandingSeen BY <1>5, <1>a DEF IssuerResolves
  <2> QED BY <1>1, <1>2, <1>3, <2>1, <2>2 DEF IssuerResolves, IssuerTimely, Active
<1> QED BY <1>4, <1>5

\* A tick that sends or closes the copy window, or does nothing before the deadline.
LEMMA IssuerTicks ==
  ASSUME AgreementInv, ResolveInv, GroundSendCopy \/ GroundSendBeacon \/ GroundQuiet
  PROVE  IssuerResolves'
<1> USE Durations, IssuerHas
<1>1. /\ gNext' \in now + 1 .. now + 1 + setup.stall /\ UNCHANGED <<now, setup>>
      /\ ISendCopy \/ ISendBeacon \/ ICloseWindow \/ IQuiet
      /\ VerifySpan' = VerifySpan
  BY DEF GroundSendCopy, GroundSendBeacon, GroundQuiet, NextIteration, GroundOnly, VerifySpan
<1>2. UNCHANGED <<iLastCampaign, iSwitchAt, iLandingSeen>>
  BY <1>1 DEF ISendCopy, ISendBeacon, ICloseWindow, IQuiet, Stay, iVars
<1>3. GroundLands' = GroundLands /\ GroundLands \in Nat BY <1>1, <1>2 DEF GroundLands
<1>4. gNext' \in Nat /\ gNext' <= now + 1 + setup.stall BY <1>1
<1>5. CASE ISendCopy
  <2>1. /\ iState \in {"announce", "awaitack"} /\ iState' \in {"announce", "awaitack"}
        /\ iVerifyDeadline' = iVerifyDeadline /\ CopyWindowOpen
    BY <1>5 DEF ISendCopy, AnnounceDue, RepeatDue
  <2>2. now < iSwitchAt BY <2>1, IssuerConstants DEF CopyWindowOpen
  <2>3. gNext' <= iSwitchAt + setup.stall /\ now <= iSwitchAt + setup.stall
    BY <1>4, <2>2
  <2>4. /\ gNext' <= iSwitchAt + 2 * setup.stall + 1 /\ now <= iSwitchAt + 2 * setup.stall + 1
    BY <1>4, <2>3
  <2>5. IssuerTimely'
    BY <1>1, <1>2, <2>1, <2>3, <2>4 DEF IssuerResolves, IssuerTimely
  <2> QED BY <1>2, <1>4, <2>1, <2>5 DEF IssuerResolves, Active, IStates
<1>6. CASE ICloseWindow
  <2>1. /\ iState = "announce" /\ iState' = "awaitack" /\ iVerifyDeadline' = iVerifyDeadline
    BY <1>6 DEF ICloseWindow, WindowCloses
  <2>2. now <= iSwitchAt + setup.stall BY <2>1 DEF IssuerResolves, IssuerTimely
  <2>3. /\ gNext' <= iSwitchAt + 2 * setup.stall + 1 /\ now <= iSwitchAt + 2 * setup.stall + 1
    BY <1>4, <2>2
  <2>4. IssuerTimely' BY <1>1, <1>2, <2>1, <2>3 DEF IssuerResolves, IssuerTimely
  <2> QED BY <1>2, <1>4, <2>1, <2>4 DEF IssuerResolves, Active, IStates
<1>7. CASE ISendBeacon
  <2>1. /\ iState = "verify" /\ iState' = "verify" /\ now < Deadline
        /\ iVerifyDeadline' = Deadline
    BY <1>7 DEF ISendBeacon
  <2>2. Deadline = (IF iVerifyDeadline = 0 THEN Max2(now, iSwitchAt) + VerifySpan
                    ELSE iVerifyDeadline)
    BY DEF Deadline, VerifySpan
  <2>3. /\ Deadline \in Nat /\ Deadline # 0
        /\ Deadline <= GroundLands + VerifySpan
                         + (IF iLandingSeen THEN setup.stall + VerifySpan ELSE 0)
    <3>1. CASE iVerifyDeadline = 0
      <4>1. now <= GroundLands /\ ~iLandingSeen
        BY <2>1, <3>1 DEF IssuerResolves, IssuerTimely
      <4>2. iSwitchAt <= GroundLands BY DEF GroundLands
      <4>3. Max2(now, iSwitchAt) \in Nat \ {0} /\ Max2(now, iSwitchAt) <= GroundLands
        BY <4>1, <4>2 DEF Max2
      <4> QED BY <1>3, <2>2, <3>1, <4>1, <4>3
    <3>2. CASE iVerifyDeadline # 0
      BY <2>1, <2>2, <3>2 DEF IssuerResolves, IssuerTimely
    <3> QED BY <3>1, <3>2
  <2>4. gNext' <= Deadline + setup.stall /\ now <= Deadline + setup.stall
    BY <1>4, <2>1, <2>3
  <2>5. IssuerTimely' BY <1>1, <1>2, <1>3, <2>1, <2>3, <2>4 DEF IssuerTimely
  <2> QED BY <1>2, <1>4, <2>1, <2>3, <2>5 DEF IssuerResolves, Active, IStates
<1>8. CASE IQuiet
  <2>1. iState' = iState /\ iVerifyDeadline' = iVerifyDeadline BY <1>8 DEF IQuiet, iVars
  <2>2. CASE iState = "idle"
    BY <1>2, <1>4, <2>1, <2>2 DEF IssuerResolves, IssuerTimely, Active
  <2>3. CASE iState \in {"announce", "awaitack"}
    <3>1. now < iSwitchAt
      BY <1>8, <2>3, IssuerConstants
         DEF IQuiet, AnnounceDue, WindowCloses, CopyWindowOpen, CommitDue, AbortDue
    <3>2. /\ gNext' <= iSwitchAt + setup.stall /\ now <= iSwitchAt + setup.stall
          /\ gNext' <= iSwitchAt + 2 * setup.stall + 1
          /\ now <= iSwitchAt + 2 * setup.stall + 1
      BY <1>4, <3>1
    <3>3. IssuerTimely' BY <1>1, <1>2, <2>1, <2>3, <3>2 DEF IssuerResolves, IssuerTimely
    <3> QED BY <1>2, <1>4, <2>1, <3>3 DEF IssuerResolves, Active
  <2>4. CASE iState = "verify"
    <3>1. now < Deadline /\ now < BeaconAt BY <1>8, <2>4 DEF IQuiet
    <3>2. iVerifyDeadline # 0 /\ Deadline = iVerifyDeadline
      BY <3>1 DEF BeaconAt, Deadline
    <3>3. gNext' <= iVerifyDeadline + setup.stall /\ now <= iVerifyDeadline + setup.stall
      BY <1>4, <3>1, <3>2
    <3>4. IssuerTimely'
      BY <1>1, <1>2, <1>3, <2>1, <2>4, <3>2, <3>3 DEF IssuerResolves, IssuerTimely
    <3> QED BY <1>2, <1>4, <2>1, <3>4 DEF IssuerResolves, Active
  <2> QED BY <2>2, <2>3, <2>4 DEF IssuerResolves, IStates
<1> QED BY <1>1, <1>5, <1>6, <1>7, <1>8

\* The ground's own steps that move or end the campaign, and its start.
LEMMA IssuerMoves ==
  ASSUME AgreementInv, ResolveInv,
         \/ GroundCommit \/ GroundCommitFails \/ GroundAbort \/ GroundClose
         \/ \E c \in Channels : GroundClaim(c) \/ GroundCsa(c) \/ GroundMove(c)
  PROVE  IssuerResolves'
<1> USE Durations, IssuerHas
<1>1. CASE GroundCommit
  <2>1. /\ iState = "awaitack" /\ iState' = "verify" /\ iVerifyDeadline' = 0
        /\ UNCHANGED <<now, setup, iLastCampaign, iSwitchAt, iLandingSeen>>
        /\ gNext' \in now + 1 .. now + 1 + RetuneTime
    BY <1>1 DEF GroundCommit, ICommit, CommitDue, Stay, NextIteration, GroundOnly
  <2>2. now <= iSwitchAt + 2 * setup.stall + 1 /\ ~iLandingSeen
    BY <2>1 DEF IssuerResolves, IssuerTimely
  <2>3. gNext' \in Nat /\ gNext' <= GroundLands /\ now <= GroundLands
    BY <2>1, <2>2 DEF GroundLands
  <2>4. IssuerTimely' BY <2>1, <2>2, <2>3 DEF IssuerTimely, GroundLands
  <2> QED BY <2>1, <2>3, <2>4 DEF IssuerResolves, Active, IStates
<1>2. CASE GroundCommitFails \/ GroundAbort \/ GroundClose
  <2>1. /\ iState' = "idle" /\ now' = now /\ setup' = setup
        /\ gNext' \in now + 1 .. now + 1 + RetuneTime \/ gNext' \in now + 1 .. now + 1 + setup.stall
        /\ UNCHANGED <<iLastCampaign, iSwitchAt, iLandingSeen>>
    BY <1>2 DEF GroundCommitFails, GroundAbort, GroundClose, ICommit, IAbort, ISuccess,
                NextIteration, GroundOnly, Stay
  <2>2. iVerifyDeadline' \in Nat
    <3>1. Max2(now, iSwitchAt) + VerifySpan \in Nat BY DEF Max2
    <3>2. Deadline \in Nat BY <3>1 DEF Deadline, VerifySpan
    <3>3. iVerifyDeadline' \in {0, iVerifyDeadline, Deadline}
      BY <1>2 DEF GroundCommitFails, GroundAbort, GroundClose, ICommit, IAbort, ISuccess
    <3> QED BY <3>2, <3>3
  <2>3. gNext' \in Nat BY <2>1
  <2> QED BY <2>1, <2>2, <2>3 DEF IssuerResolves, IssuerTimely, Active, IStates
<1>3. ASSUME NEW c \in Channels, GroundClaim(c) \/ GroundCsa(c) \/ GroundMove(c)
      PROVE  IssuerResolves'
  <2>1. UNCHANGED <<now, setup>> /\ gNext' \in now .. now + RetuneTime
    BY <1>3 DEF GroundClaim, GroundCsa, GroundMove, HandlerTime, GroundOnly
  <2>2. gNext' \in Nat /\ gNext' <= now + RetuneTime BY <2>1
  <2>3. CASE IStart(Key, Ground, Session, c)
    <3>1. /\ iLastCampaign' = now /\ iSwitchAt' = now + DtToSwitch * Ms /\ iState' = "announce"
          /\ iLandingSeen' = FALSE /\ iVerifyDeadline' = iVerifyDeadline
      BY <2>3 DEF IStart
    <3>2. gNext' <= iSwitchAt' + setup.stall /\ now <= iSwitchAt' + setup.stall
      BY <2>2, <3>1
    <3>3. IssuerTimely' BY <2>1, <3>1, <3>2 DEF IssuerTimely
    <3> QED BY <2>2, <3>1, <3>3 DEF IssuerResolves, IStates
  <2>4. CASE ~IStart(Key, Ground, Session, c)
    <3>1. /\ ~Active /\ UNCHANGED <<iState, iVerifyDeadline, iLandingSeen>>
      BY <1>3, <2>4 DEF GroundClaim, GroundCsa, GroundMove, iVars
    <3> QED BY <2>2, <3>1 DEF IssuerResolves, IssuerTimely, Active
  <2> QED BY <2>3, <2>4
<1> QED BY <1>1, <1>2, <1>3

\* Every step of the link leaves the issuer in time.
LEMMA IssuerStaysTimely ==
  ASSUME AgreementInv, ResolveInv, LinkNext \/ UNCHANGED linkVars
  PROVE  IssuerResolves'
<1> USE Durations, IssuerHas
<1>1. CASE UNCHANGED <<now, setup, gNext, iVars>>
  <2>1. /\ UNCHANGED <<now, setup, gNext, iState, iLastCampaign, iSwitchAt, iLandingSeen,
                       iVerifyDeadline>>
        /\ GroundLands' = GroundLands /\ VerifySpan' = VerifySpan
    BY <1>1 DEF iVars, GroundLands, VerifySpan
  <2> QED BY <2>1 DEF IssuerResolves, IssuerTimely, Active
<1>2. CASE Advance
  <2>1. /\ UNCHANGED <<setup, gNext, iState, iLastCampaign, iSwitchAt, iLandingSeen,
                       iVerifyDeadline>>
        /\ now' = now + 1 /\ gNext > now
        /\ GroundLands' = GroundLands /\ VerifySpan' = VerifySpan
    BY <1>2 DEF Advance, iVars, GroundLands, VerifySpan
  <2>2. now' <= gNext BY <2>1
  <2>3. GroundLands \in Nat BY DEF GroundLands
  <2>4. IssuerTimely'
    <3>1. CASE iState \in {"announce", "awaitack"}
      BY <2>1, <2>2, <3>1 DEF IssuerResolves, IssuerTimely
    <3>2. CASE iState = "verify" /\ iVerifyDeadline = 0
      BY <2>1, <2>2, <2>3, <3>2 DEF IssuerResolves, IssuerTimely
    <3>3. CASE iState = "verify" /\ iVerifyDeadline # 0
      BY <2>1, <2>2, <3>3 DEF IssuerResolves, IssuerTimely
    <3>4. CASE iState = "idle" BY <2>1, <3>4 DEF IssuerTimely
    <3> QED BY <3>1, <3>2, <3>3, <3>4 DEF IssuerResolves, IStates
  <2> QED BY <2>1, <2>4 DEF IssuerResolves, Active
<1>3. \/ UNCHANGED <<now, setup, gNext, iVars>> \/ Advance \/ GroundHears
      \/ GroundSendCopy \/ GroundSendBeacon \/ GroundQuiet
      \/ GroundCommit \/ GroundCommitFails \/ GroundAbort \/ GroundClose
      \/ \E c \in Channels : GroundClaim(c) \/ GroundCsa(c) \/ GroundMove(c)
  BY DEF LinkNext, linkVars, Halt, CraftHears, CraftHearsTraffic, CraftRetune, CraftTick,
         CraftVideo, CraftLocalRetune, CraftOnly, FlagAndSend, GroundRelease, GroundLatch,
         GroundOnly
<1> QED BY <1>1, <1>2, <1>3, IssuerHears, IssuerTicks, IssuerMoves

\* The invariant of the campaign's clocks holds of the link.
LEMMA ResolveInductive == LinkSpec => []ResolveInv
<1>1. LinkInit => ResolveInv
  <2> SUFFICES ASSUME LinkInit PROVE ResolveInv OBVIOUS
  <2>1. /\ now = 1 /\ gNext = 1 /\ iState = "idle" /\ fState = "idle" /\ iVerifyDeadline = 0
        /\ fVerifyDeadline = 0 /\ iLandingSeen = FALSE
    BY DEF LinkInit, FInit, IInit
  <2>2. ~Active BY <2>1 DEF Active
  <2>3. ResolveTypeOK
    <3>1. /\ now >= 1 /\ gNext \in Nat /\ iVerifyDeadline \in Nat /\ fVerifyDeadline \in Nat
          /\ iState \in IStates
      BY <2>1 DEF IStates
    <3>a. iLandingSeen \in BOOLEAN BY <2>1
    <3>2. fState \notin {"armed", "verify"} BY <2>1
    <3> QED BY <2>2, <3>1, <3>2, <3>a DEF ResolveTypeOK
  <2>4. CraftTimely /\ IssuerTimely BY <2>1 DEF CraftTimely, IssuerTimely
  <2> QED BY <2>3, <2>4 DEF ResolveInv
<1>2. AgreementInv /\ AgreementInv' /\ ResolveInv /\ [LinkNext]_linkVars => ResolveInv'
  <2> SUFFICES ASSUME AgreementInv, AgreementInv', ResolveInv, [LinkNext]_linkVars
               PROVE  ResolveInv'
    OBVIOUS
  <2>1. LinkNext \/ UNCHANGED linkVars OBVIOUS
  <2>2. /\ CraftTimely' /\ fVerifyDeadline' \in Nat
        /\ (fState \in {"armed", "verify"} => fCampaign \in CsaPacket)'
    BY <2>1, CraftStaysTimely
  <2>3. IssuerResolves' BY <2>1, IssuerStaysTimely
  <2>4. now' = now \/ now' = now + 1
    BY <2>1 DEF LinkNext, linkVars, Halt, Advance, CraftHears, CraftHearsTraffic, CraftRetune,
                CraftTick, CraftVideo, CraftLocalRetune, CraftOnly, FlagAndSend, GroundHears,
                GroundRelease, GroundSendCopy, GroundSendBeacon, GroundQuiet, GroundCommit,
                GroundCommitFails, GroundAbort, GroundClose, GroundClaim, GroundCsa,
                GroundMove, GroundLatch, GroundOnly
  <2>5. now' >= 1 BY <2>4, Durations
  <2> QED BY <2>2, <2>3, <2>5 DEF ResolveInv, ResolveTypeOK, IssuerResolves
<1> QED BY <1>1, <1>2, AgreementInductive, PTL DEF LinkSpec

\* For every installation, timer and lateness, whatever the other end does and the air
\* loses: the issuer leaves a campaign within CampaignSpan of its start and the craft
\* resolves an armed switch within CraftSpan of its instant (csa.cpp, both ticks).
THEOREM CampaignAlwaysResolves == LinkSpec => []CampaignResolves
<1>1. AgreementInv /\ ResolveInv => CampaignResolves
  <2> SUFFICES ASSUME AgreementInv, ResolveInv PROVE CampaignResolves OBVIOUS
  <2> USE Durations
  <2>1. /\ CampaignSpan = DtToSwitch * Ms + 2 * VerifySpan + RetuneTime + 4 * (setup.stall + 1)
        /\ CraftSpan = VerifySpan + RetuneTime + 3 * (setup.stall + 1)
    BY DEF CampaignSpan, CraftSpan, VerifySpan, Late
  <2>2. ASSUME Active PROVE now <= iLastCampaign + CampaignSpan
    <3>1. /\ iSwitchAt = iLastCampaign + DtToSwitch * Ms /\ iLastCampaign \in Nat
          /\ iState \in {"announce", "awaitack", "verify"}
      BY <2>2 DEF ResolveInv, ResolveTypeOK, Active, IStates
    <3>2. now <= iSwitchAt + 4 * setup.stall + 2 + RetuneTime + 2 * VerifySpan
      <4>1. CASE iState \in {"announce", "awaitack"}
        BY <4>1 DEF ResolveInv, IssuerTimely
      <4>2. CASE iState = "verify" /\ iVerifyDeadline = 0
        BY <4>2 DEF ResolveInv, IssuerTimely, GroundLands
      <4>3. CASE iState = "verify" /\ iVerifyDeadline # 0
        BY <4>3 DEF ResolveInv, IssuerTimely, GroundLands
      <4> QED BY <3>1, <4>1, <4>2, <4>3
    <3> DEFINE lead == DtToSwitch * Ms
    <3> HIDE DEF lead
    <3>3. lead \in Nat /\ iSwitchAt = iLastCampaign + lead BY <3>1 DEF lead
    <3>4. CampaignSpan = lead + 2 * VerifySpan + RetuneTime + 4 * (setup.stall + 1)
      BY <2>1 DEF lead
    <3> QED BY <3>1, <3>2, <3>3, <3>4
  <2>3. ASSUME fState \in {"armed", "verify"} PROVE now <= fSwitchAt + CraftSpan
    <3>1. CASE fState = "armed" BY <2>1, <3>1 DEF ResolveInv, CraftTimely
    <3>2. CASE fState = "verify" /\ fVerifyDeadline = 0
      BY <2>1, <3>2 DEF ResolveInv, CraftTimely, CraftLands
    <3>3. CASE fState = "verify" /\ fVerifyDeadline # 0
      BY <2>1, <3>3 DEF ResolveInv, CraftTimely, CraftLands
    <3> QED BY <2>3, <3>1, <3>2, <3>3
  <2> QED BY <2>2, <2>3 DEF CampaignResolves
<1> QED BY <1>1, AgreementInductive, ResolveInductive, PTL

-----------------------------------------------------------------------------
(* The craft acknowledges before the ground commits *)

Flags == Seq(BOOLEAN)
Answer == fLastApplied[<<Ground, Session>>]

\* A flag of the craft's is on its way.
FlagQueued == TRUE \in {down[i] : i \in 1..Len(down)}

\* The craft is in a campaign, says so, or the ground acts on its saying so.
Answered ==
  \/ fState \in {"armed", "verify"} \/ craftFlag = TRUE \/ FlagQueued
  \/ iState \in {"announce", "awaitack"} /\ iArmedSeen = TRUE
  \/ iState = "verify"

OfGround(p) == p.orig = Ground /\ p.sess = Session /\ p.nonce >= 1

AckTypeOK ==
  /\ down \in Flags /\ iLastCampaign \in Nat
  /\ iArmedSeen \in BOOLEAN /\ craftFlag \in BOOLEAN
  /\ fLastApplied \in [Originators \X Sessions -> Int]
  /\ iTmpl.nonce = iNextNonce - 1 /\ Answer <= iTmpl.nonce
  /\ iNextNonce > 1 => /\ iLastCampaign >= 1
                       /\ iSwitchAt = iLastCampaign + DtToSwitch * Ms
  /\ Active => OfGround(iTmpl)
  /\ \A p \in held : OfGround(p)
  /\ \A i \in 1..Len(up) : OfGround(up[i].pkt)

\* The craft's answer is of the current campaign, and so is every copy on its way.
AckCurrent ==
  /\ Answered => Answer = iTmpl.nonce /\ Answer >= 1
  /\ \A i \in 1..Len(up) : up[i].pkt.dt # 0 => up[i].pkt.nonce = iTmpl.nonce

\* When the craft has gone quiet about a campaign.
CraftQuietBy == CraftLands + VerifySpan + setup.stall
FlagsReadBy == CraftQuietBy + LookDelay + (IF gHandled = TRUE THEN RetuneTime ELSE 0)

AckTimely ==
  ~setup.faults =>
    /\ Answer = iTmpl.nonce /\ Answer >= 1 => fSwitchAt <= iSwitchAt + Lateness
    /\ craftFlag = TRUE /\ fState \notin {"armed", "verify"} => /\ cNext <= now
                                                                /\ now <= CraftQuietBy
    /\ gNext <= now + LookDelay
    /\ FlagQueued => gNext <= FlagsReadBy /\ now <= FlagsReadBy

AckInv == AckTypeOK /\ AckCurrent /\ AckTimely

\* Campaigns far enough apart: a second one only starts when every copy and flag of the
\* one before it has been read.
CampaignsApart ==
  \/ setup.campaigns <= 1
  \/ /\ ~setup.faults
     /\ MinInterval * Ms > DtToSwitch * Ms + Lateness + 2 * setup.stall + 1 + RetuneTime
                              + VerifySpan + LookDelay

\* The bounds are numbers, and a look delay covers any lateness of an iteration.
LEMMA AckDurations ==
  ASSUME AgreementInv, ResolveInv
  PROVE  /\ LookDelay \in Nat /\ RetuneTime + 1 <= LookDelay /\ setup.stall + 1 <= LookDelay
         /\ Lateness \in Nat /\ CraftQuietBy \in Int /\ FlagsReadBy \in Int
         /\ CraftQuietBy + LookDelay <= FlagsReadBy
         /\ now <= CraftQuietBy /\ gNext <= now + LookDelay =>
              gNext <= FlagsReadBy /\ now <= FlagsReadBy
<1> USE Durations
<1>1. LookDelay \in Nat /\ RetuneTime + 1 <= LookDelay /\ setup.stall + 1 <= LookDelay
  BY DEF LookDelay, Max2
<1>2. Lateness \in Nat BY <1>1 DEF Lateness
<1>3. CraftQuietBy \in Int BY DEF CraftQuietBy, CraftLands
<1>4. FlagsReadBy \in Int /\ CraftQuietBy + LookDelay <= FlagsReadBy
  BY <1>1, <1>3 DEF FlagsReadBy
<1>5. now <= CraftQuietBy /\ gNext <= now + LookDelay =>
         gNext <= FlagsReadBy /\ now <= FlagsReadBy
  BY <1>1, <1>3, <1>4
<1> QED BY <1>1, <1>2, <1>3, <1>4, <1>5

\* A craft in a campaign is not past the instant it goes quiet.
LEMMA CraftStillTalks ==
  ASSUME AgreementInv, ResolveInv, fState \in {"armed", "verify"}
  PROVE  now <= CraftQuietBy
<1> USE Durations
<1>1. CASE fState = "armed"
  BY <1>1 DEF ResolveInv, CraftTimely, CraftQuietBy, CraftLands
<1>2. CASE fState = "verify" /\ fVerifyDeadline = 0
  BY <1>2 DEF ResolveInv, CraftTimely, CraftQuietBy, CraftLands
<1>3. CASE fState = "verify" /\ fVerifyDeadline # 0
  BY <1>3 DEF ResolveInv, CraftTimely, CraftQuietBy, CraftLands
<1> QED BY <1>1, <1>2, <1>3

\* A DATA frame puts its own flag in the ground's queue and no other.
LEMMA QueuedFlags ==
  ASSUME down \in Flags, NEW flag \in BOOLEAN, down' = Queued(flag)
  PROVE  /\ down' \in Flags
         /\ FlagQueued' => FlagQueued \/ flag = TRUE
<1>1. CASE down' = down BY <1>1 DEF FlagQueued
<1>2. CASE down' = Append(down, flag)
  <2>1. /\ down' \in Flags /\ Len(down') = Len(down) + 1 /\ Len(down) \in Nat
        /\ \A i \in 1..Len(down) : down'[i] = down[i]
        /\ down'[Len(down) + 1] = flag
    BY <1>2, AppendProperties, LenProperties DEF Flags
  <2>2. \A i \in 1..Len(down') : i \in 1..Len(down) \/ i = Len(down) + 1 BY <2>1
  <2>3. ASSUME NEW i \in 1..Len(down'), down'[i] = TRUE PROVE FlagQueued \/ flag = TRUE
    <3>1. CASE i \in 1..Len(down)
      <4>1. down[i] = TRUE BY <2>1, <2>3, <3>1, Zenon
      <4> QED BY <3>1, <4>1, Zenon DEF FlagQueued
    <3>2. CASE i = Len(down) + 1 BY <2>1, <2>3, <3>2, Zenon
    <3> QED BY <2>2, <3>1, <3>2
  <2>4. FlagQueued' => \E i \in 1..Len(down') : down'[i] = TRUE BY Zenon DEF FlagQueued
  <2> QED BY <2>1, <2>3, <2>4, Zenon
<1> QED BY <1>1, <1>2 DEF Queued

\* The ground takes the oldest flag.
LEMMA TakenFlag ==
  ASSUME down \in Flags, down # << >>, down' = Tail(down)
  PROVE  /\ down' \in Flags /\ Head(down) \in BOOLEAN
         /\ FlagQueued' => FlagQueued
         /\ Head(down) = TRUE => FlagQueued
<1>1. /\ down' \in Flags /\ Len(down) \in Nat \ {0} /\ Len(down') = Len(down) - 1
      /\ Head(down) = down[1] /\ \A i \in 1..Len(down') : down'[i] = down[i + 1]
      /\ Head(down) \in BOOLEAN
  BY HeadTailProperties, EmptySeq, LenProperties DEF Flags
<1>2. \A i \in 1..Len(down') : i + 1 \in 1..Len(down) BY <1>1
<1>3. 1 \in 1..Len(down) BY <1>1
<1>4. Head(down) = TRUE => FlagQueued BY <1>1, <1>3, Zenon DEF FlagQueued
<1>5. FlagQueued' => FlagQueued
  <2> SUFFICES ASSUME FlagQueued' PROVE FlagQueued OBVIOUS
  <2>1. PICK i \in 1..Len(down') : down'[i] = TRUE BY Zenon DEF FlagQueued
  <2>2. i + 1 \in 1..Len(down) BY <1>2
  <2>3. down[i + 1] = TRUE BY <1>1, <2>1, Zenon
  <2> QED BY <2>2, <2>3, Zenon DEF FlagQueued
<1> QED BY <1>1, <1>4, <1>5, Zenon

\* An empty queue holds no flag.
LEMMA NoFlag == ASSUME down = << >> PROVE ~FlagQueued
<1>1. Len(down) = 0 OBVIOUS
<1>2. 1..Len(down) = {} BY <1>1
<1> QED BY <1>2, Zenon DEF FlagQueued

\* The copies of the craft's queue after a transmission.
SentUp ==
  \/ up' = up
  \/ \E p \in CsaPacket :
       /\ up' = Append(up, [pkt |-> p, at |-> now]) /\ OfGround(p)
       /\ p.dt # 0 => p.nonce = iTmpl.nonce

\* What becomes of the ground's clock and of the flags queued at it.
Iterates ==
  \/ UNCHANGED <<gNext, gHandled>>
  \/ down = << >> /\ down' = << >> /\ gNext' <= now + LookDelay
  \/ gNext <= now /\ ~gHandled /\ gHandled' = TRUE /\ gNext' <= now + RetuneTime

\* A copy the ground sent enters the craft's queue as one of the current campaign.
LEMMA SentUpKeeps ==
  ASSUME AgreementInv, AckInv, SentUp, UNCHANGED iTmpl
  PROVE  /\ \A i \in 1..Len(up') : OfGround(up'[i].pkt)
         /\ \A i \in 1..Len(up') : up'[i].pkt.dt # 0 => up'[i].pkt.nonce = iTmpl'.nonce
<1>1. CASE up' = up BY <1>1 DEF AckInv, AckTypeOK, AckCurrent
<1>2. ASSUME NEW p \in CsaPacket, up' = Append(up, [pkt |-> p, at |-> now]), OfGround(p),
             p.dt # 0 => p.nonce = iTmpl.nonce
      PROVE  /\ \A i \in 1..Len(up') : OfGround(up'[i].pkt)
             /\ \A i \in 1..Len(up') : up'[i].pkt.dt # 0 => up'[i].pkt.nonce = iTmpl'.nonce
  <2> DEFINE f == [pkt |-> p, at |-> now]
  <2>1. up \in Seq(Heard) /\ f \in Heard BY DEF AgreementInv, LinkTypeOK, Heard
  <2>2. f.pkt = p OBVIOUS
  <2> HIDE DEF f
  <2>3. /\ Len(up') = Len(up) + 1 /\ Len(up) \in Nat
        /\ \A i \in 1..Len(up) : up'[i] = up[i]
        /\ up'[Len(up) + 1] = f
    BY <1>2, <2>1, AppendProperties, LenProperties DEF f
  <2>4. \A i \in 1..Len(up') : i \in 1..Len(up) \/ i = Len(up) + 1 BY <2>3
  <2> QED BY <1>2, <2>2, <2>3, <2>4 DEF AckInv, AckTypeOK, AckCurrent
<1> QED BY <1>1, <1>2 DEF SentUp

\* The ground's steps that start no campaign.
LEMMA GroundAck ==
  ASSUME AgreementInv, ResolveInv, AckInv,
         UNCHANGED <<now, setup, cNext, craftFlag, fState, fSwitchAt, fLastApplied, iTmpl,
                     iNextNonce, iSwitchAt, iLastCampaign>>,
         gNext' \in Nat, iArmedSeen' \in BOOLEAN, down' \in Flags,
         FlagQueued' => FlagQueued, Answered' => Answered, Active' => Active,
         \A p \in held' : OfGround(p), SentUp, Iterates
  PROVE  AckInv'
<1> USE Durations, AckDurations
<1>1. /\ Answer' = Answer /\ LookDelay' = LookDelay /\ Lateness' = Lateness
      /\ CraftQuietBy' = CraftQuietBy
  BY DEF Answer, LookDelay, Lateness, CraftQuietBy, CraftLands, VerifySpan, ShortestDt
<1>2. /\ \A i \in 1..Len(up') : OfGround(up'[i].pkt)
      /\ \A i \in 1..Len(up') : up'[i].pkt.dt # 0 => up'[i].pkt.nonce = iTmpl'.nonce
  BY SentUpKeeps
<1>3. AckTypeOK'
  <2>1. /\ iTmpl'.nonce = iNextNonce' - 1 /\ Answer' <= iTmpl'.nonce
        /\ iNextNonce' > 1 => /\ iLastCampaign' >= 1
                              /\ iSwitchAt' = iLastCampaign' + DtToSwitch * Ms
        /\ iLastCampaign' \in Nat
        /\ fLastApplied' \in [Originators \X Sessions -> Int]
    BY <1>1 DEF AckInv, AckTypeOK
  <2>2. Active' => OfGround(iTmpl)' BY DEF AckInv, AckTypeOK, OfGround
  <2>3. craftFlag' \in BOOLEAN BY Zenon DEF AckInv, AckTypeOK
  <2>4. (\A p \in held : OfGround(p))' BY DEF OfGround
  <2>5. (\A i \in 1..Len(up) : OfGround(up[i].pkt))' BY <1>2 DEF OfGround
  <2> QED BY <2>1, <2>2, <2>3, <2>4, <2>5, Zenon DEF AckTypeOK
<1>4. AckCurrent'
  <2>1. Answered' => Answer' = iTmpl'.nonce /\ Answer' >= 1
    BY <1>1 DEF AckInv, AckCurrent
  <2> QED BY <1>2, <2>1 DEF AckCurrent
<1>5. ASSUME ~setup.faults
      PROVE  /\ gNext' <= now + LookDelay
             /\ FlagQueued' => gNext' <= FlagsReadBy' /\ now <= FlagsReadBy'
  <2>1. /\ gNext <= now + LookDelay
        /\ FlagQueued => gNext <= FlagsReadBy /\ now <= FlagsReadBy
    BY <1>5 DEF AckInv, AckTimely
  <2>a. gNext <= now + LookDelay BY <2>1
  <2>b. ASSUME FlagQueued' PROVE gNext <= FlagsReadBy /\ now <= FlagsReadBy
    BY <2>1, <2>b, Zenon
  <2>2. CASE UNCHANGED <<gNext, gHandled>>
    <3>1. FlagsReadBy' = FlagsReadBy BY <1>1, <2>2 DEF FlagsReadBy
    <3>2. gNext' <= now + LookDelay BY <2>a, <2>2
    <3>3. ASSUME FlagQueued' PROVE gNext' <= FlagsReadBy' /\ now <= FlagsReadBy'
      BY <2>b, <2>2, <3>1, <3>3
    <3> QED BY <3>2, <3>3
  <2>3. CASE down = << >> /\ down' = << >> /\ gNext' <= now + LookDelay
    BY <2>3, NoFlag
  <2>4. CASE /\ FlagsReadBy = CraftQuietBy + LookDelay
             /\ FlagsReadBy' = CraftQuietBy + LookDelay + RetuneTime
             /\ gNext' <= now + RetuneTime
    <3>1. gNext' <= now + LookDelay BY <2>4
    <3>2. ASSUME FlagQueued' PROVE gNext' <= FlagsReadBy' /\ now <= FlagsReadBy'
      BY <2>b, <2>4, <3>2
    <3> QED BY <3>1, <3>2
  <2>5. \/ UNCHANGED <<gNext, gHandled>>
        \/ down = << >> /\ down' = << >> /\ gNext' <= now + LookDelay
        \/ /\ (IF gHandled = TRUE THEN RetuneTime ELSE 0) = 0
           /\ (IF gHandled' = TRUE THEN RetuneTime ELSE 0) = RetuneTime
           /\ gNext' <= now + RetuneTime
    BY Zenon DEF Iterates
  <2>6. CraftQuietBy + LookDelay + 0 = CraftQuietBy + LookDelay OBVIOUS
  <2>7. ASSUME (IF gHandled = TRUE THEN RetuneTime ELSE 0) = 0,
               (IF gHandled' = TRUE THEN RetuneTime ELSE 0) = RetuneTime
        PROVE  /\ FlagsReadBy = CraftQuietBy + LookDelay
               /\ FlagsReadBy' = CraftQuietBy + LookDelay + RetuneTime
    BY <1>1, <2>6, <2>7, Zenon DEF FlagsReadBy
  <2> QED BY <2>2, <2>3, <2>4, <2>5, <2>7, Zenon
<1>6. AckTimely' BY <1>1, <1>5 DEF AckInv, AckTimely
<1> QED BY <1>3, <1>4, <1>6 DEF AckInv

\* A transmission of the current campaign's, as the craft's queue sees it.
LEMMA TransmitSends ==
  ASSUME NEW p \in CsaPacket, Transmit(p), OfGround(p), p.dt # 0 => p.nonce = iTmpl.nonce
  PROVE  SentUp
BY DEF Transmit, SentUp

\* The ground's next iteration is no later than its look delay.
LEMMA TicksIterate ==
  ASSUME AgreementInv, ResolveInv, NEW late, late = setup.stall \/ late = RetuneTime,
         NextIteration(late)
  PROVE  gNext' \in Nat /\ gNext' <= now + LookDelay
<1> USE Durations, AckDurations
<1>1. gNext' \in now + 1 .. now + 1 + late BY DEF NextIteration
<1>2. late \in Nat /\ late + 1 <= LookDelay
  <2>1. CASE late = setup.stall BY <2>1
  <2>2. CASE late = RetuneTime BY <2>2
  <2> QED BY <2>1, <2>2
<1>3. gNext' \in Int /\ now + 1 <= gNext' /\ gNext' <= now + 1 + late BY <1>1, <1>2
<1>4. gNext' \in Nat /\ gNext' <= now + LookDelay BY <1>2, <1>3
<1> QED BY <1>4

\* The ground hears a DATA frame.
LEMMA HearsAck ==
  ASSUME AgreementInv, ResolveInv, AckInv, GroundHears
  PROVE  AckInv'
<1>1. /\ UNCHANGED <<now, setup, cNext, craftFlag, fState, fSwitchAt, fLastApplied, held, up,
                     gNext, gHandled>>
      /\ INoteCraftFrame(Head(down)) /\ down # << >> /\ down' = Tail(down)
  BY DEF GroundHears, GroundOnly, fVars, heldVars
<1>2. UNCHANGED <<iState, iNextNonce, iTmpl, iSwitchAt, iLastCampaign>>
  BY <1>1, Zenon DEF INoteCraftFrame
<1>3. down \in Flags /\ iArmedSeen \in BOOLEAN BY Zenon DEF AckInv, AckTypeOK
<1>4. /\ down' \in Flags /\ Head(down) \in BOOLEAN /\ (FlagQueued' => FlagQueued)
      /\ (Head(down) = TRUE => FlagQueued)
  BY <1>1, <1>3, TakenFlag, Zenon
<1>5. iArmedSeen' = (iArmedSeen \/ (Head(down) /\ iState \in {"announce", "awaitack"}))
  BY <1>1, Zenon DEF INoteCraftFrame
<1>6. iArmedSeen' \in BOOLEAN BY <1>5, Zenon
<1>7. iArmedSeen' = TRUE => iArmedSeen = TRUE \/ FlagQueued BY <1>3, <1>4, <1>5, Zenon
<1>8. Answered' => Answered BY <1>1, <1>2, <1>4, <1>7, Zenon DEF Answered
<1>9. Active' => Active BY <1>2 DEF Active
<1>10. \A p \in held' : OfGround(p) BY <1>1 DEF AckInv, AckTypeOK
<1>11. SentUp BY <1>1 DEF SentUp
<1>12. Iterates BY <1>1 DEF Iterates
<1>13. gNext' \in Nat BY <1>1, Durations
<1> QED BY <1>1, <1>2, <1>4, <1>6, <1>8, <1>9, <1>10, <1>11, <1>12, <1>13, GroundAck, Zenon

\* The steps of the ground that leave its queue of flags alone and start no campaign.
LEMMA GroundOtherAck ==
  ASSUME AgreementInv, ResolveInv, AckInv,
         UNCHANGED <<now, setup, cNext, craftFlag, fState, fSwitchAt, fLastApplied, down,
                     iTmpl, iNextNonce, iSwitchAt, iLastCampaign, iArmedSeen>>,
         gNext' \in Nat, SentUp, Iterates,
         iState' # iState =>
            \/ iState' = "idle"
            \/ iState = "announce" /\ iState' = "awaitack"
            \/ iState = "awaitack" /\ iState' = "verify" /\ iArmedSeen = TRUE,
         \A p \in held' : OfGround(p)
  PROVE  AckInv'
<1>1. down \in Flags /\ iArmedSeen \in BOOLEAN BY Zenon DEF AckInv, AckTypeOK
<1>2. down' \in Flags /\ iArmedSeen' \in BOOLEAN BY <1>1, Zenon
<1>3. FlagQueued' => FlagQueued BY DEF FlagQueued
<1>4. Active' => Active
  BY DEF Active
<1>5. Answered' => Answered
  <2>1. CASE iState' = iState BY <1>3, <2>1, Zenon DEF Answered
  <2>2. CASE iState' = "idle" BY <1>3, <2>2, Zenon DEF Answered
  <2>3. CASE iState = "announce" /\ iState' = "awaitack" BY <1>3, <2>3, Zenon DEF Answered
  <2>4. CASE iState = "awaitack" /\ iState' = "verify" /\ iArmedSeen = TRUE
    BY <2>4, Zenon DEF Answered
  <2> QED BY <2>1, <2>2, <2>3, <2>4, Zenon
<1> QED BY <1>2, <1>3, <1>4, <1>5, GroundAck, Zenon

\* The ground sends the held copy, a copy or a beacon: all of the current campaign.
LEMMA SendsAck ==
  ASSUME AgreementInv, ResolveInv, AckInv,
         GroundRelease \/ GroundSendCopy \/ GroundSendBeacon
  PROVE  AckInv'
<1>1. UNCHANGED <<now, setup, cNext, craftFlag, fState, fSwitchAt, fLastApplied, down,
                  iTmpl, iNextNonce, iSwitchAt, iLastCampaign, iArmedSeen>>
  BY DEF GroundRelease, GroundSendCopy, GroundSendBeacon, GroundOnly, fVars, iVars, ISendCopy,
         ISendBeacon, Stay
<1>h. \A p \in held : OfGround(p) BY DEF AckInv, AckTypeOK
<1>2. CASE GroundRelease
  <2>1. UNCHANGED <<gNext, gHandled, iState>> /\ held' = {} BY <1>2 DEF GroundRelease, iVars
  <2>2. SentUp
    <3>1. PICK p \in held : IF CanRestamp(p) THEN Transmit(RestampCopy(p))
                            ELSE UNCHANGED <<up, losses>>
      BY <1>2 DEF GroundRelease
    <3>2. CASE CanRestamp(p)
      <4>1. /\ p \in CsaPacket /\ OfGround(p) /\ CopyWindowOpen /\ p.nonce = iTmpl.nonce
            /\ Transmit(StampCopy(p))
        BY <1>h, <3>1, <3>2 DEF AgreementInv, LinkTypeOK, CanRestamp, RestampCopy
      <4>2. StampCopy(p) \in CsaPacket /\ StampCopy(p).nonce = iTmpl.nonce
        BY <4>1, StampDates DEF AgreementInv
      <4>3. OfGround(StampCopy(p)) BY <4>1 DEF OfGround, StampCopy, CsaPacket
      <4> QED BY <4>1, <4>2, <4>3, TransmitSends
    <3>3. CASE ~CanRestamp(p) BY <3>1, <3>3 DEF SentUp
    <3> QED BY <3>2, <3>3
  <2>3. Iterates BY <2>1 DEF Iterates
  <2>4. gNext' \in Nat BY <2>1, Durations
  <2> QED BY <1>1, <2>1, <2>2, <2>3, <2>4, GroundOtherAck, Zenon
<1>3. CASE GroundSendCopy
  <2>1. /\ NextIteration(setup.stall) /\ down = << >> /\ ISendCopy
        /\ iState \in {"announce", "awaitack"}
        /\ iState' \in {iState, "awaitack"} /\ CopyWindowOpen /\ Active
    BY <1>3 DEF GroundSendCopy, GroundReady, ISendCopy, AnnounceDue, RepeatDue, Active
  <2>2. gNext' \in Nat /\ gNext' <= now + LookDelay BY <2>1, TicksIterate
  <2>3. Iterates BY <1>1, <2>1, <2>2 DEF Iterates
  <2>4. iTmpl \in CsaPacket /\ OfGround(iTmpl)
    BY <2>1 DEF AgreementInv, LinkTypeOK, AckInv, AckTypeOK
  <2>5. StampCopy(iTmpl) \in CsaPacket /\ StampCopy(iTmpl).nonce = iTmpl.nonce
    BY <2>1, <2>4, StampDates DEF AgreementInv
  <2>6. OfGround(StampCopy(iTmpl)) BY <2>4 DEF OfGround, StampCopy, CsaPacket
  <2>7. SentUp /\ held' \in SUBSET (held \cup {StampCopy(iTmpl)})
    <3>1. \/ up' = up /\ held' = {StampCopy(iTmpl)}
          \/ Transmit(StampCopy(iTmpl)) /\ held' = held
      BY <1>3 DEF GroundSendCopy, heldVars
    <3>2. CASE up' = up /\ held' = {StampCopy(iTmpl)} BY <3>2 DEF SentUp
    <3>3. CASE Transmit(StampCopy(iTmpl)) /\ held' = held
      BY <2>5, <2>6, <3>3, TransmitSends
    <3> QED BY <3>1, <3>2, <3>3
  <2>8. \A p \in held' : OfGround(p) BY <1>h, <2>6, <2>7
  <2> QED BY <1>1, <2>1, <2>2, <2>3, <2>7, <2>8, GroundOtherAck, Zenon
<1>4. CASE GroundSendBeacon
  <2>1. /\ NextIteration(setup.stall) /\ down = << >> /\ iState' = iState /\ held' = held
        /\ Active /\ Transmit(Beacon)
    BY <1>4 DEF GroundSendBeacon, GroundReady, ISendBeacon, Active, heldVars
  <2>2. gNext' \in Nat /\ gNext' <= now + LookDelay BY <2>1, TicksIterate
  <2>3. Iterates BY <1>1, <2>1, <2>2 DEF Iterates
  <2>4. iTmpl \in CsaPacket /\ OfGround(iTmpl)
    BY <2>1 DEF AgreementInv, LinkTypeOK, AckInv, AckTypeOK
  <2>5. Beacon \in CsaPacket /\ Beacon.dt = 0 /\ OfGround(Beacon)
    BY <2>4 DEF Beacon, CsaPacket, OfGround, AgreementInv, LinkTypeOK
  <2>6. SentUp BY <2>1, <2>5, TransmitSends
  <2> QED BY <1>1, <1>h, <2>1, <2>2, <2>3, <2>6, GroundOtherAck, Zenon
<1> QED BY <1>2, <1>3, <1>4

\* The ground's ticks that send nothing, and what it does between ticks.
LEMMA TicksAck ==
  ASSUME AgreementInv, ResolveInv, AckInv,
         \/ GroundQuiet \/ GroundCommit \/ GroundCommitFails \/ GroundAbort \/ GroundClose
         \/ GroundLatch
  PROVE  AckInv'
<1>1. UNCHANGED <<now, setup, cNext, craftFlag, fState, fSwitchAt, fLastApplied, down, up, held,
                  iTmpl, iNextNonce, iSwitchAt, iLastCampaign, iArmedSeen>>
  BY DEF GroundQuiet, GroundCommit, GroundCommitFails, GroundAbort, GroundClose, GroundLatch,
         GroundOnly, fVars, iVars, heldVars, ICloseWindow, IQuiet, ICommit, IAbort, ISuccess, Stay
<1>2. \A p \in held' : OfGround(p) BY <1>1 DEF AckInv, AckTypeOK
<1>3. SentUp BY <1>1 DEF SentUp
<1>4. gNext' \in Nat /\ Iterates
  <2>1. CASE GroundLatch
    <3>1. UNCHANGED <<gNext, gHandled>> BY <2>1 DEF GroundLatch
    <3> QED BY <3>1, Durations DEF Iterates
  <2>2. CASE ~GroundLatch
    <3>1. down = << >> /\ (NextIteration(setup.stall) \/ NextIteration(RetuneTime))
      BY <2>2 DEF GroundQuiet, GroundCommit, GroundCommitFails, GroundAbort, GroundClose,
                  GroundReady
    <3>2. gNext' \in Nat /\ gNext' <= now + LookDelay BY <3>1, TicksIterate
    <3> QED BY <1>1, <3>1, <3>2 DEF Iterates
  <2> QED BY <2>1, <2>2
<1>5. iState' # iState =>
         \/ iState' = "idle"
         \/ iState = "announce" /\ iState' = "awaitack"
         \/ iState = "awaitack" /\ iState' = "verify" /\ iArmedSeen = TRUE
  <2>0. iArmedSeen \in BOOLEAN BY Zenon DEF AckInv, AckTypeOK
  <2>1. CASE GroundCommit
    <3>1. iState = "awaitack" /\ iState' = "verify" /\ iArmedSeen
      BY <2>1, Zenon DEF GroundCommit, ICommit, CommitDue
    <3> QED BY <2>0, <3>1, Zenon
  <2>2. CASE ~GroundCommit
    <3>1. \/ iState' = iState \/ iState' = "idle"
          \/ iState = "announce" /\ iState' = "awaitack"
      BY <2>2 DEF GroundQuiet, GroundCommitFails, GroundAbort, GroundClose, GroundLatch,
                  iVars, ICloseWindow, WindowCloses, IQuiet, ICommit, IAbort, ISuccess
    <3> QED BY <3>1
  <2> QED BY <2>1, <2>2, Zenon
<1> QED BY <1>1, <1>2, <1>3, <1>4, <1>5, GroundOtherAck, Zenon

\* The operator's requests that start no campaign.
LEMMA RequestsAck ==
  ASSUME AgreementInv, ResolveInv, AckInv, NEW c \in Channels,
         GroundMove(c) \/ (GroundClaim(c) /\ ~IStart(Key, Ground, Session, c))
  PROVE  AckInv'
<1>1. /\ UNCHANGED <<now, setup, cNext, craftFlag, fState, fSwitchAt, fLastApplied, down, up,
                     held, iTmpl, iNextNonce, iSwitchAt, iLastCampaign, iArmedSeen, iState>>
      /\ Serves /\ HandlerTime(RetuneTime)
  BY DEF GroundMove, GroundClaim, GroundOnly, fVars, iVars, heldVars
<1>2. \A p \in held' : OfGround(p) BY <1>1 DEF AckInv, AckTypeOK
<1>3. SentUp BY <1>1 DEF SentUp
<1>4. gNext' \in now .. now + RetuneTime /\ gHandled' = TRUE /\ gNext <= now /\ ~gHandled
  BY <1>1, Zenon DEF HandlerTime, Serves, GroundRuns
<1>5. gNext' \in Nat /\ gNext' <= now + RetuneTime
  <2>1. gNext' \in now .. now + RetuneTime BY <1>4, Zenon
  <2> QED BY <2>1, Durations
<1>6. Iterates BY <1>4, <1>5, Zenon DEF Iterates
<1> QED BY <1>1, <1>2, <1>3, <1>5, <1>6, GroundOtherAck, Zenon

\* When a campaign starts, the craft has finished with the one before it: it neither is
\* in it nor says so, and no flag or copy of it is on its way.
LEMMA StartsClean ==
  ASSUME AgreementInv, ResolveInv, AckInv, CampaignsApart, GroundRuns, gHandled # TRUE,
         MayStart, ~Active, iLastCampaign = 0 \/ now - iLastCampaign >= MinInterval * Ms
  PROVE  ~Answered /\ \A i \in 1..Len(up) : up[i].pkt.dt = 0
<1> USE Durations, AckDurations
<1>0. /\ iNextNonce \in Nat \ {0} /\ iTmpl.nonce = iNextNonce - 1 /\ Answer <= iTmpl.nonce
      /\ Answer \in Int /\ iLastCampaign \in Nat /\ MinInterval * Ms \in Nat
  <2>1. Answer \in Int BY LinkConstants DEF AckInv, AckTypeOK, Answer
  <2>2. MinInterval * Ms \in Nat BY MulNat, CsaConstants
  <2> QED BY <2>1, <2>2 DEF AgreementInv, LinkTypeOK, AckInv, AckTypeOK
<1>t. \A i \in 1..Len(up) : /\ up[i].pkt.nonce \in Nat /\ up[i].pkt.dt \in Nat
                            /\ up[i].at \in Nat
  <2>1. \A i \in 1..Len(up) : up[i] \in Heard BY ElementOfSeq DEF AgreementInv, LinkTypeOK
  <2> QED BY <2>1 DEF Heard, CsaPacket
<1>1. CASE iNextNonce = 1
  <2>1. ~(Answer >= 1) BY <1>0, <1>1
  <2>2. ~Answered BY <2>1 DEF AckInv, AckCurrent
  <2>a. \A n \in Nat : ~(n >= 1 /\ n < iNextNonce) BY <1>1
  <2>3. ASSUME NEW i \in 1..Len(up) PROVE FALSE
    <3>1. up[i].pkt.nonce >= 1 /\ up[i].pkt.nonce < iNextNonce
      BY DEF AckInv, AckTypeOK, OfGround, AgreementInv, NoncesSpent
    <3>2. up[i].pkt.nonce \in Nat BY <1>t
    <3> QED BY <2>a, <3>1, <3>2, Zenon
  <2> QED BY <2>2, <2>3
<1>2. CASE iNextNonce # 1
  <2> DEFINE lead == DtToSwitch * Ms
             gap == MinInterval * Ms
  <2>1. /\ iLastCampaign >= 1 /\ iSwitchAt = iLastCampaign + lead
        /\ now - iLastCampaign >= gap
    <3>1. iNextNonce > 1 BY <1>0, <1>2
    <3>2. iLastCampaign >= 1 /\ iSwitchAt = iLastCampaign + lead
      BY <3>1, Zenon DEF AckInv, AckTypeOK
    <3>3. iLastCampaign # 0 BY <1>0, <3>2
    <3> QED BY <3>2, <3>3
  <2>2. /\ ~setup.faults
        /\ gap > lead + Lateness + 2 * setup.stall + 1 + RetuneTime + VerifySpan + LookDelay
    <3>1. setup.campaigns \in Nat /\ iNextNonce <= setup.campaigns
      BY DEF AgreementInv, LinkTypeOK, Setup, MayStart
    <3>2. ~(setup.campaigns <= 1) BY <1>0, <1>2, <3>1
    <3> QED BY <3>2 DEF CampaignsApart
  <2>3. lead \in Nat /\ gap \in Nat BY <1>0
  <2> HIDE DEF lead, gap
  <2>4. now > iSwitchAt + Lateness + 2 * setup.stall + 1 + RetuneTime + VerifySpan + LookDelay
    BY <1>0, <2>1, <2>2, <2>3
  <2>5. ASSUME Answered PROVE FALSE
    <3>1. fSwitchAt <= iSwitchAt + Lateness
      BY <2>2, <2>5 DEF AckInv, AckCurrent, AckTimely
    <3>2. CraftQuietBy = fSwitchAt + 2 * setup.stall + 1 + RetuneTime + VerifySpan
      BY DEF CraftQuietBy, CraftLands
    <3>3. CraftQuietBy + LookDelay < now BY <2>4, <3>1, <3>2
    <3>4. FlagsReadBy = CraftQuietBy + LookDelay
      <4>1. (IF gHandled = TRUE THEN RetuneTime ELSE 0) = 0 BY Zenon
      <4> QED BY <4>1 DEF FlagsReadBy
    <3>5. ~(now <= CraftQuietBy) /\ ~(now <= FlagsReadBy) BY <3>3, <3>4
    <3>6. fState \notin {"armed", "verify"} BY <3>5, CraftStillTalks
    <3>7. ~(craftFlag = TRUE) BY <2>2, <3>5, <3>6, Zenon DEF AckInv, AckTimely
    <3>8. ~FlagQueued BY <2>2, <3>5, Zenon DEF AckInv, AckTimely
    <3>9. iState = "idle" BY DEF Active
    <3> QED BY <2>5, <3>6, <3>7, <3>8, <3>9 DEF Answered
  <2>a. \A at, w \in Nat : ~(at + w <= iSwitchAt /\ now <= at + LookDelay) BY <2>4
  <2>6. ASSUME NEW i \in 1..Len(up), up[i].pkt.dt # 0 PROVE FALSE
    <3> DEFINE w == up[i].pkt.dt * Ms
    <3>1. w \in Nat BY <1>t, MulNat, CsaConstants
    <3>2. up[i].pkt.nonce = iTmpl.nonce BY <2>6 DEF AckInv, AckCurrent
    <3>3. up[i].at + w <= iSwitchAt
      BY <2>6, <3>2 DEF AgreementInv, CopiesDated, DatedCopy
    <3>4. now <= up[i].at + LookDelay BY <2>2 DEF AgreementInv, LookedAtSoon
    <3>5. up[i].at \in Nat BY <1>t
    <3> QED BY <2>a, <3>1, <3>3, <3>4, <3>5, Zenon
  <2> QED BY <2>5, <2>6
<1> QED BY <1>1, <1>2

\* A campaign starts with a nonce the craft has not answered.
LEMMA StartAck ==
  ASSUME AgreementInv, ResolveInv, AckInv, CampaignsApart, NEW c \in Channels,
         GroundClaim(c) \/ GroundCsa(c), IStart(Key, Ground, Session, c)
  PROVE  AckInv'
<1> USE Durations, AckDurations
<1>1. /\ UNCHANGED <<now, setup, cNext, craftFlag, fState, fSwitchAt, fLastApplied, down, up,
                     held>>
      /\ gHandled' = TRUE
  BY DEF GroundClaim, GroundCsa, HandlerTime, GroundOnly, fVars, heldVars
<1>2. /\ iState' = "announce" /\ iNextNonce' = iNextNonce + 1 /\ iLastCampaign' = now
      /\ iTmpl' = [orig |-> Ground, sess |-> Session, nonce |-> iNextNonce,
                   target |-> c, dt |-> 0, tRevert |-> VerifyTimeout % 65536, mac |-> Key]
      /\ iSwitchAt' = now + DtToSwitch * Ms
  BY DEF IStart
<1>a. iArmedSeen' = FALSE BY DEF IStart
<1>3. gNext' \in Nat /\ gNext' <= now + LookDelay
  <2>1. gNext' \in now .. now + RetuneTime
    BY DEF GroundClaim, GroundCsa, HandlerTime
  <2> QED BY <2>1
<1>4. ~Answered /\ \A i \in 1..Len(up) : up[i].pkt.dt = 0
  <2>1. GroundRuns /\ gHandled # TRUE BY Zenon DEF GroundClaim, GroundCsa, Serves
  <2>2. MayStart
    <3>1. CASE GroundCsa(c) BY <3>1 DEF GroundCsa
    <3>2. CASE GroundClaim(c) BY <3>2 DEF GroundClaim, IStart
    <3> QED BY <3>1, <3>2
  <2>3. ~Active /\ (iLastCampaign = 0 \/ now - iLastCampaign >= MinInterval * Ms)
    BY DEF IStart, CanStart
  <2> QED BY <2>1, <2>2, <2>3, StartsClean
<1>5. /\ fState \notin {"armed", "verify"} /\ ~(craftFlag = TRUE) /\ ~FlagQueued
  BY <1>4, Zenon DEF Answered
<1>6. FlagQueued' = FlagQueued /\ Answer' = Answer BY <1>1 DEF FlagQueued, Answer
<1>7. ~Answered'
  <2>1. ~(iArmedSeen' = TRUE) BY <1>a, Zenon
  <2>2. fState' \notin {"armed", "verify"} /\ iState' # "verify" BY <1>1, <1>2, <1>5
  <2>3. ~(craftFlag' = TRUE) /\ ~FlagQueued' BY <1>1, <1>5, <1>6, Zenon
  <2> QED BY <2>1, <2>2, <2>3, Zenon DEF Answered
<1>8. iNextNonce \in Nat \ {0} /\ iTmpl'.nonce = iNextNonce BY <1>2 DEF AgreementInv, LinkTypeOK
<1>9. Answer' <= iTmpl'.nonce /\ Answer' # iTmpl'.nonce
  <2>1. Answer \in Int BY LinkConstants DEF AckInv, AckTypeOK, Answer
  <2>2. Answer <= iTmpl.nonce /\ iTmpl.nonce = iNextNonce - 1 BY Zenon DEF AckInv, AckTypeOK
  <2> QED BY <1>6, <1>8, <2>1, <2>2
<1>10. AckTypeOK'
  <2>1. /\ iLastCampaign' \in Nat /\ iTmpl'.nonce = iNextNonce' - 1
        /\ iNextNonce' > 1 => /\ iLastCampaign' >= 1
                              /\ iSwitchAt' = iLastCampaign' + DtToSwitch * Ms
    BY <1>2, <1>8
  <2>2. /\ down' \in Flags /\ craftFlag' \in BOOLEAN /\ iArmedSeen' \in BOOLEAN
        /\ fLastApplied' \in [Originators \X Sessions -> Int]
    BY <1>1, <1>a, Zenon DEF AckInv, AckTypeOK
  <2>3. OfGround(iTmpl)' BY <1>2, <1>8 DEF OfGround
  <2>4. /\ (\A p \in held : OfGround(p))'
        /\ (\A i \in 1..Len(up) : OfGround(up[i].pkt))'
    BY <1>1 DEF AckInv, AckTypeOK, OfGround
  <2> QED BY <1>9, <2>1, <2>2, <2>3, <2>4, Zenon DEF AckTypeOK
<1>11. AckCurrent' BY <1>1, <1>4, <1>7 DEF AckCurrent
<1>12. AckTimely'
  <2>1. LookDelay' = LookDelay BY <1>1 DEF LookDelay
  <2> QED BY <1>1, <1>3, <1>5, <1>6, <1>9, <2>1, Zenon DEF AckTimely
<1> QED BY <1>10, <1>11, <1>12 DEF AckInv

\* The craft's steps that accept no campaign.
LEMMA CraftAck ==
  ASSUME AgreementInv, ResolveInv, AckInv,
         UNCHANGED <<now, setup, fSwitchAt, fLastApplied, iVars, gNext, gHandled, held>>,
         craftFlag' \in BOOLEAN, down' \in Flags,
         \A i \in 1..Len(up') : \E j \in 1..Len(up) : up'[i] = up[j],
         Answered' => Answered,
         ~setup.faults /\ craftFlag' = TRUE /\ fState' \notin {"armed", "verify"} =>
            cNext' <= now /\ now <= CraftQuietBy,
         ~setup.faults /\ FlagQueued' => FlagQueued \/ now <= CraftQuietBy
  PROVE  AckInv'
<1> USE Durations, AckDurations
<1>1. /\ Answer' = Answer /\ LookDelay' = LookDelay /\ Lateness' = Lateness
      /\ CraftQuietBy' = CraftQuietBy /\ FlagsReadBy' = FlagsReadBy
  BY DEF Answer, LookDelay, Lateness, CraftQuietBy, CraftLands, VerifySpan, ShortestDt,
         FlagsReadBy
<1>2. UNCHANGED <<iState, iTmpl, iNextNonce, iSwitchAt, iLastCampaign, iArmedSeen>>
  BY DEF iVars
<1>3. AckTypeOK'
  <2>1. /\ iTmpl'.nonce = iNextNonce' - 1 /\ Answer' <= iTmpl'.nonce
        /\ iNextNonce' > 1 => /\ iLastCampaign' >= 1
                              /\ iSwitchAt' = iLastCampaign' + DtToSwitch * Ms
        /\ iLastCampaign' \in Nat
        /\ fLastApplied' \in [Originators \X Sessions -> Int]
    BY <1>1, <1>2 DEF AckInv, AckTypeOK
  <2>2. /\ Active' => OfGround(iTmpl)'
        /\ (\A p \in held : OfGround(p))'
    BY <1>2 DEF AckInv, AckTypeOK, OfGround, Active
  <2>3. (\A i \in 1..Len(up) : OfGround(up[i].pkt))' BY DEF AckInv, AckTypeOK, OfGround
  <2>4. iArmedSeen' \in BOOLEAN BY <1>2, Zenon DEF AckInv, AckTypeOK
  <2> QED BY <2>1, <2>2, <2>3, <2>4, Zenon DEF AckTypeOK
<1>4. AckCurrent'
  <2>1. Answered' => Answer' = iTmpl'.nonce /\ Answer' >= 1
    BY <1>1, <1>2, Zenon DEF AckInv, AckCurrent
  <2>2. \A i \in 1..Len(up') : up'[i].pkt.dt # 0 => up'[i].pkt.nonce = iTmpl'.nonce
    BY <1>2 DEF AckInv, AckCurrent
  <2> QED BY <2>1, <2>2 DEF AckCurrent
<1>5. ASSUME ~setup.faults, FlagQueued'
      PROVE  gNext' <= FlagsReadBy' /\ now' <= FlagsReadBy'
  <2>1. CASE FlagQueued BY <1>1, <1>5, <2>1, Zenon DEF AckInv, AckTimely
  <2>2. CASE now <= CraftQuietBy
    <3>1. gNext <= now + LookDelay BY <1>5, Zenon DEF AckInv, AckTimely
    <3>2. gNext' = gNext /\ now' = now /\ FlagsReadBy' = FlagsReadBy BY <1>1
    <3>3. gNext <= FlagsReadBy /\ now <= FlagsReadBy
      BY <2>2, <3>1, AckDurations, Zenon
    <3> QED BY <3>2, <3>3
  <2> QED BY <1>5, <2>1, <2>2, Zenon
<1>6. AckTimely'
  <2>1. ~setup.faults =>
          /\ Answer' = iTmpl'.nonce /\ Answer' >= 1 => fSwitchAt' <= iSwitchAt' + Lateness'
          /\ gNext' <= now' + LookDelay'
    BY <1>1, <1>2, Zenon DEF AckInv, AckTimely
  <2> QED BY <1>1, <1>5, <2>1, Zenon DEF AckTimely
<1> QED BY <1>3, <1>4, <1>6 DEF AckInv

\* The craft accepts a copy: one of the current campaign, which it had not answered.
LEMMA AcceptAck ==
  ASSUME AgreementInv, AgreementInv', ResolveInv, AckInv, CraftHears, NEW r \in setup.tsf,
         FAccept(Head(up).pkt, Elapsed(r, Head(up).at, Head(up).pkt.dt))
  PROVE  AckInv'
<1> DEFINE p == Head(up).pkt
           e == Elapsed(r, Head(up).at, p.dt)
<1>1. /\ UNCHANGED <<now, setup, iVars, gNext, gHandled, held, cNext, craftFlag, down>>
      /\ up # << >> /\ up' = Tail(up)
  BY DEF CraftHears, CraftOnly, heldVars
<1>2. UNCHANGED <<iState, iTmpl, iNextNonce, iSwitchAt, iLastCampaign, iArmedSeen>>
  BY <1>1 DEF iVars
<1>3. /\ 1 \in 1..Len(up) /\ Head(up) = up[1] /\ up[1] \in Heard
      /\ \A i \in 1..Len(up') : \E j \in 1..Len(up) : up'[i] = up[j]
  <2>1. up \in Seq(Heard) BY DEF AgreementInv, LinkTypeOK
  <2>2. /\ Len(up) \in Nat \ {0} /\ Head(up) = up[1] /\ Len(up') = Len(up) - 1
        /\ \A i \in 1..Len(up') : up'[i] = up[i + 1]
    BY <1>1, <2>1, HeadTailProperties, EmptySeq, LenProperties
  <2>3. 1 \in 1..Len(up) /\ \A i \in 1..Len(up') : i + 1 \in 1..Len(up) BY <2>2
  <2>4. up[1] \in Heard BY <2>1, <2>3, ElementOfSeq
  <2> QED BY <2>2, <2>3, <2>4, Zenon
<1> USE Durations, AckDurations
<1>4. /\ p.dt # 0 /\ p.nonce > fLastApplied[<<p.orig, p.sess>>]
      /\ fLastApplied' = [fLastApplied EXCEPT ![<<p.orig, p.sess>>] = p.nonce]
      /\ fState' = "armed" /\ fSwitchAt' = SwitchInstant(p, e)
  BY DEF FAccept, Acceptable, IsBeacon, Fresh, Stream
<1>5. p.nonce = iTmpl.nonce /\ p.orig = Ground /\ p.sess = Session /\ p.nonce >= 1
  BY <1>3, <1>4 DEF AckInv, AckTypeOK, AckCurrent, OfGround
<1>6. p.nonce \in Nat BY <1>3 DEF Heard, CsaPacket
<1>7. /\ fLastApplied \in [Originators \X Sessions -> Int]
      /\ <<Ground, Session>> \in Originators \X Sessions
  BY LinkConstants DEF AckInv, AckTypeOK
<1>8. /\ Answer' = iTmpl.nonce /\ fLastApplied' \in [Originators \X Sessions -> Int]
      /\ iTmpl.nonce > Answer
  BY <1>4, <1>5, <1>6, <1>7 DEF Answer
<1>9. ~Answered
  <2>1. Answer \in Int /\ iTmpl.nonce \in Nat BY <1>5, <1>6, <1>7 DEF Answer
  <2>2. Answer # iTmpl.nonce BY <1>8, <2>1
  <2> QED BY <2>2, Zenon DEF AckInv, AckCurrent
<1>10. ~(craftFlag = TRUE) /\ ~FlagQueued BY <1>9, Zenon DEF Answered
<1>11. FlagQueued' = FlagQueued BY <1>1 DEF FlagQueued
<1>12. AckTypeOK'
  <2>1. /\ iTmpl'.nonce = iNextNonce' - 1 /\ Answer' <= iTmpl'.nonce
        /\ iNextNonce' > 1 => /\ iLastCampaign' >= 1
                              /\ iSwitchAt' = iLastCampaign' + DtToSwitch * Ms
        /\ iLastCampaign' \in Nat
    <3>1. Answer' <= iTmpl'.nonce BY <1>2, <1>5, <1>6, <1>8
    <3> QED BY <1>2, <3>1, Zenon DEF AckInv, AckTypeOK
  <2>2. /\ Active' => OfGround(iTmpl)'
        /\ (\A q \in held : OfGround(q))'
    BY <1>1, <1>2 DEF AckInv, AckTypeOK, OfGround, Active
  <2>3. (\A i \in 1..Len(up) : OfGround(up[i].pkt))'
    <3> SUFFICES ASSUME NEW i \in 1..Len(up') PROVE OfGround(up'[i].pkt)
      BY DEF OfGround
    <3>1. PICK j \in 1..Len(up) : up'[i] = up[j] BY <1>3
    <3> QED BY <3>1, Zenon DEF AckInv, AckTypeOK
  <2>4. iArmedSeen' \in BOOLEAN /\ down' \in Flags /\ craftFlag' \in BOOLEAN
    BY <1>1, <1>2, Zenon DEF AckInv, AckTypeOK
  <2> QED BY <1>8, <2>1, <2>2, <2>3, <2>4, Zenon DEF AckTypeOK
<1>13. AckCurrent'
  <2>1. Answer' = iTmpl'.nonce /\ Answer' >= 1 BY <1>2, <1>5, <1>8
  <2>2. \A i \in 1..Len(up') : up'[i].pkt.dt # 0 => up'[i].pkt.nonce = iTmpl'.nonce
    BY <1>2, <1>3 DEF AckInv, AckCurrent
  <2> QED BY <2>1, <2>2 DEF AckCurrent
<1>14. AckTimely'
  <2>1. LookDelay' = LookDelay /\ Lateness' = Lateness
    BY <1>1 DEF LookDelay, Lateness, ShortestDt
  <2>2. ASSUME ~setup.faults PROVE fSwitchAt' <= iSwitchAt' + Lateness'
    <3>1. up[1].pkt.dt # 0 /\ up[1].pkt.nonce = iTmpl.nonce BY <1>3, <1>4, <1>5
    <3>2. SwitchInstant(up[1].pkt, Elapsed(r, up[1].at, up[1].pkt.dt)) <= iSwitchAt + Lateness
      BY <1>3, <2>2, <3>1, AcceptedInstant
    <3> QED BY <1>2, <1>3, <1>4, <2>1, <3>2
  <2>3. ~setup.faults => gNext' <= now' + LookDelay'
    BY <1>1, <2>1, Zenon DEF AckInv, AckTimely
  <2>4. ~(craftFlag' = TRUE) /\ ~FlagQueued' BY <1>1, <1>10, <1>11, Zenon
  <2> QED BY <1>1, <2>2, <2>3, <2>4, Zenon DEF AckTimely
<1> QED BY <1>12, <1>13, <1>14 DEF AckInv

\* The craft hears a copy, a beacon or other traffic of the ground.
LEMMA CraftHearsAck ==
  ASSUME AgreementInv, AgreementInv', ResolveInv, AckInv, CraftHears \/ CraftHearsTraffic
  PROVE  AckInv'
<1>1. CASE \E r \in setup.tsf : /\ CraftHears
                                /\ FAccept(Head(up).pkt,
                                           Elapsed(r, Head(up).at, Head(up).pkt.dt))
  BY <1>1, AcceptAck
<1>2. CASE ~\E r \in setup.tsf : /\ CraftHears
                                 /\ FAccept(Head(up).pkt,
                                            Elapsed(r, Head(up).at, Head(up).pkt.dt))
  <2>1. /\ UNCHANGED <<now, setup, iVars, gNext, gHandled, held, cNext, craftFlag, down>>
        /\ cNext <= now
    BY DEF CraftHears, CraftHearsTraffic, CraftOnly, CraftRuns, heldVars
  <2>2. /\ UNCHANGED <<fSwitchAt, fLastApplied>>
        /\ fState' = fState \/ (fState = "verify" /\ fState' = "committed")
    BY <1>2 DEF CraftHears, CraftHearsTraffic, FOnCsa, FConfirm, ConfirmsVerify, FRefuse,
                FNoteValidRx, fVars
  <2>3. \A i \in 1..Len(up') : \E j \in 1..Len(up) : up'[i] = up[j]
    <3>1. CASE up' = up BY <3>1
    <3>2. CASE CraftHears
      <4>1. up \in Seq(Heard) /\ up # << >> /\ up' = Tail(up)
        BY <3>2 DEF AgreementInv, LinkTypeOK, CraftHears
      <4>2. /\ Len(up) \in Nat \ {0} /\ Len(up') = Len(up) - 1
            /\ \A i \in 1..Len(up') : up'[i] = up[i + 1]
        BY <4>1, HeadTailProperties, EmptySeq, LenProperties
      <4>3. \A i \in 1..Len(up') : i + 1 \in 1..Len(up) BY <4>2
      <4> QED BY <4>2, <4>3, Zenon
    <3> QED BY <3>1, <3>2 DEF CraftHearsTraffic
  <2>4. craftFlag' \in BOOLEAN /\ down' \in Flags BY <2>1, Zenon DEF AckInv, AckTypeOK
  <2>5. FlagQueued' = FlagQueued BY <2>1 DEF FlagQueued
  <2>6. fState' \in {"armed", "verify"} => fState \in {"armed", "verify"} BY <2>2
  <2>7. UNCHANGED <<iState, iArmedSeen>> BY <2>1 DEF iVars
  <2>8. Answered' => Answered BY <2>1, <2>5, <2>6, <2>7, Zenon DEF Answered
  <2>9. ~setup.faults /\ craftFlag' = TRUE /\ fState' \notin {"armed", "verify"} =>
           cNext' <= now /\ now <= CraftQuietBy
    <3>1. CASE fState = "verify" BY <2>1, <3>1, CraftStillTalks
    <3>2. CASE fState' = fState BY <2>1, <3>2, Zenon DEF AckInv, AckTimely
    <3> QED BY <2>2, <3>1, <3>2
  <2>10. ~setup.faults /\ FlagQueued' => FlagQueued \/ now <= CraftQuietBy BY <2>5
  <2> QED BY <2>1, <2>2, <2>3, <2>4, <2>8, <2>9, <2>10, CraftAck, Zenon
<1> QED BY <1>1, <1>2

\* The craft's retunes leave its flag alone, ticks and video put it on the air.
LEMMA CraftRunsAck ==
  ASSUME AgreementInv, AgreementInv', ResolveInv, ResolveInv', AckInv,
         \/ CraftRetune \/ CraftTick \/ CraftVideo
         \/ \E c \in Channels : CraftLocalRetune(c)
  PROVE  AckInv'
<1>1. UNCHANGED <<now, setup, iVars, gNext, gHandled, held, up, fSwitchAt, fLastApplied>>
  BY DEF CraftRetune, CraftTick, CraftVideo, CraftLocalRetune, FlagAndSend, CraftOnly, heldVars,
         FSwitch, FVerify, FRelease, FQuiet, FDetach, fVars
<1>2. UNCHANGED <<iState, iArmedSeen>> BY <1>1 DEF iVars
<1>3. \A i \in 1..Len(up') : \E j \in 1..Len(up) : up'[i] = up[j] BY <1>1
<1>4. down \in Flags /\ craftFlag \in BOOLEAN BY Zenon DEF AckInv, AckTypeOK
<1>5. fState' \in {"armed", "verify"} => fState \in {"armed", "verify"}
  BY DEF CraftRetune, CraftTick, CraftVideo, CraftLocalRetune, FSwitch, SwitchDue, FVerify,
         FRelease, FQuiet, FDetach, fVars
<1>6. CraftQuietBy' = CraftQuietBy
  BY <1>1 DEF CraftQuietBy, CraftLands, VerifySpan
<1>q. fState' \in {"armed", "verify"} => now <= CraftQuietBy
  BY <1>5, CraftStillTalks
<1>7. CASE CraftRetune \/ \E c \in Channels : CraftLocalRetune(c)
  <2>1. craftFlag' = craftFlag /\ down' = down BY <1>7 DEF CraftRetune, CraftLocalRetune
  <2>2. setup.faults \/ fState' \in {"armed", "verify"}
    BY <1>7 DEF CraftRetune, CraftLocalRetune, FSwitch
  <2>3. FlagQueued' = FlagQueued BY <2>1 DEF FlagQueued
  <2>4. Answered' => Answered BY <1>2, <1>5, <2>1, <2>3, Zenon DEF Answered
  <2>5. craftFlag' \in BOOLEAN /\ down' \in Flags BY <1>4, <2>1, Zenon
  <2>6. ~setup.faults /\ FlagQueued' => FlagQueued \/ now <= CraftQuietBy BY <2>3
  <2>7. ~setup.faults /\ craftFlag' = TRUE /\ fState' \notin {"armed", "verify"} =>
           cNext' <= now /\ now <= CraftQuietBy
    BY <2>2
  <2> QED BY <1>1, <1>3, <2>4, <2>5, <2>6, <2>7, CraftAck, Zenon
<1>8. CASE CraftVideo
  <2>1. /\ down' = Queued(craftFlag) /\ craftFlag' = craftFlag /\ fState' = fState
        /\ cNext' = cNext
    BY <1>8 DEF CraftVideo, fVars
  <2>2. down' \in Flags /\ (FlagQueued' => FlagQueued \/ craftFlag = TRUE)
    BY <1>4, <2>1, QueuedFlags, Zenon
  <2>3. Answered' => Answered BY <1>2, <1>5, <2>1, <2>2, Zenon DEF Answered
  <2>4. ~setup.faults /\ craftFlag' = TRUE /\ fState' \notin {"armed", "verify"} =>
           cNext' <= now /\ now <= CraftQuietBy
    BY <2>1, Zenon DEF AckInv, AckTimely
  <2>5. ~setup.faults /\ FlagQueued' => FlagQueued \/ now <= CraftQuietBy
    BY <1>q, <2>1, <2>2, <2>4, Zenon
  <2>6. craftFlag' \in BOOLEAN BY <1>4, <2>1, Zenon
  <2> QED BY <1>1, <1>3, <2>2, <2>3, <2>4, <2>5, <2>6, CraftAck, Zenon
<1>9. CASE CraftTick
  <2> DEFINE flag == fState' \in {"armed", "verify"}
  <2>1. craftFlag' = flag /\ (down' = Queued(flag) \/ down' = down)
    BY <1>9, Zenon DEF CraftTick, FlagAndSend, CampaignActive, SendData
  <2>2. flag \in BOOLEAN OBVIOUS
  <2>3. down' \in Flags /\ (FlagQueued' => FlagQueued \/ flag = TRUE)
    <3>1. CASE down' = down
      <4>1. FlagQueued' = FlagQueued BY <3>1 DEF FlagQueued
      <4> QED BY <1>4, <3>1, <4>1, Zenon
    <3>2. CASE down' = Queued(flag)
      <4> HIDE DEF flag
      <4> QED BY <1>4, <2>2, <3>2, QueuedFlags, Zenon
    <3> QED BY <2>1, <3>1, <3>2, Zenon
  <2>4. craftFlag' = TRUE => fState' \in {"armed", "verify"} BY <2>1, Zenon
  <2>5. FlagQueued' => FlagQueued \/ fState' \in {"armed", "verify"} BY <2>3, Zenon
  <2>6. Answered' => Answered BY <1>2, <1>5, <2>4, <2>5, Zenon DEF Answered
  <2>7. ~setup.faults /\ craftFlag' = TRUE /\ fState' \notin {"armed", "verify"} =>
           cNext' <= now /\ now <= CraftQuietBy
    BY <2>4, Zenon
  <2>8. ~setup.faults /\ FlagQueued' => FlagQueued \/ now <= CraftQuietBy
    BY <1>q, <2>5, Zenon
  <2>9. craftFlag' \in BOOLEAN BY <2>1, <2>2, Zenon
  <2> QED BY <1>1, <1>3, <2>3, <2>6, <2>7, <2>8, <2>9, CraftAck, Zenon
<1> QED BY <1>7, <1>8, <1>9

\* Time passes.
LEMMA TimeAck ==
  ASSUME AgreementInv, ResolveInv, AckInv, Advance
  PROVE  AckInv'
<1> USE Durations, AckDurations
<1>1. /\ UNCHANGED <<setup, fState, fSwitchAt, fLastApplied, iVars, gNext, gHandled, held,
                     cNext, craftFlag, down, up>>
      /\ now' = now + 1 /\ cNext > now /\ gNext > now
  BY DEF Advance, fVars, heldVars
<1>2. UNCHANGED <<iState, iTmpl, iNextNonce, iSwitchAt, iLastCampaign, iArmedSeen>>
  BY <1>1 DEF iVars
<1>3. /\ Answer' = Answer /\ LookDelay' = LookDelay /\ Lateness' = Lateness
      /\ CraftQuietBy' = CraftQuietBy /\ FlagsReadBy' = FlagsReadBy
      /\ FlagQueued' = FlagQueued
  BY <1>1 DEF Answer, LookDelay, Lateness, CraftQuietBy, CraftLands, VerifySpan, ShortestDt,
              FlagsReadBy, FlagQueued
<1>4. AckTypeOK'
  <2>1. /\ (\A p \in held : OfGround(p))' /\ (\A i \in 1..Len(up) : OfGround(up[i].pkt))'
        /\ (Active => OfGround(iTmpl))'
    BY <1>1, <1>2 DEF AckInv, AckTypeOK, OfGround, Active
  <2> QED BY <1>1, <1>2, <1>3, <2>1, Zenon DEF AckInv, AckTypeOK
<1>5. AckCurrent'
  <2>1. Answered' = Answered BY <1>1, <1>2, <1>3, Zenon DEF Answered
  <2> QED BY <1>1, <1>2, <1>3, <2>1 DEF AckInv, AckCurrent
<1>6. AckTimely'
  <2>1. now' <= gNext /\ ~(cNext <= now) BY <1>1, <1>3
  <2>a. ASSUME ~setup.faults PROVE gNext' <= now' + LookDelay'
    <3>1. gNext <= now + LookDelay BY <2>a, Zenon DEF AckInv, AckTimely
    <3> QED BY <1>1, <1>3, <3>1
  <2>2. ASSUME ~setup.faults, FlagQueued
        PROVE  gNext' <= FlagsReadBy' /\ now' <= FlagsReadBy'
    <3>1. gNext <= FlagsReadBy BY <2>2, Zenon DEF AckInv, AckTimely
    <3>2. now' <= FlagsReadBy BY <1>1, <2>1, <3>1
    <3> QED BY <1>1, <1>3, <3>1, <3>2
  <2>3. ~setup.faults /\ craftFlag = TRUE => fState \in {"armed", "verify"}
    BY <2>1, Zenon DEF AckInv, AckTimely
  <2> QED BY <1>1, <1>2, <1>3, <2>2, <2>3, <2>a, Zenon DEF AckInv, AckTimely
<1> QED BY <1>4, <1>5, <1>6 DEF AckInv

\* The invariant of the acknowledgement, where campaigns are apart.
LEMMA AckInductive == LinkSpec /\ CampaignsApart => [](AckInv /\ CampaignsApart)
<1>1. LinkInit => AckInv
  <2> SUFFICES ASSUME LinkInit PROVE AckInv OBVIOUS
  <2>1. /\ down = << >> /\ up = << >> /\ held = {} /\ iLastCampaign = 0 /\ iNextNonce = 1
        /\ iTmpl.nonce = 0 /\ iState = "idle" /\ fState = "idle" /\ now = 1 /\ gNext = 1
        /\ fLastApplied = [s \in Originators \X Sessions |-> -1]
    BY DEF LinkInit, IInit, FInit, NoTmpl
  <2>2. iArmedSeen = FALSE /\ craftFlag = FALSE BY DEF LinkInit, IInit
  <2>3. Answer = -1 BY <2>1, LinkConstants DEF Answer
  <2>4. ~FlagQueued BY <2>1, NoFlag
  <2>5. ~(craftFlag = TRUE) /\ ~(iArmedSeen = TRUE) BY <2>2, Zenon
  <2>6. fState \notin {"armed", "verify"} /\ iState \notin {"announce", "awaitack", "verify"}
    BY <2>1
  <2>7. ~Answered BY <2>4, <2>5, <2>6, Zenon DEF Answered
  <2>8. AckTypeOK
    <3>1. iArmedSeen \in BOOLEAN /\ craftFlag \in BOOLEAN BY <2>2, Zenon
    <3>2. down \in Flags BY <2>1 DEF Flags
    <3>3. /\ fLastApplied \in [Originators \X Sessions -> Int] /\ iLastCampaign \in Nat
          /\ iTmpl.nonce = iNextNonce - 1 /\ Answer <= iTmpl.nonce /\ ~(iNextNonce > 1)
      BY <2>1, <2>3
    <3>4. /\ ~Active /\ \A p \in held : OfGround(p)
          /\ \A i \in 1..Len(up) : OfGround(up[i].pkt)
      BY <2>1 DEF Active
    <3> QED BY <3>1, <3>2, <3>3, <3>4, Zenon DEF AckTypeOK
  <2>9. AckCurrent BY <2>1, <2>7 DEF AckCurrent
  <2>10. AckTimely
    <3>1. setup.stall \in Nat /\ RetuneTime \in Nat BY LinkConstants DEF LinkInit, Setup
    <3>2. gNext <= now + LookDelay BY <2>1, <3>1 DEF LookDelay, Max2
    <3>3. ~(Answer >= 1) BY <2>3
    <3> QED BY <2>4, <2>5, <3>2, <3>3, Zenon DEF AckTimely
  <2> QED BY <2>8, <2>9, <2>10 DEF AckInv
<1>2. /\ AgreementInv /\ AgreementInv' /\ ResolveInv /\ ResolveInv' /\ AckInv /\ CampaignsApart
      /\ [LinkNext]_linkVars
      => (AckInv /\ CampaignsApart)'
  <2> SUFFICES ASSUME AgreementInv, AgreementInv', ResolveInv, ResolveInv', AckInv,
                      CampaignsApart, [LinkNext]_linkVars
               PROVE  AckInv' /\ CampaignsApart'
    OBVIOUS
  <2>1. setup' = setup
    BY DEF LinkNext, linkVars, Halt, Advance, CraftHears, CraftHearsTraffic, CraftRetune,
           CraftTick, CraftVideo, CraftLocalRetune, CraftOnly, FlagAndSend, GroundHears,
           GroundRelease, GroundSendCopy, GroundSendBeacon, GroundQuiet, GroundCommit,
           GroundCommitFails, GroundAbort, GroundClose, GroundClaim, GroundCsa,
           GroundMove, GroundLatch, GroundOnly
  <2>2. CampaignsApart'
    BY <2>1 DEF CampaignsApart, Lateness, LookDelay, ShortestDt, VerifySpan
  <2>3. CASE UNCHANGED linkVars
    <3>1. /\ UNCHANGED <<now, setup, fSwitchAt, fState, fLastApplied, iVars, gNext, gHandled,
                         held, cNext, craftFlag, down, up>>
      BY <2>3 DEF linkVars, fVars, heldVars
    <3>2. craftFlag' \in BOOLEAN /\ down' \in Flags BY <3>1, Zenon DEF AckInv, AckTypeOK
    <3>3. \A i \in 1..Len(up') : \E j \in 1..Len(up) : up'[i] = up[j] BY <3>1
    <3>4. FlagQueued' = FlagQueued BY <3>1 DEF FlagQueued
    <3>5. UNCHANGED <<iState, iArmedSeen>> BY <3>1 DEF iVars
    <3>6. Answered' => Answered BY <3>1, <3>4, <3>5, Zenon DEF Answered
    <3>7. ~setup.faults /\ craftFlag' = TRUE /\ fState' \notin {"armed", "verify"} =>
             cNext' <= now /\ now <= CraftQuietBy
      BY <3>1, Zenon DEF AckInv, AckTimely
    <3>8. ~setup.faults /\ FlagQueued' => FlagQueued \/ now <= CraftQuietBy BY <3>4
    <3>9. AckInv' BY <3>1, <3>2, <3>3, <3>6, <3>7, <3>8, CraftAck, Zenon
    <3> QED BY <2>2, <3>9
  <2>4. CASE LinkNext
    <3>1. CASE Advance BY <2>2, <3>1, TimeAck
    <3>2. CASE Halt BY <2>3, <3>2 DEF Halt
    <3>3. CASE CraftHears \/ CraftHearsTraffic BY <2>2, <3>3, CraftHearsAck
    <3>4. CASE \/ CraftRetune \/ CraftTick \/ CraftVideo
               \/ \E c \in Channels : CraftLocalRetune(c)
      BY <2>2, <3>4, CraftRunsAck
    <3>5. CASE GroundHears BY <2>2, <3>5, HearsAck
    <3>6. CASE GroundRelease \/ GroundSendCopy \/ GroundSendBeacon BY <2>2, <3>6, SendsAck
    <3>7. CASE \/ GroundQuiet \/ GroundCommit \/ GroundCommitFails \/ GroundAbort
               \/ GroundClose \/ GroundLatch
      BY <2>2, <3>7, TicksAck
    <3>8. ASSUME NEW c \in Channels, GroundClaim(c) \/ GroundCsa(c) \/ GroundMove(c)
          PROVE  AckInv'
      <4>1. CASE GroundMove(c) BY <4>1, RequestsAck
      <4>2. CASE GroundClaim(c) /\ ~IStart(Key, Ground, Session, c) BY <4>2, RequestsAck
      <4>3. CASE GroundClaim(c) /\ IStart(Key, Ground, Session, c) BY <4>3, StartAck
      <4>4. CASE GroundCsa(c)
        <5>1. IStart(Key, Ground, Session, c) BY <4>4 DEF GroundCsa
        <5> QED BY <4>4, <5>1, StartAck
      <4> QED BY <3>8, <4>1, <4>2, <4>3, <4>4
    <3> QED BY <2>2, <2>4, <3>1, <3>2, <3>3, <3>4, <3>5, <3>6, <3>7, <3>8 DEF LinkNext
  <2> QED BY <2>3, <2>4
<1> QED BY <1>1, <1>2, AgreementInductive, ResolveInductive, PTL DEF LinkSpec

\* The vehicle acknowledges before the ground commits (README): in every installation whose
\* campaigns are far enough apart, whatever is lost, late or held, a ground that moved on a
\* campaign moved on one the craft accepted, never on a flag left over from the one before
\* (csa.cpp note_craft_armed takes any CSA_ARMED flag for an answer to the current one).
THEOREM CommitAlwaysAcked == LinkSpec /\ CampaignsApart => []AckedCommit
<1>1. AckInv => AckedCommit
  <2> SUFFICES ASSUME AckInv, iState = "verify" PROVE Answer >= iTmpl.nonce
    BY DEF AckedCommit, Answer
  <2>1. Answered BY Zenon DEF Answered
  <2>2. Answer = iTmpl.nonce BY <2>1, Zenon DEF AckInv, AckCurrent
  <2>3. Answer \in Int BY LinkConstants DEF AckInv, AckTypeOK, Answer
  <2> QED BY <2>2, <2>3
<1> QED BY <1>1, AckInductive, PTL

-----------------------------------------------------------------------------
(* The ground's commit is the craft's *)

\* The craft accepted the current campaign; a frame without the flag is on its way.
Accepted == Answer = iTmpl.nonce /\ Answer >= 1
QuietQueued == FALSE \in {down[i] : i \in 1..Len(down)}

\* The craft's flag is up, on its way, or was taken for an answer.
Spoken ==
  \/ craftFlag = TRUE \/ FlagQueued
  \/ iState \in {"announce", "awaitack"} /\ iArmedSeen = TRUE
  \/ iState = "verify"

\* A copy of the current campaign names its channel.
CopiesMean ==
  /\ \A p \in held : p.nonce = iTmpl.nonce => p.target = iTmpl.target
  /\ \A i \in 1..Len(up) : up[i].pkt.nonce = iTmpl.nonce => up[i].pkt.target = iTmpl.target

\* A craft that accepted the current campaign is in it, and on its channel once switched.
CraftFollows ==
  ~setup.faults /\ Accepted =>
    /\ fState \in {"armed", "verify", "committed"}
    /\ fCampaign.nonce = iTmpl.nonce /\ fCampaign.target = iTmpl.target
    /\ fState # "armed" => craftChan = iTmpl.target

\* The ground's selection goes with its campaign, and so do its ears.
SelectionKnown ==
  /\ gSel = "verifying" => iState = "verify"
  /\ gPrevSel # "verifying"
  /\ iState = "verify" => groundChan = iTmpl.target

\* Once spoken, the flag stays up until the craft is done with the campaign.
FlagStands == ~setup.faults /\ Spoken => craftFlag = TRUE \/ fState = "committed"

\* A frame without the flag, seen after the commit, is of a craft that is done.
VideoTold ==
  /\ iVideoSeen \in BOOLEAN
  /\ iState \in {"announce", "awaitack"} => ~(iVideoSeen = TRUE)
  /\ ~setup.faults /\ iState = "verify" /\ (QuietQueued \/ iVideoSeen = TRUE) =>
       fState = "committed"

TogetherInv == /\ CopiesMean /\ CraftFollows /\ SelectionKnown /\ FlagStands /\ VideoTold

\* What a transmission leaves in the craft's queue.
LEMMA UpSent ==
  ASSUME AgreementInv, NEW p \in CsaPacket, Transmit(p)
  PROVE  \A i \in 1..Len(up') : \/ \E j \in 1..Len(up) : up'[i] = up[j]
                                \/ up'[i].pkt = p /\ up'[i].at = now
<1>1. CASE up' = up BY <1>1
<1>2. CASE up' = Append(up, [pkt |-> p, at |-> now])
  <2> DEFINE f == [pkt |-> p, at |-> now]
  <2>1. up \in Seq(Heard) /\ f \in Heard BY DEF AgreementInv, LinkTypeOK, Heard
  <2>2. f.pkt = p /\ f.at = now OBVIOUS
  <2> HIDE DEF f
  <2>3. /\ Len(up') = Len(up) + 1 /\ Len(up) \in Nat
        /\ \A i \in 1..Len(up) : up'[i] = up[i]
        /\ up'[Len(up) + 1] = f
    BY <1>2, <2>1, AppendProperties, LenProperties DEF f
  <2>4. \A i \in 1..Len(up') : i \in 1..Len(up) \/ i = Len(up) + 1 BY <2>3
  <2> QED BY <2>2, <2>3, <2>4
<1> QED BY <1>1, <1>2 DEF Transmit

\* The craft takes the oldest frame; the others stay.
LEMMA UpTaken ==
  ASSUME AgreementInv, up # << >>, up' = Tail(up)
  PROVE  /\ 1 \in 1..Len(up) /\ Head(up) = up[1] /\ up[1] \in Heard
         /\ \A i \in 1..Len(up') : \E j \in 1..Len(up) : up'[i] = up[j]
<1>1. up \in Seq(Heard) BY DEF AgreementInv, LinkTypeOK
<1>2. /\ Len(up) \in Nat \ {0} /\ Head(up) = up[1] /\ Len(up') = Len(up) - 1
      /\ \A i \in 1..Len(up') : up'[i] = up[i + 1]
  BY <1>1, HeadTailProperties, EmptySeq, LenProperties
<1>3. 1 \in 1..Len(up) /\ \A i \in 1..Len(up') : i + 1 \in 1..Len(up) BY <1>2
<1>4. up[1] \in Heard BY <1>1, <1>3, ElementOfSeq
<1> QED BY <1>2, <1>3, <1>4, Zenon

\* A copy or beacon of the current campaign enters the craft's queue with its meaning.
LEMMA SentMeans ==
  ASSUME AgreementInv, CopiesMean, NEW p \in CsaPacket, Transmit(p), iTmpl' = iTmpl,
         p.target = iTmpl.target
  PROVE  \A i \in 1..Len(up') : up'[i].pkt.nonce = iTmpl'.nonce => up'[i].pkt.target = iTmpl'.target
<1>1. \A i \in 1..Len(up') : \/ \E j \in 1..Len(up) : up'[i] = up[j]
                             \/ up'[i].pkt = p /\ up'[i].at = now
  BY UpSent
<1> QED BY <1>1 DEF CopiesMean

\* Steps that touch neither the craft nor the queue of flags, and start and commit nothing.
LEMMA TogetherSteady ==
  ASSUME TogetherInv, CopiesMean', SelectionKnown',
         UNCHANGED <<setup, craftFlag, craftChan, fState, fCampaign, fLastApplied, down, iTmpl,
                     iArmedSeen, iVideoSeen>>,
         \/ iState' = iState \/ (iState = "announce" /\ iState' = "awaitack") \/ iState' = "idle"
  PROVE  TogetherInv'
<1>1. /\ (Accepted' <=> Accepted) /\ (FlagQueued' <=> FlagQueued)
      /\ (QuietQueued' <=> QuietQueued)
  BY DEF Accepted, Answer, FlagQueued, QuietQueued
<1>2. CraftFollows' BY <1>1 DEF TogetherInv, CraftFollows
<1>3. Spoken' => Spoken
  <2>1. CASE iState' = iState BY <1>1, <2>1, Zenon DEF Spoken
  <2>2. CASE iState = "announce" /\ iState' = "awaitack" BY <1>1, <2>2, Zenon DEF Spoken
  <2>3. CASE iState' = "idle" BY <1>1, <2>3, Zenon DEF Spoken
  <2> QED BY <2>1, <2>2, <2>3
<1>4. FlagStands' BY <1>3, Zenon DEF TogetherInv, FlagStands
<1>5. VideoTold'
  <2>1. CASE iState' = iState BY <1>1, <2>1, Zenon DEF TogetherInv, VideoTold
  <2>2. CASE iState = "announce" /\ iState' = "awaitack"
    BY <1>1, <2>2, Zenon DEF TogetherInv, VideoTold
  <2>3. CASE iState' = "idle" BY <1>1, <2>3, Zenon DEF TogetherInv, VideoTold
  <2> QED BY <2>1, <2>2, <2>3
<1> QED BY <1>2, <1>4, <1>5, Zenon DEF TogetherInv

\* Copies and beacons on the air.
LEMMA SendsTogether ==
  ASSUME AgreementInv, TogetherInv, GroundRelease \/ GroundSendCopy \/ GroundSendBeacon
  PROVE  TogetherInv'
<1>1. UNCHANGED <<setup, craftFlag, craftChan, fState, fCampaign, fLastApplied, down, iTmpl,
                  iArmedSeen, iVideoSeen, gVars>>
  BY DEF GroundRelease, GroundSendCopy, GroundSendBeacon, GroundOnly, fVars, iVars, ISendCopy,
         ISendBeacon, Stay
<1>2. iState' = iState \/ (iState = "announce" /\ iState' = "awaitack")
  <2>1. CASE GroundSendCopy
    <3>1. /\ iState \in {"announce", "awaitack"}
          /\ iState' = IF iCopiesLeft' = 0 THEN "awaitack" ELSE iState
      BY <2>1 DEF GroundSendCopy, ISendCopy, AnnounceDue, RepeatDue
    <3> QED BY <3>1
  <2>2. CASE GroundRelease \/ GroundSendBeacon
    BY <2>2 DEF GroundRelease, GroundSendBeacon, iVars, ISendBeacon
  <2> QED BY <2>1, <2>2
<1>3. SelectionKnown' BY <1>1, <1>2 DEF TogetherInv, SelectionKnown, gVars
<1>m. CopiesMean BY DEF TogetherInv
<1>4. CopiesMean'
  <2>1. CASE GroundRelease
    <3>1. PICK p \in held : IF CanRestamp(p) THEN Transmit(RestampCopy(p))
                            ELSE UNCHANGED <<up, losses>>
      BY <2>1 DEF GroundRelease
    <3>2. held' = {} BY <2>1 DEF GroundRelease
    <3>3. CASE CanRestamp(p)
      <4>1. /\ p \in CsaPacket /\ CopyWindowOpen /\ p.nonce = iTmpl.nonce
            /\ Transmit(StampCopy(p)) /\ LinkTypeOK
        BY <3>1, <3>3 DEF AgreementInv, LinkTypeOK, CanRestamp, RestampCopy
      <4>2. StampCopy(p) \in CsaPacket BY <4>1, StampDates
      <4>3. StampCopy(p).target = iTmpl.target BY <1>m, <4>1 DEF StampCopy, CsaPacket, CopiesMean
      <4> QED BY <1>1, <1>m, <3>2, <4>1, <4>2, <4>3, SentMeans DEF CopiesMean
    <3>4. CASE ~CanRestamp(p) BY <1>1, <1>m, <3>1, <3>2, <3>4 DEF CopiesMean
    <3> QED BY <3>3, <3>4
  <2>2. CASE GroundSendCopy
    <3>1. /\ iTmpl \in CsaPacket /\ CopyWindowOpen /\ LinkTypeOK
          /\ \/ up' = up /\ held' = {StampCopy(iTmpl)}
             \/ Transmit(StampCopy(iTmpl)) /\ held' = held
      BY <2>2 DEF GroundSendCopy, heldVars, ISendCopy, AnnounceDue, RepeatDue, Active,
                  AgreementInv, LinkTypeOK
    <3>2. StampCopy(iTmpl) \in CsaPacket BY <3>1, StampDates
    <3>3. StampCopy(iTmpl).target = iTmpl.target BY <3>1 DEF StampCopy, CsaPacket
    <3>4. CASE up' = up /\ held' = {StampCopy(iTmpl)} BY <1>1, <1>m, <3>3, <3>4 DEF CopiesMean
    <3>5. CASE Transmit(StampCopy(iTmpl)) /\ held' = held
      BY <1>1, <1>m, <3>2, <3>3, <3>5, SentMeans DEF CopiesMean
    <3> QED BY <3>1, <3>4, <3>5
  <2>3. CASE GroundSendBeacon
    <3>1. iTmpl \in CsaPacket /\ iPsk \in Keys \cup {NoKey} /\ Transmit(Beacon) /\ held' = held
      BY <2>3 DEF GroundSendBeacon, heldVars, ISendBeacon, Active, AgreementInv, LinkTypeOK
    <3>2. Beacon \in CsaPacket /\ Beacon.target = iTmpl.target BY <3>1 DEF Beacon, CsaPacket
    <3> QED BY <1>1, <1>m, <3>1, <3>2, SentMeans DEF CopiesMean
  <2> QED BY <2>1, <2>2, <2>3
<1> QED BY <1>1, <1>2, <1>3, <1>4, TogetherSteady

\* The ground's ticks but for the commit, its latch, its moves and a claim refused.
LEMMA TicksTogether ==
  ASSUME TogetherInv, NEW c \in Channels,
         \/ GroundQuiet \/ GroundCommitFails \/ GroundAbort \/ GroundClose \/ GroundLatch
         \/ GroundMove(c) \/ (GroundClaim(c) /\ ~IStart(Key, Ground, Session, c))
  PROVE  TogetherInv'
<1>1. UNCHANGED <<setup, craftFlag, craftChan, fState, fCampaign, fLastApplied, down, iTmpl,
                  iArmedSeen, iVideoSeen, held, up>>
  BY DEF GroundQuiet, GroundCommitFails, GroundAbort, GroundClose, GroundLatch, GroundMove,
         GroundClaim, GroundOnly, fVars, iVars, heldVars, ICloseWindow, IQuiet, ICommit, IAbort,
         ISuccess, Stay
<1>2. CopiesMean' BY <1>1 DEF TogetherInv, CopiesMean
<1>3. SelectionKnown BY DEF TogetherInv
<1>4. \/ iState' = iState \/ (iState = "announce" /\ iState' = "awaitack") \/ iState' = "idle"
  BY DEF GroundQuiet, GroundCommitFails, GroundAbort, GroundClose, GroundLatch, GroundMove,
         GroundClaim, iVars, ICloseWindow, WindowCloses, IQuiet, ICommit, IAbort, ISuccess
<1>5. SelectionKnown'
  <2>1. CASE GroundQuiet
    BY <1>1, <1>3, <2>1 DEF GroundQuiet, gVars, SelectionKnown, ICloseWindow, WindowCloses, IQuiet,
                            iVars
  <2>2. CASE GroundCommitFails
    BY <1>3, <2>2 DEF GroundCommitFails, SelectionKnown, ICommit
  <2>3. CASE GroundAbort BY <1>3, <2>3 DEF GroundAbort, SelectionKnown, IAbort
  <2>4. CASE GroundClose BY <1>3, <2>4 DEF GroundClose, SelectionKnown, ISuccess
  <2>5. CASE GroundLatch BY <1>1, <1>3, <2>5 DEF GroundLatch, SelectionKnown, iVars
  <2>6. CASE GroundMove(c) BY <1>3, <2>6 DEF GroundMove, SelectionKnown, Active, iVars
  <2>7. CASE GroundClaim(c) /\ ~IStart(Key, Ground, Session, c)
    BY <1>3, <2>7 DEF GroundClaim, SelectionKnown, Active
  <2> QED BY <2>1, <2>2, <2>3, <2>4, <2>5, <2>6, <2>7
<1> QED BY <1>1, <1>2, <1>4, <1>5, TogetherSteady

\* The ground's commit: it has the craft's answer and an empty queue.
LEMMA CommitTogether ==
  ASSUME AckInv, TogetherInv, GroundCommit
  PROVE  TogetherInv'
<1>1. /\ UNCHANGED <<setup, craftFlag, craftChan, fState, fCampaign, fLastApplied, down, iTmpl,
                     iArmedSeen, iVideoSeen, held, up, gPrevSel>>
      /\ iState = "awaitack" /\ iState' = "verify" /\ down = << >>
      /\ groundChan' = iTmpl.target
  BY DEF GroundCommit, GroundReady, GroundOnly, fVars, iVars, heldVars, ICommit, CommitDue, Stay
<1>2. iArmedSeen = TRUE
  <2>1. iArmedSeen /\ iArmedSeen \in BOOLEAN
    BY Zenon DEF GroundCommit, ICommit, CommitDue, AckInv, AckTypeOK
  <2> QED BY <2>1, Zenon
<1>3. CopiesMean' BY <1>1 DEF TogetherInv, CopiesMean
<1>4. CraftFollows' BY <1>1 DEF TogetherInv, CraftFollows, Accepted, Answer
<1>5. SelectionKnown' BY <1>1 DEF TogetherInv, SelectionKnown
<1>6. FlagStands'
  <2>1. Spoken BY <1>1, <1>2, Zenon DEF Spoken
  <2> QED BY <1>1, <2>1, Zenon DEF TogetherInv, FlagStands
<1>7. VideoTold'
  <2>1. 1..Len(down') = {} BY <1>1
  <2>2. ~QuietQueued' BY <2>1, Zenon DEF QuietQueued
  <2>3. ~(iVideoSeen = TRUE) /\ iVideoSeen \in BOOLEAN
    BY <1>1, Zenon DEF TogetherInv, VideoTold
  <2>4. iState' \notin {"announce", "awaitack"} BY <1>1
  <2> QED BY <1>1, <2>2, <2>3, <2>4, Zenon DEF VideoTold
<1> QED BY <1>3, <1>4, <1>5, <1>6, <1>7, Zenon DEF TogetherInv

\* A campaign starts: nothing on its way is of it, and the craft has not answered it.
LEMMA StartTogether ==
  ASSUME AgreementInv, ResolveInv, AckInv, AckInv', CampaignsApart, TogetherInv, NEW c \in Channels,
         GroundClaim(c) \/ GroundCsa(c), IStart(Key, Ground, Session, c)
  PROVE  TogetherInv'
<1>1. /\ UNCHANGED <<setup, craftFlag, craftChan, fState, fCampaign, fLastApplied, down, held, up>>
      /\ iState = "idle" /\ iState' = "announce" /\ iTmpl'.nonce = iNextNonce
      /\ gSel' = "claiming" /\ gPrevSel' = gSel
  <2>1. /\ iState = "idle" /\ iState' = "announce" /\ iTmpl'.nonce = iNextNonce
    BY DEF IStart, CanStart, Active
  <2>2. CASE GroundCsa(c) BY <2>1, <2>2 DEF GroundCsa, GroundOnly, fVars, heldVars
  <2>3. CASE GroundClaim(c)
    <3>1. iPsk' = Key /\ iNextNonce' = iNextNonce + 1 BY DEF IStart
    <3>2. iNextNonce' # iNextNonce BY <3>1 DEF AgreementInv, LinkTypeOK
    <3> QED BY <2>1, <2>3, <3>2 DEF GroundClaim, GroundOnly, fVars, heldVars
  <2> QED BY <2>2, <2>3
<1>2. iArmedSeen' = FALSE /\ iVideoSeen' = FALSE BY DEF IStart
<1>3. CopiesMean'
  <2>1. /\ \A i \in 1..Len(up) : up[i].pkt.nonce < iNextNonce /\ up[i].pkt.nonce \in Nat
        /\ \A p \in held : p.nonce < iNextNonce /\ p.nonce \in Nat
        /\ iNextNonce \in Nat
    <3>1. \A i \in 1..Len(up) : up[i] \in Heard BY ElementOfSeq DEF AgreementInv, LinkTypeOK
    <3> QED BY <3>1 DEF AgreementInv, LinkTypeOK, NoncesSpent, Heard, CsaPacket
  <2>2. /\ \A i \in 1..Len(up) : up[i].pkt.nonce # iNextNonce
        /\ \A p \in held : p.nonce # iNextNonce
    BY <2>1
  <2> QED BY <1>1, <2>2 DEF CopiesMean
<1>4. ~Accepted'
  <2>1. Answer' = Answer BY <1>1 DEF Answer
  <2>2. Answer <= iTmpl.nonce /\ iTmpl.nonce = iNextNonce - 1 BY Zenon DEF AckInv, AckTypeOK
  <2>3. Answer \in Int /\ iNextNonce \in Nat
    BY LinkConstants DEF AckInv, AckTypeOK, Answer, AgreementInv, LinkTypeOK
  <2> QED BY <1>1, <2>1, <2>2, <2>3 DEF Accepted
<1>5. ~Spoken'
  <2>1. ~Answered'
    BY <1>4, Zenon DEF AckInv, AckCurrent, Accepted
  <2> QED BY <2>1, Zenon DEF Answered, Spoken
<1>6. CraftFollows' BY <1>4 DEF CraftFollows
<1>7. SelectionKnown' BY <1>1 DEF TogetherInv, SelectionKnown
<1>8. FlagStands' BY <1>5, Zenon DEF FlagStands
<1>9. VideoTold'
  <2>1. ~(iVideoSeen' = TRUE) /\ iVideoSeen' \in BOOLEAN BY <1>2, Zenon
  <2>2. iState' # "verify" BY <1>1
  <2> QED BY <2>1, <2>2, Zenon DEF VideoTold
<1> QED BY <1>3, <1>6, <1>7, <1>8, <1>9, Zenon DEF TogetherInv

\* A DATA frame without the flag is the only one to put such a frame in the ground's queue,
\* and taking the oldest puts none there.
LEMMA QuietFrames ==
  ASSUME down \in Flags
  PROVE  /\ \A flag \in BOOLEAN : down' = Queued(flag) /\ QuietQueued' => QuietQueued \/ flag = FALSE
         /\ down # << >> /\ down' = Tail(down) => /\ QuietQueued' => QuietQueued
                                                  /\ Head(down) = FALSE => QuietQueued
<1>1. ASSUME NEW flag \in BOOLEAN, down' = Queued(flag), QuietQueued'
      PROVE  QuietQueued \/ flag = FALSE
  <2>1. CASE down' = down BY <1>1, <2>1 DEF QuietQueued
  <2>2. CASE down' = Append(down, flag)
    <3>1. /\ Len(down') = Len(down) + 1 /\ Len(down) \in Nat
          /\ \A i \in 1..Len(down) : down'[i] = down[i]
          /\ down'[Len(down) + 1] = flag
      BY <2>2, AppendProperties, LenProperties DEF Flags
    <3>2. \A i \in 1..Len(down') : i \in 1..Len(down) \/ i = Len(down) + 1 BY <3>1
    <3>3. PICK i \in 1..Len(down') : down'[i] = FALSE BY <1>1, Zenon DEF QuietQueued
    <3>4. CASE i \in 1..Len(down)
      <4>1. down[i] = FALSE BY <3>1, <3>3, <3>4, Zenon
      <4> QED BY <3>4, <4>1, Zenon DEF QuietQueued
    <3>5. CASE i = Len(down) + 1 BY <3>1, <3>3, <3>5, Zenon
    <3> QED BY <3>2, <3>4, <3>5
  <2> QED BY <1>1, <2>1, <2>2 DEF Queued
<1>2. ASSUME down # << >>, down' = Tail(down)
      PROVE  (QuietQueued' => QuietQueued) /\ (Head(down) = FALSE => QuietQueued)
  <2>1. /\ Len(down) \in Nat \ {0} /\ Len(down') = Len(down) - 1
        /\ Head(down) = down[1] /\ \A i \in 1..Len(down') : down'[i] = down[i + 1]
    BY <1>2, HeadTailProperties, EmptySeq, LenProperties DEF Flags
  <2>2. \A i \in 1..Len(down') : i + 1 \in 1..Len(down) BY <2>1
  <2>3. 1 \in 1..Len(down) BY <2>1
  <2>4. Head(down) = FALSE => QuietQueued BY <2>1, <2>3, Zenon DEF QuietQueued
  <2>5. ASSUME QuietQueued' PROVE QuietQueued
    <3>1. PICK i \in 1..Len(down') : down'[i] = FALSE BY <2>5, Zenon DEF QuietQueued
    <3>2. i + 1 \in 1..Len(down) BY <2>2
    <3>3. down[i + 1] = FALSE BY <2>1, <3>1, Zenon
    <3> QED BY <3>2, <3>3, Zenon DEF QuietQueued
  <2> QED BY <2>4, <2>5, Zenon
<1> QED BY <1>1, <1>2, Zenon

\* The ground hears a frame of the craft's.
LEMMA HearsTogether ==
  ASSUME AckInv, TogetherInv, GroundHears
  PROVE  TogetherInv'
<1>1. /\ UNCHANGED <<setup, craftFlag, craftChan, fState, fCampaign, fLastApplied, held, up, gVars>>
      /\ INoteCraftFrame(Head(down)) /\ down # << >> /\ down' = Tail(down)
  BY DEF GroundHears, GroundOnly, fVars, heldVars
<1>2. UNCHANGED <<iState, iTmpl>> BY <1>1, Zenon DEF INoteCraftFrame
<1>3. down \in Flags /\ iArmedSeen \in BOOLEAN /\ iVideoSeen \in BOOLEAN
  BY Zenon DEF AckInv, AckTypeOK, TogetherInv, VideoTold
<1>4. /\ Head(down) \in BOOLEAN /\ (FlagQueued' => FlagQueued)
      /\ (Head(down) = TRUE => FlagQueued)
  BY <1>1, <1>3, TakenFlag, Zenon
<1>5. (QuietQueued' => QuietQueued) /\ (Head(down) = FALSE => QuietQueued)
  BY <1>1, <1>3, QuietFrames, Zenon
<1>6. /\ iArmedSeen' = (iArmedSeen \/ (Head(down) /\ iState \in {"announce", "awaitack"}))
      /\ iVideoSeen' = (iVideoSeen \/ VideoProof(Head(down)))
  BY <1>1, Zenon DEF INoteCraftFrame
<1>7. CopiesMean' BY <1>1, <1>2 DEF TogetherInv, CopiesMean
<1>8. CraftFollows' BY <1>1, <1>2 DEF TogetherInv, CraftFollows, Accepted, Answer
<1>9. SelectionKnown' BY <1>1, <1>2 DEF TogetherInv, SelectionKnown, gVars
<1>10. FlagStands'
  <2>1. iArmedSeen' = TRUE => iArmedSeen = TRUE \/ FlagQueued BY <1>3, <1>4, <1>6, Zenon
  <2>2. Spoken' => Spoken BY <1>1, <1>2, <1>4, <2>1, Zenon DEF Spoken
  <2> QED BY <1>1, <2>2, Zenon DEF TogetherInv, FlagStands
<1>11. VideoTold'
  <2>1. iVideoSeen' \in BOOLEAN BY <1>6, Zenon
  <2>2. iVideoSeen' = TRUE => iVideoSeen = TRUE \/ (iState = "verify" /\ Head(down) = FALSE)
    BY <1>3, <1>4, <1>6, Zenon DEF VideoProof
  <2>3. ~("verify" \in {"announce", "awaitack"}) OBVIOUS
  <2> QED BY <1>1, <1>2, <1>5, <2>1, <2>2, <2>3, Zenon DEF TogetherInv, VideoTold
<1> QED BY <1>7, <1>8, <1>9, <1>10, <1>11, Zenon DEF TogetherInv

\* What holds of a copy the craft accepts: it is the current campaign's, which the craft had
\* not answered yet.
LEMMA AcceptsCurrent ==
  ASSUME AgreementInv, AckInv, CraftHears, NEW e, FAccept(Head(up).pkt, e)
  PROVE  /\ up[1].pkt.dt # 0 /\ up[1].pkt.nonce = iTmpl.nonce /\ up[1].pkt \in CsaPacket
         /\ 1 \in 1..Len(up) /\ Head(up) = up[1] /\ Answer' = iTmpl.nonce /\ iTmpl.nonce >= 1
         /\ ~Answered /\ ~Accepted
<1> DEFINE p == Head(up).pkt
<1>1. up # << >> /\ up' = Tail(up) BY DEF CraftHears
<1>3. 1 \in 1..Len(up) /\ Head(up) = up[1] /\ up[1] \in Heard BY <1>1, UpTaken
<1>4. /\ p.dt # 0 /\ p.nonce > fLastApplied[<<p.orig, p.sess>>]
      /\ fLastApplied' = [fLastApplied EXCEPT ![<<p.orig, p.sess>>] = p.nonce]
  BY DEF FAccept, Acceptable, IsBeacon, Fresh, Stream
<1>5. p.nonce = iTmpl.nonce /\ p.orig = Ground /\ p.sess = Session /\ p.nonce >= 1
  BY <1>3, <1>4 DEF AckInv, AckTypeOK, AckCurrent, OfGround
<1>6. p \in CsaPacket /\ p.nonce \in Nat BY <1>3 DEF Heard, CsaPacket
<1>7. /\ fLastApplied \in [Originators \X Sessions -> Int]
      /\ <<Ground, Session>> \in Originators \X Sessions
  BY LinkConstants DEF AckInv, AckTypeOK
<1>8. Answer' = iTmpl.nonce /\ iTmpl.nonce > Answer BY <1>4, <1>5, <1>6, <1>7 DEF Answer
<1>9. Answer \in Int /\ iTmpl.nonce \in Nat BY <1>5, <1>6, <1>7 DEF Answer
<1>10. Answer # iTmpl.nonce BY <1>8, <1>9
<1>11. ~Answered /\ ~Accepted BY <1>10, Zenon DEF AckInv, AckCurrent, Accepted
<1> QED BY <1>3, <1>4, <1>5, <1>6, <1>8, <1>11, Zenon

\* The craft hears a copy or a beacon.
LEMMA CraftHearsTogether ==
  ASSUME AgreementInv, AckInv, TogetherInv, CraftHears
  PROVE  TogetherInv'
<1>1. /\ UNCHANGED <<setup, iVars, gVars, held, craftFlag, craftChan, down>>
      /\ up # << >> /\ up' = Tail(up)
  BY DEF CraftHears, CraftOnly, heldVars
<1>2. UNCHANGED <<iState, iTmpl, iArmedSeen, iVideoSeen>> BY <1>1 DEF iVars
<1>3. \A i \in 1..Len(up') : \E j \in 1..Len(up) : up'[i] = up[j] BY <1>1, UpTaken
<1>4. CopiesMean' BY <1>1, <1>2, <1>3 DEF TogetherInv, CopiesMean
<1>5. SelectionKnown' BY <1>1, <1>2 DEF TogetherInv, SelectionKnown, gVars
<1>6. (FlagQueued' <=> FlagQueued) /\ (QuietQueued' <=> QuietQueued)
  BY <1>1 DEF FlagQueued, QuietQueued
<1>7. Spoken' <=> Spoken BY <1>1, <1>2, <1>6, Zenon DEF Spoken
<1>8. PICK r \in setup.tsf : FOnCsa(Head(up).pkt, Elapsed(r, Head(up).at, Head(up).pkt.dt))
  BY DEF CraftHears
<1> DEFINE e == Elapsed(r, Head(up).at, Head(up).pkt.dt)
<1>9. CASE FAccept(Head(up).pkt, e)
  <2>1. /\ up[1].pkt.nonce = iTmpl.nonce /\ 1 \in 1..Len(up) /\ Head(up) = up[1] /\ ~Answered
    BY <1>9, AcceptsCurrent
  <2>2. up[1].pkt.target = iTmpl.target BY <2>1 DEF TogetherInv, CopiesMean
  <2>3. fState' = "armed" /\ fCampaign' = up[1].pkt BY <1>9, <2>1 DEF FAccept
  <2>4. CraftFollows' BY <1>2, <2>1, <2>2, <2>3 DEF CraftFollows
  <2>5. ~Spoken BY <2>1, Zenon DEF Answered, Spoken
  <2>6. FlagStands' BY <1>7, <2>5, Zenon DEF FlagStands
  <2>7. iState # "verify" BY <2>5, Zenon DEF Spoken
  <2>8. VideoTold' BY <1>2, <2>7, Zenon DEF TogetherInv, VideoTold
  <2> QED BY <1>4, <1>5, <2>4, <2>6, <2>8, Zenon DEF TogetherInv
<1>10. CASE FConfirm(Head(up).pkt) \/ FRefuse(Head(up).pkt)
  <2>1. /\ fState' = fState \/ (fState = "verify" /\ fState' = "committed")
        /\ UNCHANGED <<fCampaign, fLastApplied>>
    BY <1>10 DEF FConfirm, ConfirmsVerify, FRefuse, fVars
  <2>2. CraftFollows' BY <1>1, <1>2, <2>1 DEF TogetherInv, CraftFollows, Accepted, Answer
  <2>3. fState = "committed" => fState' = "committed" BY <2>1
  <2>4. FlagStands' BY <1>1, <1>7, <2>3, Zenon DEF TogetherInv, FlagStands
  <2>5. VideoTold' BY <1>1, <1>2, <1>6, <2>3, Zenon DEF TogetherInv, VideoTold
  <2> QED BY <1>4, <1>5, <2>2, <2>4, <2>5, Zenon DEF TogetherInv
<1> QED BY <1>8, <1>9, <1>10 DEF FOnCsa

\* An accepted campaign stands as long as the craft says so.
LEMMA SpokenAccepted ==
  ASSUME AckInv, Spoken
  PROVE  Accepted
<1>1. Answered BY Zenon DEF Answered, Spoken
<1> QED BY <1>1, Zenon DEF AckInv, AckCurrent, Accepted

\* The craft's own steps: traffic, retune, tick, video and a local move.
LEMMA CraftRunsTogether ==
  ASSUME AckInv, TogetherInv,
         \/ CraftHearsTraffic \/ CraftRetune \/ CraftTick \/ CraftVideo
         \/ \E c \in Channels : CraftLocalRetune(c)
  PROVE  TogetherInv'
<1>1. UNCHANGED <<setup, iVars, gVars, held, up>>
  BY DEF CraftHearsTraffic, CraftRetune, CraftTick, CraftVideo, CraftLocalRetune, FlagAndSend,
         CraftOnly, heldVars
<1>2. UNCHANGED <<iState, iTmpl, iArmedSeen, iVideoSeen>> BY <1>1 DEF iVars
<1>3. CopiesMean' BY <1>1, <1>2 DEF TogetherInv, CopiesMean
<1>4. SelectionKnown' BY <1>1, <1>2 DEF TogetherInv, SelectionKnown, gVars
<1>5. down \in Flags /\ craftFlag \in BOOLEAN /\ iVideoSeen \in BOOLEAN
  BY Zenon DEF AckInv, AckTypeOK, TogetherInv, VideoTold
<1>6. CASE setup.faults
  <2>1. CraftFollows' BY <1>1, <1>6 DEF CraftFollows
  <2>2. FlagStands' BY <1>1, <1>6, Zenon DEF FlagStands
  <2>3. VideoTold' BY <1>1, <1>2, <1>6, Zenon DEF TogetherInv, VideoTold
  <2> QED BY <1>3, <1>4, <2>1, <2>2, <2>3, Zenon DEF TogetherInv
<1>7. CASE ~setup.faults
  <2>l. ~ \E c \in Channels : CraftLocalRetune(c) BY <1>7 DEF CraftLocalRetune
  <2>1. CASE CraftHearsTraffic \/ CraftRetune
    <3>1. /\ UNCHANGED <<fLastApplied, fCampaign, craftFlag, down>>
          /\ \/ UNCHANGED <<fState, craftChan>>
             \/ fState = "verify" /\ fState' = "committed" /\ craftChan' = craftChan
             \/ fState = "armed" /\ fState' = "verify" /\ craftChan' = fCampaign.target
      <4>1. CASE CraftHearsTraffic BY <4>1 DEF CraftHearsTraffic, FNoteValidRx
      <4>2. CASE CraftRetune BY <1>7, <4>2 DEF CraftRetune, FSwitch, SwitchDue
      <4> QED BY <2>1, <4>1, <4>2
    <3>2. CraftFollows' BY <1>1, <1>2, <3>1 DEF TogetherInv, CraftFollows, Accepted, Answer
    <3>3. (FlagQueued' <=> FlagQueued) /\ (QuietQueued' <=> QuietQueued)
      BY <3>1 DEF FlagQueued, QuietQueued
    <3>4. Spoken' <=> Spoken BY <1>2, <3>1, <3>3, Zenon DEF Spoken
    <3>5. fState = "committed" => fState' = "committed" BY <3>1
    <3>6. FlagStands' BY <1>1, <3>1, <3>4, <3>5, Zenon DEF TogetherInv, FlagStands
    <3>7. VideoTold' BY <1>1, <1>2, <3>3, <3>5, Zenon DEF TogetherInv, VideoTold
    <3> QED BY <1>3, <1>4, <3>2, <3>6, <3>7, Zenon DEF TogetherInv
  <2>2. CASE CraftTick \/ CraftVideo
    <3>1. /\ UNCHANGED <<fLastApplied, fCampaign, craftChan>>
          /\ \/ fState' = fState
             \/ fState = "verify" /\ fState' = "committed"
      BY <2>2 DEF CraftTick, CraftVideo, FVerify, FRelease, FQuiet, fVars
    <3>2. CraftFollows' BY <1>1, <1>2, <3>1 DEF TogetherInv, CraftFollows, Accepted, Answer
    <3>3. fState = "committed" => fState' = "committed" BY <3>1
    <3>4. /\ craftFlag' \in BOOLEAN /\ (down' = down \/ down' = Queued(craftFlag'))
          /\ craftFlag' = craftFlag \/ (craftFlag' = (fState' \in {"armed", "verify"}))
      <4>1. CASE CraftTick
        <5>1. craftFlag' = CampaignActive
              /\ (down' = down \/ down' = Queued(CampaignActive))
          BY <4>1, Zenon DEF CraftTick, FlagAndSend, SendData
        <5>3. craftFlag' = (fState' \in {"armed", "verify"}) BY <5>1, Zenon DEF CampaignActive
        <5>2. craftFlag' \in BOOLEAN BY <5>3
        <5>4. down' = down \/ down' = Queued(craftFlag') BY <5>1, Zenon
        <5> QED BY <5>2, <5>3, <5>4, Zenon
      <4>2. CASE CraftVideo BY <1>5, <4>2, Zenon DEF CraftVideo
      <4> QED BY <2>2, <4>1, <4>2
    <3>5. (FlagQueued' => FlagQueued \/ craftFlag' = TRUE)
          /\ (QuietQueued' => QuietQueued \/ craftFlag' = FALSE)
      <4>1. CASE down' = down
        <5>1. (FlagQueued' <=> FlagQueued) /\ (QuietQueued' <=> QuietQueued)
          BY <4>1 DEF FlagQueued, QuietQueued
        <5> QED BY <5>1, Zenon
      <4>2. CASE down' = Queued(craftFlag')
        BY <1>5, <3>4, <4>2, QueuedFlags, QuietFrames, Zenon
      <4> QED BY <3>4, <4>1, <4>2
    <3>6. Spoken' => Spoken \/ craftFlag' = TRUE BY <1>2, <3>5, Zenon DEF Spoken
    <3>7. ASSUME Spoken, ~(craftFlag' = TRUE) PROVE fState' = "committed"
      <4>1. Accepted BY <3>7, SpokenAccepted
      <4>2. fState \in {"armed", "verify", "committed"} BY <1>7, <4>1 DEF TogetherInv, CraftFollows
      <4>3. CASE craftFlag' = craftFlag
        <5>1. fState = "committed" BY <1>7, <3>7, <4>3, Zenon DEF TogetherInv, FlagStands
        <5> QED BY <3>3, <5>1
      <4>4. CASE craftFlag' = (fState' \in {"armed", "verify"})
        <5>1. fState' \notin {"armed", "verify"} BY <3>4, <3>7, <4>4, Zenon
        <5> QED BY <3>1, <4>2, <5>1
      <4> QED BY <3>4, <4>3, <4>4
    <3>8. FlagStands' BY <3>6, <3>7, Zenon DEF FlagStands
    <3>9. VideoTold'
      <4>1. iState = "verify" => Spoken BY Zenon DEF Spoken
      <4>2. ~(TRUE = FALSE) BY Zenon
      <4> QED BY <1>1, <1>2, <3>3, <3>5, <3>7, <4>1, <4>2, Zenon DEF TogetherInv, VideoTold
    <3> QED BY <1>3, <1>4, <3>2, <3>8, <3>9, Zenon DEF TogetherInv
  <2> QED BY <2>l, <2>1, <2>2
<1> QED BY <1>6, <1>7

\* The invariant of the common commit, where campaigns are apart.
LEMMA TogetherInductive == LinkSpec /\ CampaignsApart => []TogetherInv
<1>1. LinkInit => TogetherInv
  <2> SUFFICES ASSUME LinkInit PROVE TogetherInv OBVIOUS
  <2>1. /\ down = << >> /\ up = << >> /\ held = {} /\ iState = "idle"
        /\ fLastApplied = [s \in Originators \X Sessions |-> -1]
        /\ gSel = "configured" /\ gPrevSel = "configured"
    BY DEF LinkInit, IInit, FInit
  <2>2. iVideoSeen = FALSE /\ craftFlag = FALSE BY DEF LinkInit, IInit
  <2>3. Answer = -1 BY <2>1, LinkConstants DEF Answer
  <2>4. ~FlagQueued BY <2>1, NoFlag
  <2>5. ~(craftFlag = TRUE) /\ iVideoSeen \in BOOLEAN BY <2>2, Zenon
  <2>6. iState \notin {"announce", "awaitack", "verify"} BY <2>1
  <2>7. ~Spoken BY <2>4, <2>5, <2>6, Zenon DEF Spoken
  <2>8. FlagStands BY <2>7, Zenon DEF FlagStands
  <2>9. VideoTold BY <2>5, <2>6, Zenon DEF VideoTold
  <2>10. CopiesMean /\ CraftFollows /\ SelectionKnown
    BY <2>1, <2>3 DEF CopiesMean, CraftFollows, Accepted, SelectionKnown
  <2> QED BY <2>8, <2>9, <2>10 DEF TogetherInv
<1>2. /\ AgreementInv /\ ResolveInv /\ AckInv /\ AckInv' /\ CampaignsApart /\ TogetherInv
      /\ [LinkNext]_linkVars
      => TogetherInv'
  <2> SUFFICES ASSUME AgreementInv, ResolveInv, AckInv, AckInv', CampaignsApart, TogetherInv,
                      [LinkNext]_linkVars
               PROVE  TogetherInv'
    OBVIOUS
  <2>1. CASE Advance \/ UNCHANGED linkVars
    <3>1. /\ UNCHANGED <<setup, craftFlag, craftChan, fState, fCampaign, fLastApplied, down,
                         iVars, gVars, held, up>>
      BY <2>1 DEF Advance, linkVars, fVars, heldVars
    <3>2. UNCHANGED <<iState, iTmpl, iArmedSeen, iVideoSeen>> BY <3>1 DEF iVars
    <3>3. CopiesMean' BY <3>1, <3>2 DEF TogetherInv, CopiesMean
    <3>4. SelectionKnown' BY <3>1, <3>2 DEF TogetherInv, SelectionKnown, gVars
    <3> QED BY <3>1, <3>2, <3>3, <3>4, TogetherSteady
  <2>2. CASE LinkNext
    <3>2. CASE Halt BY <2>1, <3>2 DEF Halt
    <3>3. CASE CraftHears BY <3>3, CraftHearsTogether
    <3>4. CASE \/ CraftHearsTraffic \/ CraftRetune \/ CraftTick \/ CraftVideo
               \/ \E c \in Channels : CraftLocalRetune(c)
      BY <3>4, CraftRunsTogether
    <3>5. CASE GroundHears BY <3>5, HearsTogether
    <3>6. CASE GroundRelease \/ GroundSendCopy \/ GroundSendBeacon BY <3>6, SendsTogether
    <3>7. CASE GroundCommit BY <3>7, CommitTogether
    <3>8. CASE GroundQuiet \/ GroundCommitFails \/ GroundAbort \/ GroundClose \/ GroundLatch
      BY <3>8, TicksTogether, LinkConstants
    <3>9. ASSUME NEW c \in Channels, GroundClaim(c) \/ GroundCsa(c) \/ GroundMove(c)
          PROVE  TogetherInv'
      <4>1. CASE GroundMove(c) BY <4>1, TicksTogether
      <4>2. CASE GroundClaim(c) /\ ~IStart(Key, Ground, Session, c) BY <4>2, TicksTogether
      <4>3. CASE GroundClaim(c) /\ IStart(Key, Ground, Session, c) BY <4>3, StartTogether
      <4>4. CASE GroundCsa(c)
        <5>1. IStart(Key, Ground, Session, c) BY <4>4 DEF GroundCsa
        <5> QED BY <4>4, <5>1, StartTogether
      <4> QED BY <3>9, <4>1, <4>2, <4>3, <4>4
    <3> QED BY <2>1, <2>2, <3>2, <3>3, <3>4, <3>5, <3>6, <3>7, <3>8, <3>9 DEF LinkNext
  <2> QED BY <2>1, <2>2
<1> QED BY <1>1, <1>2, AgreementInductive, ResolveInductive, AckInductive, PTL DEF LinkSpec

\* The ground reports a claim committed only together with the craft: in every installation
\* whose campaigns are far enough apart, whatever is lost, late or held, the step of
\* rx_node.cpp that turns a verifying selection into a committed one happens with the craft
\* on the ground's channel and done with that very campaign (csa.cpp note_craft_video: only a
\* frame without the flag, after T_switch, is proof).
THEOREM CommitAlwaysTogether == LinkSpec /\ CampaignsApart => CommittedTogether
<1>1. AckInv /\ TogetherInv /\ [LinkNext]_linkVars =>
        [(~setup.faults /\ gSel = "verifying" /\ gSel' = "committed") =>
           /\ craftChan = groundChan
           /\ fState = "committed" /\ fCampaign.nonce = iTmpl.nonce]_linkVars
  <2> SUFFICES ASSUME AckInv, TogetherInv, LinkNext, ~setup.faults, gSel = "verifying",
                      gSel' = "committed"
               PROVE  /\ craftChan = groundChan
                      /\ fState = "committed" /\ fCampaign.nonce = iTmpl.nonce
    OBVIOUS
  <2>1. iState = "verify" /\ groundChan = iTmpl.target BY DEF TogetherInv, SelectionKnown
  <2>2. GroundClose
    <3>1. ~(CraftHears \/ CraftHearsTraffic \/ CraftRetune \/ CraftTick \/ CraftVideo)
      BY DEF CraftHears, CraftHearsTraffic, CraftRetune, CraftTick, CraftVideo, FlagAndSend,
             CraftOnly, gVars
    <3>2. ~(\E c \in Channels : CraftLocalRetune(c)) BY DEF CraftLocalRetune, CraftOnly, gVars
    <3>3. ~(Advance \/ Halt) BY DEF Advance, Halt, linkVars, gVars
    <3>4. ~(\/ GroundHears \/ GroundRelease \/ GroundSendCopy \/ GroundSendBeacon \/ GroundQuiet)
      BY DEF GroundHears, GroundRelease, GroundSendCopy, GroundSendBeacon, GroundQuiet, gVars
    <3>5. ~(GroundCommit \/ GroundCommitFails \/ GroundAbort \/ GroundLatch)
      BY <2>1 DEF GroundCommit, GroundCommitFails, GroundAbort, GroundLatch, ICommit, CommitDue,
                  IAbort, AbortDue
    <3>6. ~(\E c \in Channels : GroundClaim(c) \/ GroundCsa(c) \/ GroundMove(c))
      BY <2>1 DEF GroundClaim, GroundCsa, GroundMove, Active, IStart, CanStart
    <3> QED BY <3>1, <3>2, <3>3, <3>4, <3>5, <3>6 DEF LinkNext
  <2>3. iVideoSeen = TRUE
    <3>1. ~iVideoSeen => gSel' = "select_failed" BY <2>2 DEF GroundClose
    <3>2. iVideoSeen \in BOOLEAN BY Zenon DEF TogetherInv, VideoTold
    <3>3. iVideoSeen BY <3>1
    <3> QED BY <3>2, <3>3, Zenon
  <2>4. fState = "committed" BY <2>1, <2>3, Zenon DEF TogetherInv, VideoTold
  <2>5. Accepted
    <3>1. Spoken BY <2>1, Zenon DEF Spoken
    <3> QED BY <3>1, SpokenAccepted
  <2>6. fCampaign.nonce = iTmpl.nonce /\ craftChan = iTmpl.target
    BY <2>4, <2>5 DEF TogetherInv, CraftFollows
  <2> QED BY <2>1, <2>4, <2>6
<1> QED BY <1>1, AckInductive, TogetherInductive, PTL DEF LinkSpec, CommittedTogether

-----------------------------------------------------------------------------
(* No interleaving strands the pair *)

\* Nothing failed, nothing was lost, and the loops run on time but for their retunes.
Smooth == ~setup.faults /\ setup.stall = 0 /\ losses = 0
Waiting == iState \in {"announce", "awaitack"}

\* The craft's loop is late only for its own retune.
CraftPrompt == cNext > now + 1 => fState = "verify" /\ fVerifyDeadline = 0

\* A copy the craft may still accept was sent at this instant or the one before, while
\* the ground waits for its answer.
FreshCopy(h) == /\ now <= h.at + 1 /\ cNext <= h.at + 1
                /\ h.at + CopyCutoff < iSwitchAt
CopiesFresh == ~Accepted =>
                 \A i \in 1..Len(up) : up[i].pkt.dt # 0 => Waiting /\ FreshCopy(up[i])

\* A ground that waits for the answer to an accepted campaign has it, has it queued, or the
\* craft gives it in the iteration it is in.
AnswerHere == FlagQueued \/ iArmedSeen = TRUE
Answering == fState = "armed" /\ cNext <= now /\ now < fSwitchAt /\ now < iSwitchAt
AnswerComing == Accepted /\ Waiting => AnswerHere \/ Answering

\* Where the two radios are.
RadiosTogether ==
  /\ ~Accepted => craftChan = groundChan
  /\ Accepted /\ Waiting /\ fState = "armed" => craftChan = groundChan
  /\ Accepted /\ iState = "idle" => groundChan = iTmpl.target
  /\ gIntent \in {"acquire", "retune"}
  /\ ~Waiting \/ gIntent = "retune" => groundChan = gRest
  /\ Waiting /\ gIntent = "acquire" => groundChan = iTmpl.target

Coordinated == CraftPrompt /\ CopiesFresh /\ AnswerComing /\ RadiosTogether
StrandInv == losses \in Nat /\ (Smooth => Coordinated)

\* Losses only grow.
LEMMA LossesGrow ==
  ASSUME losses \in Nat, [LinkNext]_linkVars
  PROVE  setup' = setup /\ losses' \in Nat /\ (losses' = 0 => losses = 0)
<1>1. losses' = losses \/ losses' = losses + 1
  <2>1. CASE \/ Advance \/ Halt \/ CraftHears \/ CraftHearsTraffic \/ CraftRetune \/ CraftVideo
             \/ \E c \in Channels : CraftLocalRetune(c)
    BY <2>1 DEF Advance, Halt, linkVars, CraftHears, CraftHearsTraffic, CraftRetune, CraftVideo,
                CraftLocalRetune
  <2>2. CASE CraftTick BY <2>2 DEF CraftTick, FlagAndSend, SendData, Lose
  <2>3. CASE GroundRelease \/ GroundSendCopy \/ GroundSendBeacon
    BY <2>3 DEF GroundRelease, GroundSendCopy, GroundSendBeacon, Transmit, Lose
  <2>4. CASE \/ GroundHears \/ GroundQuiet \/ GroundCommit \/ GroundCommitFails \/ GroundAbort
             \/ GroundClose \/ GroundLatch
             \/ \E c \in Channels : GroundClaim(c) \/ GroundCsa(c) \/ GroundMove(c)
    BY <2>4 DEF GroundHears, GroundQuiet, GroundCommit, GroundCommitFails, GroundAbort, GroundClose,
                GroundLatch, GroundClaim, GroundCsa, GroundMove
  <2>5. CASE UNCHANGED linkVars BY <2>5 DEF linkVars
  <2> QED BY <2>1, <2>2, <2>3, <2>4, <2>5 DEF LinkNext
<1>2. setup' = setup
  BY DEF LinkNext, linkVars, Halt, Advance, CraftHears, CraftHearsTraffic, CraftRetune,
         CraftTick, CraftVideo, CraftLocalRetune, CraftOnly, FlagAndSend, GroundHears,
         GroundRelease, GroundSendCopy, GroundSendBeacon, GroundQuiet, GroundCommit,
         GroundCommitFails, GroundAbort, GroundClose, GroundClaim, GroundCsa,
         GroundMove, GroundLatch, GroundOnly
<1> QED BY <1>1, <1>2

\* What is true of the numbers involved.
LEMMA StrandNumbers ==
  ASSUME AgreementInv, ResolveInv, AckInv
  PROVE  /\ now \in Nat /\ cNext \in Nat /\ iSwitchAt \in Nat /\ fSwitchAt \in Int
         /\ CopyCutoff \in Nat \ {0} /\ RetuneTime \in Nat /\ Answer \in Int
         /\ iState \in IStates
         /\ \A i \in 1..Len(up) : up[i].at \in Nat /\ up[i] \in Heard
<1>1. \A i \in 1..Len(up) : up[i] \in Heard BY ElementOfSeq DEF AgreementInv, LinkTypeOK
<1>2. \A i \in 1..Len(up) : up[i].at \in Nat BY <1>1 DEF Heard
<1>3. Answer \in Int BY LinkConstants DEF AckInv, AckTypeOK, Answer
<1> QED BY <1>1, <1>2, <1>3, LinkConstants, IssuerConstants
        DEF AgreementInv, LinkTypeOK, ResolveInv, ResolveTypeOK

\* A craft in a campaign accepted it, and so did one the ground commits with.
LEMMA InCampaignAccepted ==
  ASSUME AckInv, fState \in {"armed", "verify"} \/ iState = "verify"
  PROVE  Accepted
<1>1. Answered BY Zenon DEF Answered
<1> QED BY <1>1, Zenon DEF AckInv, AckCurrent, Accepted

\* Copies that stay in the queue stay fresh while neither the clock nor the campaign moves.
LEMMA CopiesStay ==
  ASSUME CopiesFresh, UNCHANGED <<now, cNext, iSwitchAt>>, Accepted => Accepted', Waiting => Waiting',
         \A i \in 1..Len(up') : \E j \in 1..Len(up) : up'[i] = up[j]
  PROVE  CopiesFresh'
<1> SUFFICES ASSUME ~Accepted', NEW i \in 1..Len(up'), up'[i].pkt.dt # 0
             PROVE  Waiting' /\ FreshCopy(up[i])'
  BY DEF CopiesFresh
<1>1. PICK j \in 1..Len(up) : up'[i] = up[j] OBVIOUS
<1>2. Waiting /\ FreshCopy(up[j]) BY <1>1 DEF CopiesFresh
<1> QED BY <1>1, <1>2 DEF FreshCopy

\* Steps that move no radio and no clock.
LEMMA CoordinatedSteady ==
  ASSUME Coordinated, CopiesFresh',
         UNCHANGED <<now, cNext, fState, fVerifyDeadline, fSwitchAt, fLastApplied, craftChan,
                     groundChan, gIntent, gRest, iTmpl, iSwitchAt>>,
         Waiting /\ AnswerHere => AnswerHere',
         iState' = iState \/ (iState = "announce" /\ iState' = "awaitack")
  PROVE  Coordinated'
<1>1. (Accepted' <=> Accepted) /\ (Waiting' <=> Waiting) /\ (Answering' <=> Answering)
  BY DEF Accepted, Answer, Waiting, Answering
<1>2. CraftPrompt' BY DEF Coordinated, CraftPrompt
<1>3. AnswerComing' BY <1>1, Zenon DEF Coordinated, AnswerComing
<1>4. iState' = "idle" <=> iState = "idle" OBVIOUS
<1>5. RadiosTogether' BY <1>1, <1>4 DEF Coordinated, RadiosTogether
<1> QED BY <1>2, <1>3, <1>5, Zenon DEF Coordinated

\* A transmitted copy is fresh.
LEMMA SentFresh ==
  ASSUME AgreementInv, ResolveInv, AckInv, Coordinated, NEW p \in CsaPacket, Transmit(p),
         UNCHANGED <<now, cNext, fLastApplied, iTmpl, iSwitchAt>>, Waiting => Waiting',
         p.dt # 0 => CopyWindowOpen /\ Active
  PROVE  CopiesFresh'
<1> SUFFICES ASSUME ~Accepted', NEW i \in 1..Len(up'), up'[i].pkt.dt # 0
             PROVE  Waiting' /\ FreshCopy(up[i])'
  BY DEF CopiesFresh
<1>n. now \in Nat /\ cNext \in Nat /\ iSwitchAt \in Nat /\ CopyCutoff \in Nat /\ iState \in IStates
  BY StrandNumbers
<1>1. ~Accepted BY DEF Accepted, Answer
<1>2. \/ \E j \in 1..Len(up) : up'[i] = up[j]
      \/ up'[i].pkt = p /\ up'[i].at = now
  BY UpSent
<1>3. CASE \E j \in 1..Len(up) : up'[i] = up[j]
  <2>1. PICK j \in 1..Len(up) : up'[i] = up[j] BY <1>3
  <2>2. Waiting /\ FreshCopy(up[j]) BY <1>1, <2>1 DEF Coordinated, CopiesFresh
  <2> QED BY <2>1, <2>2 DEF FreshCopy
<1>4. CASE up'[i].pkt = p /\ up'[i].at = now
  <2>1. CopyWindowOpen /\ Active BY <1>4
  <2>2. iState # "verify" /\ fState # "verify" BY <1>1, InCampaignAccepted
  <2>3. Waiting BY <1>n, <2>1, <2>2 DEF Waiting, Active, IStates
  <2>4. cNext <= now + 1 BY <1>n, <2>2 DEF Coordinated, CraftPrompt
  <2>5. now + CopyCutoff < iSwitchAt BY <1>n, <2>1 DEF CopyWindowOpen
  <2> QED BY <1>4, <1>n, <2>3, <2>4, <2>5 DEF FreshCopy
<1> QED BY <1>2, <1>3, <1>4

\* Copies and beacons on the air.
LEMMA SendsCoordinated ==
  ASSUME AgreementInv, ResolveInv, AckInv, Coordinated,
         GroundRelease \/ GroundSendCopy \/ GroundSendBeacon
  PROVE  Coordinated'
<1>1. UNCHANGED <<now, cNext, fState, fVerifyDeadline, fSwitchAt, fLastApplied, craftChan, gVars,
                  iTmpl, iSwitchAt, down, iArmedSeen>>
  BY DEF GroundRelease, GroundSendCopy, GroundSendBeacon, GroundOnly, fVars, iVars, ISendCopy,
         ISendBeacon, Stay
<1>2. iState' = iState \/ (iState = "announce" /\ iState' = "awaitack")
  <2>1. CASE GroundSendCopy
    <3>1. /\ iState \in {"announce", "awaitack"}
          /\ iState' = IF iCopiesLeft' = 0 THEN "awaitack" ELSE iState
      BY <2>1 DEF GroundSendCopy, ISendCopy, AnnounceDue, RepeatDue
    <3> QED BY <3>1
  <2>2. CASE GroundRelease \/ GroundSendBeacon
    BY <2>2 DEF GroundRelease, GroundSendBeacon, iVars, ISendBeacon
  <2> QED BY <2>1, <2>2
<1>3. (Accepted => Accepted') /\ (Waiting => Waiting')
  BY <1>1, <1>2 DEF Accepted, Answer, Waiting
<1>4. AnswerHere => AnswerHere'
  <2>1. FlagQueued' <=> FlagQueued BY <1>1 DEF FlagQueued
  <2> QED BY <1>1, <2>1, Zenon DEF AnswerHere
<1>5. CopiesFresh /\ LinkTypeOK BY DEF Coordinated, AgreementInv
<1>6. CopiesFresh'
  <2>1. CASE up' = up BY <1>1, <1>3, <1>5, <2>1, CopiesStay
  <2>2. CASE GroundRelease
    <3>1. PICK p \in held : IF CanRestamp(p) THEN Transmit(RestampCopy(p))
                            ELSE UNCHANGED <<up, losses>>
      BY <2>2 DEF GroundRelease
    <3>2. CASE CanRestamp(p)
      <4>1. /\ p \in CsaPacket /\ CopyWindowOpen /\ Active /\ Transmit(StampCopy(p))
        BY <1>5, <3>1, <3>2 DEF LinkTypeOK, CanRestamp, RestampCopy
      <4>2. StampCopy(p) \in CsaPacket BY <1>5, <4>1, StampDates
      <4> QED BY <1>1, <1>3, <4>1, <4>2, SentFresh
    <3> QED BY <2>1, <3>1, <3>2
  <2>3. CASE GroundSendCopy
    <3>1. /\ iTmpl \in CsaPacket /\ CopyWindowOpen /\ Active
          /\ up' = up \/ Transmit(StampCopy(iTmpl))
      BY <1>5, <2>3 DEF GroundSendCopy, ISendCopy, AnnounceDue, RepeatDue, Active, LinkTypeOK
    <3>2. StampCopy(iTmpl) \in CsaPacket BY <1>5, <3>1, StampDates
    <3> QED BY <1>1, <1>3, <2>1, <3>1, <3>2, SentFresh
  <2>4. CASE GroundSendBeacon
    <3>1. iTmpl \in CsaPacket /\ iPsk \in Keys \cup {NoKey} /\ Transmit(Beacon)
      BY <1>5, <2>4 DEF GroundSendBeacon, ISendBeacon, Active, LinkTypeOK
    <3>2. Beacon \in CsaPacket /\ Beacon.dt = 0 BY <3>1 DEF Beacon, CsaPacket
    <3> QED BY <1>1, <1>3, <3>1, <3>2, SentFresh
  <2> QED BY <2>2, <2>3, <2>4
<1> QED BY <1>1, <1>2, <1>4, <1>6, CoordinatedSteady DEF gVars

\* A flag the ground takes is an answer, or was not one.
LEMMA TakenAnswer ==
  ASSUME down \in Flags, down # << >>, down' = Tail(down)
  PROVE  FlagQueued => FlagQueued' \/ Head(down) = TRUE
<1>1. /\ Len(down) \in Nat \ {0} /\ Len(down') = Len(down) - 1
      /\ Head(down) = down[1] /\ \A i \in 1..Len(down') : down'[i] = down[i + 1]
  BY HeadTailProperties, EmptySeq, LenProperties DEF Flags
<1>2. \A i \in 1..Len(down) : i # 1 => i - 1 \in 1..Len(down') /\ (i - 1) + 1 = i BY <1>1
<1> SUFFICES ASSUME FlagQueued, ~(Head(down) = TRUE) PROVE FlagQueued' BY Zenon
<1>3. PICK i \in 1..Len(down) : down[i] = TRUE BY Zenon DEF FlagQueued
<1>4. i # 1 BY <1>1, <1>3, Zenon
<1>5. i - 1 \in 1..Len(down') /\ (i - 1) + 1 = i BY <1>2, <1>4, Zenon
<1>6. down'[i - 1] = TRUE BY <1>1, <1>3, <1>5, Zenon
<1> QED BY <1>5, <1>6, Zenon DEF FlagQueued

\* The ground hears a frame of the craft's, ticks without an edge, or latches.
LEMMA HearsCoordinated ==
  ASSUME AckInv, Coordinated, GroundHears \/ GroundQuiet \/ GroundLatch
  PROVE  Coordinated'
<1>1. UNCHANGED <<now, cNext, fState, fVerifyDeadline, fSwitchAt, fLastApplied, craftChan,
                  groundChan, gIntent, gRest, iTmpl, iSwitchAt, up>>
  BY DEF GroundHears, GroundQuiet, GroundLatch, GroundOnly, fVars, iVars, gVars, INoteCraftFrame,
         ICloseWindow, IQuiet, Stay
<1>2. iState' = iState \/ (iState = "announce" /\ iState' = "awaitack")
  BY DEF GroundHears, GroundQuiet, GroundLatch, iVars, INoteCraftFrame, ICloseWindow, WindowCloses,
         IQuiet
<1>3. Waiting /\ AnswerHere => AnswerHere'
  <2>1. CASE GroundQuiet \/ GroundLatch
    <3>1. UNCHANGED <<down, iArmedSeen>>
      BY <2>1 DEF GroundQuiet, GroundLatch, iVars, ICloseWindow, IQuiet, Stay
    <3>2. FlagQueued' <=> FlagQueued BY <3>1 DEF FlagQueued
    <3> QED BY <3>1, <3>2, Zenon DEF AnswerHere
  <2>2. CASE GroundHears /\ Waiting
    <3>1. /\ down # << >> /\ down' = Tail(down)
          /\ iArmedSeen' = (iArmedSeen \/ (Head(down) /\ iState \in {"announce", "awaitack"}))
      BY <2>2, Zenon DEF GroundHears, INoteCraftFrame
    <3>2. down \in Flags /\ iArmedSeen \in BOOLEAN BY Zenon DEF AckInv, AckTypeOK
    <3>3. Head(down) = TRUE => iArmedSeen' = TRUE BY <2>2, <3>1, Zenon DEF Waiting
    <3>4. iArmedSeen = TRUE => iArmedSeen' = TRUE BY <3>1, Zenon
    <3>5. FlagQueued => FlagQueued' \/ Head(down) = TRUE BY <3>1, <3>2, TakenAnswer, Zenon
    <3> QED BY <3>3, <3>4, <3>5, Zenon DEF AnswerHere
  <2> QED BY <2>1, <2>2
<1>4. CopiesFresh'
  <2>1. (Accepted => Accepted') /\ (Waiting => Waiting')
    BY <1>1, <1>2 DEF Accepted, Answer, Waiting
  <2> QED BY <1>1, <2>1, CopiesStay DEF Coordinated
<1> QED BY <1>1, <1>2, <1>3, <1>4, CoordinatedSteady

\* The ground commits, with the craft's answer in hand, or closes the campaign.
LEMMA ClosesCoordinated ==
  ASSUME AckInv, TogetherInv, Coordinated, GroundCommit \/ GroundClose
  PROVE  Coordinated'
<1>1. /\ UNCHANGED <<now, cNext, fState, fVerifyDeadline, fLastApplied, gIntent, iTmpl>>
      /\ iState' \in {"verify", "idle"}
  BY DEF GroundCommit, GroundClose, GroundOnly, fVars, ICommit, ISuccess, Stay
<1>2. groundChan' = iTmpl.target /\ groundChan' = gRest'
  BY DEF GroundCommit, GroundClose, ISuccess, TogetherInv, SelectionKnown, Coordinated,
         RadiosTogether, Waiting
<1>3. Accepted
  <2>1. CASE GroundClose BY <2>1, InCampaignAccepted DEF GroundClose, ISuccess
  <2>2. CASE GroundCommit
    <3>1. iArmedSeen /\ iState = "awaitack" BY <2>2, Zenon DEF GroundCommit, ICommit, CommitDue
    <3>2. iArmedSeen = TRUE BY <3>1, Zenon DEF AckInv, AckTypeOK
    <3>3. Answered BY <3>1, <3>2, Zenon DEF Answered
    <3> QED BY <3>3, Zenon DEF AckInv, AckCurrent, Accepted
  <2> QED BY <2>1, <2>2
<1>4. Accepted' /\ ~Waiting' BY <1>1, <1>3 DEF Accepted, Answer, Waiting
<1>5. CraftPrompt' BY <1>1 DEF Coordinated, CraftPrompt
<1>6. RadiosTogether' BY <1>1, <1>2, <1>4 DEF Coordinated, RadiosTogether
<1> QED BY <1>4, <1>5, <1>6, Zenon DEF Coordinated, CopiesFresh, AnswerComing

\* The ground gives up: the craft cannot have accepted, and no copy is on its way.
LEMMA AbortCoordinated ==
  ASSUME AgreementInv, ResolveInv, AckInv, Coordinated, GroundAbort
  PROVE  Coordinated'
<1>n. /\ now \in Nat /\ cNext \in Nat /\ iSwitchAt \in Nat /\ CopyCutoff \in Nat \ {0}
      /\ \A i \in 1..Len(up) : up[i].at \in Nat
  BY StrandNumbers
<1>1. /\ UNCHANGED <<now, cNext, fState, fVerifyDeadline, fLastApplied, craftChan, gIntent, iTmpl, up>>
      /\ Waiting /\ iState' = "idle" /\ down = << >> /\ now >= iSwitchAt
  BY DEF GroundAbort, GroundReady, GroundOnly, fVars, IAbort, AbortDue, Stay, Waiting
<1>2. ~(iArmedSeen = TRUE) BY Zenon DEF GroundAbort, IAbort, AbortDue
<1>3. ~Accepted
  <2>1. ~FlagQueued BY <1>1, NoFlag
  <2>2. ~Answering BY <1>1, <1>n DEF Answering
  <2> QED BY <1>1, <1>2, <2>1, <2>2, Zenon DEF Coordinated, AnswerComing, AnswerHere
<1>4. ~Accepted' /\ ~Waiting' BY <1>1, <1>3 DEF Accepted, Answer, Waiting
<1>5. CraftPrompt' BY <1>1 DEF Coordinated, CraftPrompt
<1>6. \A i \in 1..Len(up') : up'[i].pkt.dt = 0
  <2> SUFFICES ASSUME NEW i \in 1..Len(up), up[i].pkt.dt # 0 PROVE FALSE BY <1>1
  <2>1. now <= up[i].at + 1 /\ up[i].at + CopyCutoff < iSwitchAt
    BY <1>3 DEF Coordinated, CopiesFresh, FreshCopy
  <2>2. up[i].at \in Nat BY <1>n
  <2> QED BY <1>1, <1>n, <2>1, <2>2
<1>7. groundChan' = groundChan /\ groundChan' = gRest'
  BY <1>1 DEF GroundAbort, Coordinated, RadiosTogether
<1>8. RadiosTogether' BY <1>1, <1>3, <1>4, <1>7 DEF Coordinated, RadiosTogether
<1> QED BY <1>4, <1>5, <1>6, <1>8 DEF Coordinated, CopiesFresh, AnswerComing

\* A claim the issuer refuses leaves the ears where they rest.
LEMMA RefusedCoordinated ==
  ASSUME AckInv, Coordinated, NEW c \in Channels, GroundClaim(c),
         ~IStart(Key, Ground, Session, c)
  PROVE  Coordinated'
<1>1. /\ UNCHANGED <<now, cNext, fState, fVerifyDeadline, fSwitchAt, fLastApplied, craftChan,
                     gIntent, gRest, iTmpl, iSwitchAt, up, iState, down, iArmedSeen>>
      /\ groundChan' = gRest /\ iState = "idle"
  BY DEF GroundClaim, GroundOnly, fVars, Active
<1>2. groundChan' = groundChan BY <1>1 DEF Coordinated, RadiosTogether, Waiting
<1>3. (Accepted => Accepted') /\ (Waiting => Waiting') BY <1>1 DEF Accepted, Answer, Waiting
<1>4. CopiesFresh' BY <1>1, <1>3, CopiesStay DEF Coordinated
<1>5. ~Waiting BY <1>1 DEF Waiting
<1> QED BY <1>1, <1>2, <1>4, <1>5, CoordinatedSteady

\* A campaign starts with the pair together.
LEMMA StartCoordinated ==
  ASSUME AgreementInv, ResolveInv, AckInv, TogetherInv, CampaignsApart, Smooth, Coordinated,
         NEW c \in Channels, GroundClaim(c) \/ GroundCsa(c), IStart(Key, Ground, Session, c)
  PROVE  Coordinated'
<1>1. /\ UNCHANGED <<now, cNext, fState, fVerifyDeadline, fLastApplied, craftChan, up, gRest>>
      /\ iState = "idle" /\ iState' = "announce" /\ iTmpl'.nonce = iNextNonce
      /\ iTmpl'.target = c /\ MayStart /\ Serves
      /\ \/ groundChan' = c /\ gIntent' = "acquire" /\ craftChan = c
         \/ groundChan' = groundChan /\ gIntent' = "retune"
  <2>1. /\ iState = "idle" /\ iState' = "announce" /\ iTmpl'.nonce = iNextNonce
        /\ iTmpl'.target = c
    BY DEF IStart, CanStart, Active
  <2>2. CASE GroundCsa(c) BY <2>1, <2>2 DEF GroundCsa, GroundOnly, fVars
  <2>3. CASE GroundClaim(c)
    <3>1. iNextNonce' # iNextNonce BY DEF IStart, AgreementInv, LinkTypeOK
    <3> QED BY <2>1, <2>3, <3>1 DEF GroundClaim, GroundOnly, fVars, Smooth
  <2> QED BY <2>2, <2>3
<1>2. ~Answered /\ \A i \in 1..Len(up) : up[i].pkt.dt = 0
  <2>1. ~Active /\ (iLastCampaign = 0 \/ now - iLastCampaign >= MinInterval * Ms)
    BY DEF IStart, CanStart
  <2>2. GroundRuns /\ gHandled # TRUE BY <1>1, Zenon DEF Serves
  <2> QED BY <1>1, <2>1, <2>2, StartsClean
<1>3. ~Accepted'
  <2>1. Answer' = Answer BY <1>1 DEF Answer
  <2>2. Answer <= iTmpl.nonce /\ iTmpl.nonce = iNextNonce - 1 BY Zenon DEF AckInv, AckTypeOK
  <2>3. Answer \in Int /\ iNextNonce \in Nat
    BY StrandNumbers DEF AgreementInv, LinkTypeOK
  <2> QED BY <1>1, <2>1, <2>2, <2>3 DEF Accepted
<1>4. CraftPrompt' BY <1>1 DEF Coordinated, CraftPrompt
<1>5. groundChan = gRest BY <1>1 DEF Coordinated, RadiosTogether, Waiting
<1>6. craftChan = groundChan
  <2>1. CASE ~Accepted BY <2>1 DEF Coordinated, RadiosTogether
  <2>2. CASE Accepted
    <3>1. fState \notin {"armed", "verify"} BY <1>2, Zenon DEF Answered
    <3>2. craftChan = iTmpl.target BY <2>2, <3>1 DEF Smooth, TogetherInv, CraftFollows
    <3> QED BY <1>1, <2>2, <3>2 DEF Coordinated, RadiosTogether
  <2> QED BY <2>1, <2>2
<1>7. RadiosTogether' BY <1>1, <1>3, <1>5, <1>6 DEF RadiosTogether, Waiting
<1> QED BY <1>1, <1>2, <1>3, <1>4, <1>7 DEF Coordinated, CopiesFresh, AnswerComing

\* A copy sent in the copy window leaves the craft an iteration to answer in.
LEMMA AcceptedAhead ==
  ASSUME AgreementInv, ResolveInv, AckInv, NEW i \in 1..Len(up), NEW r \in setup.tsf,
         up[i].pkt.dt # 0, up[i].pkt.nonce = iTmpl.nonce, ~setup.faults, now <= up[i].at + 1
  PROVE  now < SwitchInstant(up[i].pkt, Elapsed(r, up[i].at, up[i].pkt.dt))
<1> DEFINE dt == up[i].pkt.dt
           w == dt * Ms
           at == up[i].at
           e == Elapsed(r, at, dt)
           s == SwitchInstant(up[i].pkt, e)
<1>1. up[i] \in Heard BY ElementOfSeq DEF AgreementInv, LinkTypeOK
<1>2. dt \in Nat \ {0} /\ at \in Nat /\ Ms \in Nat \ {0} /\ now \in Nat
  BY <1>1, CsaConstants DEF Heard, CsaPacket, AgreementInv, LinkTypeOK
<1>3. w \in Nat BY <1>2, MulNat
<1>4. dt >= ShortestDt BY DEF AgreementInv, CopiesDated, DatedCopy
<1>5. at <= now BY DEF AgreementInv, LookedAtSoon
<1>6. w >= 2
  <2>1. CASE Ms = 1
    <3>1. ShortestDt = CopyCutoff + 1 BY <2>1, IssuerConstants DEF ShortestDt
    <3>2. dt >= 2 BY <1>2, <1>4, <3>1, IssuerConstants
    <3>3. w = dt BY <1>2, <2>1
    <3> QED BY <3>2, <3>3
  <2>2. CASE Ms >= 2
    <3>1. 1 * Ms <= dt * Ms BY <1>2, MulMono
    <3>2. 1 * Ms = Ms BY <1>2
    <3> HIDE DEF dt
    <3> QED BY <1>2, <1>3, <2>2, <3>1, <3>2
  <2> QED BY <1>2, <2>1, <2>2
<1>7. r \in {"good", "none", "garbage"} BY DEF AgreementInv, LinkTypeOK, Setup
<1>8. s = now + w - (IF e > w THEN 0 ELSE e) BY DEF SwitchInstant
<1>9. e = now - at \/ e = 0 \/ e = w + 1 BY <1>7 DEF Elapsed
<1>a. now <= at + 1 OBVIOUS
<1> HIDE DEF w, at, e, s
<1>10. now < s BY <1>2, <1>3, <1>5, <1>6, <1>8, <1>9, <1>a
<1> QED BY <1>10 DEF s, e, at, dt

\* The craft hears a copy or a beacon.
LEMMA CraftHearsCoordinated ==
  ASSUME AgreementInv, ResolveInv, AckInv, TogetherInv, Smooth, Coordinated, CraftHears
  PROVE  Coordinated'
<1>n. /\ now \in Nat /\ cNext \in Nat /\ iSwitchAt \in Nat /\ CopyCutoff \in Nat \ {0}
      /\ \A i \in 1..Len(up) : up[i].at \in Nat
  BY StrandNumbers
<1>1. /\ UNCHANGED <<now, setup, cNext, iVars, gVars, craftChan, down>>
      /\ up # << >> /\ up' = Tail(up) /\ cNext <= now
  BY DEF CraftHears, CraftOnly, CraftRuns
<1>2. UNCHANGED <<iState, iTmpl, iArmedSeen, iSwitchAt>> BY <1>1 DEF iVars
<1>3. \A i \in 1..Len(up') : \E j \in 1..Len(up) : up'[i] = up[j] BY <1>1, UpTaken
<1>4. CraftPrompt' BY <1>1, <1>n DEF CraftPrompt
<1>5. AnswerHere' <=> AnswerHere
  <2>1. FlagQueued' <=> FlagQueued BY <1>1 DEF FlagQueued
  <2> QED BY <1>2, <2>1, Zenon DEF AnswerHere
<1>6. Waiting' <=> Waiting BY <1>2 DEF Waiting
<1>7. PICK r \in setup.tsf : FOnCsa(Head(up).pkt, Elapsed(r, Head(up).at, Head(up).pkt.dt))
  BY DEF CraftHears
<1> DEFINE e == Elapsed(r, Head(up).at, Head(up).pkt.dt)
<1>8. CASE FAccept(Head(up).pkt, e)
  <2>1. /\ up[1].pkt.dt # 0 /\ up[1].pkt.nonce = iTmpl.nonce /\ 1 \in 1..Len(up)
        /\ Head(up) = up[1] /\ Answer' = iTmpl.nonce /\ iTmpl.nonce >= 1 /\ ~Accepted
    BY <1>8, AcceptsCurrent
  <2>2. Accepted' BY <1>2, <2>1 DEF Accepted
  <2>3. Waiting /\ now <= up[1].at + 1 /\ up[1].at + CopyCutoff < iSwitchAt
    BY <2>1 DEF Coordinated, CopiesFresh, FreshCopy
  <2>4. fState' = "armed" /\ fSwitchAt' = SwitchInstant(up[1].pkt, Elapsed(r, up[1].at, up[1].pkt.dt))
    BY <1>8, <2>1 DEF FAccept
  <2>5. now < fSwitchAt' BY <2>1, <2>3, <2>4, AcceptedAhead DEF Smooth
  <2>6. up[1].at \in Nat BY <1>n, <2>1
  <2>7. now < iSwitchAt BY <1>n, <2>3, <2>6
  <2>8. Answering' BY <1>1, <1>2, <2>4, <2>5, <2>7 DEF Answering
  <2>9. RadiosTogether'
    <3>1. craftChan = groundChan BY <2>1 DEF Coordinated, RadiosTogether
    <3>2. iState # "idle" BY <2>3 DEF Waiting
    <3> QED BY <1>1, <1>2, <1>6, <2>2, <3>1, <3>2 DEF Coordinated, RadiosTogether, gVars
  <2> QED BY <1>4, <2>2, <2>8, <2>9, Zenon DEF Coordinated, CopiesFresh, AnswerComing
<1>9. CASE FConfirm(Head(up).pkt) \/ FRefuse(Head(up).pkt)
  <2>1. /\ fState' = fState \/ (fState = "verify" /\ fState' = "committed")
        /\ UNCHANGED <<fLastApplied, fSwitchAt>>
    BY <1>9 DEF FConfirm, ConfirmsVerify, FRefuse, fVars
  <2>2. Accepted' <=> Accepted BY <1>2, <2>1 DEF Accepted, Answer
  <2>3. CopiesFresh' BY <1>1, <1>2, <1>3, <1>6, <2>2, CopiesStay DEF Coordinated
  <2>4. Answering => Answering' BY <1>1, <1>2, <2>1 DEF Answering
  <2>5. AnswerComing' BY <1>5, <1>6, <2>2, <2>4, Zenon DEF Coordinated, AnswerComing
  <2>6. RadiosTogether'
    BY <1>1, <1>2, <1>6, <2>1, <2>2 DEF Coordinated, RadiosTogether, gVars
  <2> QED BY <1>4, <2>3, <2>5, <2>6, Zenon DEF Coordinated
<1> QED BY <1>7, <1>8, <1>9 DEF FOnCsa

\* A frame sent under the flag puts it in the queue, and leaves it there.
LEMMA FlagSent ==
  ASSUME down \in Flags, NEW flag \in BOOLEAN, down' = Queued(flag)
  PROVE  FlagQueued \/ flag = TRUE => FlagQueued'
<1>1. Len(down) \in Nat /\ (down # << >> => Len(down) \in 1..Len(down))
  BY EmptySeq, LenProperties DEF Flags
<1>2. CASE down' = Append(down, flag)
  <2>1. /\ Len(down') = Len(down) + 1
        /\ \A i \in 1..Len(down) : down'[i] = down[i]
        /\ down'[Len(down) + 1] = flag
    BY <1>2, AppendProperties, LenProperties DEF Flags
  <2>2. /\ \A i \in 1..Len(down) : i \in 1..Len(down')
        /\ Len(down) + 1 \in 1..Len(down')
    BY <1>1, <2>1
  <2>3. flag = TRUE => FlagQueued' BY <2>1, <2>2, Zenon DEF FlagQueued
  <2>4. ASSUME FlagQueued PROVE FlagQueued'
    <3>1. PICK i \in 1..Len(down) : down[i] = TRUE BY <2>4, Zenon DEF FlagQueued
    <3>2. down'[i] = TRUE /\ i \in 1..Len(down') BY <2>1, <2>2, <3>1, Zenon
    <3> QED BY <3>2, Zenon DEF FlagQueued
  <2> QED BY <2>3, <2>4, Zenon
<1>3. CASE down' = down /\ down # << >> /\ down[Len(down)] = flag
  <2>1. FlagQueued' <=> FlagQueued BY <1>3 DEF FlagQueued
  <2>2. flag = TRUE => FlagQueued BY <1>1, <1>3, Zenon DEF FlagQueued
  <2> QED BY <2>1, <2>2, Zenon
<1> QED BY <1>2, <1>3 DEF Queued

\* The craft hears traffic, retunes, or sends a further frame.
LEMMA CraftRunsCoordinated ==
  ASSUME AgreementInv, ResolveInv, AckInv, Smooth, Coordinated,
         CraftHearsTraffic \/ CraftRetune \/ CraftVideo
  PROVE  Coordinated'
<1>n. now \in Nat /\ cNext \in Nat /\ fSwitchAt \in Int /\ RetuneTime \in Nat BY StrandNumbers
<1>1. /\ UNCHANGED <<now, iVars, gVars, up, fLastApplied, fSwitchAt>> /\ cNext <= now
  BY DEF CraftHearsTraffic, CraftRetune, CraftVideo, CraftOnly, CraftRuns, FNoteValidRx, FSwitch, fVars
<1>2. UNCHANGED <<iState, iTmpl, iArmedSeen, iSwitchAt>> BY <1>1 DEF iVars
<1>3. (Accepted' <=> Accepted) /\ (Waiting' <=> Waiting)
  BY <1>1, <1>2 DEF Accepted, Answer, Waiting
<1>4. AnswerHere => AnswerHere'
  <2>1. CASE down' = down
    <3>1. FlagQueued' <=> FlagQueued BY <2>1 DEF FlagQueued
    <3> QED BY <1>2, <3>1, Zenon DEF AnswerHere
  <2>2. CASE CraftVideo
    <3>1. down \in Flags /\ craftFlag \in BOOLEAN /\ down' = Queued(craftFlag)
      BY <2>2, Zenon DEF AckInv, AckTypeOK, CraftVideo
    <3>2. FlagQueued => FlagQueued' BY <3>1, FlagSent, Zenon
    <3> QED BY <1>2, <3>2, Zenon DEF AnswerHere
  <2> QED BY <2>1, <2>2 DEF CraftHearsTraffic, CraftRetune
<1>5. CASE CraftRetune
  <2>1. /\ fState = "armed" /\ now >= fSwitchAt /\ fState' = "verify" /\ fVerifyDeadline' = 0
        /\ up = << >>
    BY <1>5 DEF CraftRetune, FSwitch, SwitchDue
  <2>2. Accepted BY <2>1, InCampaignAccepted
  <2>3. ~Answering BY <1>n, <2>1 DEF Answering
  <2>4. AnswerComing' BY <1>3, <1>4, <2>3, Zenon DEF Coordinated, AnswerComing
  <2>5. RadiosTogether'
    BY <1>1, <1>2, <1>3, <2>1, <2>2 DEF Coordinated, RadiosTogether, gVars
  <2>6. CraftPrompt' BY <2>1 DEF CraftPrompt
  <2>7. CopiesFresh' BY <1>3, <2>2 DEF CopiesFresh
  <2> QED BY <2>4, <2>5, <2>6, <2>7, Zenon DEF Coordinated
<1>6. CASE CraftHearsTraffic \/ CraftVideo
  <2>1. /\ UNCHANGED <<cNext, craftChan>>
        /\ fState' = fState \/ (fState = "verify" /\ fState' = "committed")
    BY <1>6 DEF CraftHearsTraffic, CraftVideo, FNoteValidRx, fVars
  <2>2. CraftPrompt' BY <1>1, <1>n, <2>1 DEF CraftPrompt
  <2>3. CopiesFresh' BY <1>1, <1>2, <1>3, <2>1, CopiesStay DEF Coordinated
  <2>4. Answering => Answering' BY <1>1, <1>2, <2>1 DEF Answering
  <2>5. AnswerComing' BY <1>3, <1>4, <2>4, Zenon DEF Coordinated, AnswerComing
  <2>6. RadiosTogether'
    BY <1>1, <1>2, <1>3, <2>1 DEF Coordinated, RadiosTogether, gVars
  <2> QED BY <2>2, <2>3, <2>5, <2>6, Zenon DEF Coordinated
<1> QED BY <1>5, <1>6

\* The craft's tick: one that answers reaches the ground.
LEMMA CraftTickCoordinated ==
  ASSUME AgreementInv, ResolveInv, AckInv, Smooth, losses' = losses, Coordinated, CraftTick
  PROVE  Coordinated'
<1>n. now \in Nat /\ cNext \in Nat /\ fSwitchAt \in Int BY StrandNumbers
<1>1. /\ UNCHANGED <<now, iVars, gVars, up, fLastApplied, fSwitchAt, craftChan>>
      /\ fState' = fState \/ (fState = "verify" /\ fState' = "committed")
      /\ up = << >> /\ cNext' \in now + 1 .. now + 1 + setup.stall
  BY DEF CraftTick, FlagAndSend, CraftOnly, FVerify, FRelease, FQuiet, fVars
<1>2. UNCHANGED <<iState, iTmpl, iArmedSeen, iSwitchAt>> BY <1>1 DEF iVars
<1>3. (Accepted' <=> Accepted) /\ (Waiting' <=> Waiting)
  BY <1>1, <1>2 DEF Accepted, Answer, Waiting
<1>4. CraftPrompt'
  <2>1. cNext' = now + 1 BY <1>1, <1>n DEF Smooth
  <2> QED BY <1>1, <1>n, <2>1 DEF CraftPrompt
<1>5. CopiesFresh' BY <1>1 DEF CopiesFresh
<1>6. RadiosTogether' BY <1>1, <1>2, <1>3 DEF Coordinated, RadiosTogether, gVars
<1> DEFINE flag == fState' \in {"armed", "verify"}
<1>7. \/ down' = Queued(flag)
      \/ down' = down /\ craftChan # groundChan
  <2>1. losses \in Int /\ losses' # losses + 1 BY DEF Smooth
  <2> QED BY <2>1 DEF CraftTick, FlagAndSend, CampaignActive, SendData, Lose
<1>8. flag \in BOOLEAN /\ (fState = "armed" => flag = TRUE) BY <1>1
<1>9. down \in Flags BY Zenon DEF AckInv, AckTypeOK
<1> HIDE DEF flag
<1>10. FlagQueued => FlagQueued'
  <2>1. CASE down' = down BY <2>1 DEF FlagQueued
  <2>2. CASE down' = Queued(flag) BY <1>8, <1>9, <2>2, FlagSent, Zenon
  <2> QED BY <1>7, <2>1, <2>2
<1>11. AnswerComing'
  <2> SUFFICES ASSUME Accepted, Waiting, AnswerHere \/ Answering PROVE AnswerHere'
    BY <1>3, Zenon DEF Coordinated, AnswerComing
  <2>1. CASE AnswerHere BY <1>2, <1>10, <2>1, Zenon DEF AnswerHere
  <2>2. CASE Answering
    <3>1. fState = "armed" /\ craftChan = groundChan
      BY <2>2 DEF Answering, Coordinated, RadiosTogether
    <3>2. down' = Queued(flag) BY <1>7, <3>1, Zenon
    <3>3. FlagQueued' BY <1>8, <1>9, <3>1, <3>2, FlagSent, Zenon
    <3> QED BY <3>3, Zenon DEF AnswerHere
  <2> QED BY <2>1, <2>2
<1> QED BY <1>4, <1>5, <1>6, <1>11, Zenon DEF Coordinated

\* Time passes: what was sent is looked at within an instant.
LEMMA TimeCoordinated ==
  ASSUME AgreementInv, ResolveInv, AckInv, Coordinated, Advance
  PROVE  Coordinated'
<1>n. /\ now \in Nat /\ cNext \in Nat /\ iSwitchAt \in Nat /\ CopyCutoff \in Nat \ {0}
      /\ \A i \in 1..Len(up) : up[i].at \in Nat
  BY StrandNumbers
<1>1. /\ UNCHANGED <<iVars, gVars, up, fState, fVerifyDeadline, fLastApplied, craftChan, down, cNext>>
      /\ now' = now + 1 /\ cNext > now
  BY DEF Advance, fVars
<1>2. UNCHANGED <<iState, iTmpl, iArmedSeen, iSwitchAt>> BY <1>1 DEF iVars
<1>3. (Accepted' <=> Accepted) /\ (Waiting' <=> Waiting)
  BY <1>1, <1>2 DEF Accepted, Answer, Waiting
<1>4. CraftPrompt' BY <1>1, <1>n DEF Coordinated, CraftPrompt
<1>5. CopiesFresh'
  <2> SUFFICES ASSUME ~Accepted', NEW i \in 1..Len(up'), up'[i].pkt.dt # 0
               PROVE  Waiting' /\ FreshCopy(up[i])'
    BY DEF CopiesFresh
  <2>1. Waiting /\ FreshCopy(up[i]) /\ up[i].at \in Nat
    BY <1>1, <1>3, <1>n DEF Coordinated, CopiesFresh
  <2> QED BY <1>1, <1>2, <1>3, <1>n, <2>1 DEF FreshCopy
<1>6. RadiosTogether' BY <1>1, <1>2, <1>3 DEF Coordinated, RadiosTogether, gVars
<1>7. AnswerComing'
  <2>1. ~Answering BY <1>1, <1>n DEF Answering
  <2>2. FlagQueued' <=> FlagQueued BY <1>1 DEF FlagQueued
  <2> QED BY <1>2, <1>3, <2>1, <2>2, Zenon DEF Coordinated, AnswerComing, AnswerHere
<1> QED BY <1>4, <1>5, <1>6, <1>7, Zenon DEF Coordinated

\* The invariant of a smooth campaign, where campaigns are apart.
LEMMA StrandInductive == LinkSpec /\ CampaignsApart => []StrandInv
<1>1. LinkInit => StrandInv
  <2> SUFFICES ASSUME LinkInit PROVE StrandInv OBVIOUS
  <2>1. /\ up = << >> /\ iState = "idle" /\ now = 1 /\ cNext = 1 /\ losses = 0
        /\ fLastApplied = [s \in Originators \X Sessions |-> -1]
        /\ craftChan = HomeChan /\ groundChan = HomeChan /\ gRest = HomeChan
        /\ gIntent = "retune"
    BY DEF LinkInit, IInit, FInit
  <2>2. Answer = -1 BY <2>1, LinkConstants DEF Answer
  <2>3. ~Accepted /\ ~Waiting BY <2>1, <2>2 DEF Accepted, Waiting
  <2>4. CraftPrompt /\ CopiesFresh /\ RadiosTogether
    BY <2>1, <2>3 DEF CraftPrompt, CopiesFresh, RadiosTogether
  <2>5. AnswerComing BY <2>3, Zenon DEF AnswerComing
  <2> QED BY <2>1, <2>4, <2>5 DEF StrandInv, Coordinated
<1>2. /\ AgreementInv /\ ResolveInv /\ AckInv /\ TogetherInv /\ CampaignsApart /\ StrandInv
      /\ [LinkNext]_linkVars
      => StrandInv'
  <2> SUFFICES ASSUME AgreementInv, ResolveInv, AckInv, TogetherInv, CampaignsApart, StrandInv,
                      [LinkNext]_linkVars
               PROVE  StrandInv'
    OBVIOUS
  <2>1. setup' = setup /\ losses' \in Nat /\ (losses' = 0 => losses = 0)
    BY LossesGrow DEF StrandInv
  <2> SUFFICES ASSUME Smooth' PROVE Coordinated' BY <2>1 DEF StrandInv
  <2>2. Smooth /\ losses' = losses BY <2>1 DEF Smooth
  <2>3. Coordinated BY <2>2 DEF StrandInv
  <2>4. CASE UNCHANGED linkVars
    <3>1. UNCHANGED <<now, cNext, fState, fVerifyDeadline, fSwitchAt, fLastApplied, craftChan,
                      gVars, up, down, iVars>>
      BY <2>4 DEF linkVars, fVars
    <3>2. UNCHANGED <<iState, iTmpl, iArmedSeen, iSwitchAt>> BY <3>1 DEF iVars
    <3>3. (Accepted => Accepted') /\ (Waiting => Waiting')
      BY <3>1, <3>2 DEF Accepted, Answer, Waiting
    <3>4. CopiesFresh' BY <2>3, <3>1, <3>2, <3>3, CopiesStay DEF Coordinated
    <3>5. FlagQueued' <=> FlagQueued BY <3>1 DEF FlagQueued
    <3>6. AnswerHere => AnswerHere' BY <3>2, <3>5, Zenon DEF AnswerHere
    <3> QED BY <2>3, <3>1, <3>2, <3>4, <3>6, CoordinatedSteady DEF gVars
  <2>5. CASE LinkNext
    <3>1. CASE Advance BY <2>3, <3>1, TimeCoordinated
    <3>2. CASE Halt BY <2>4, <3>2 DEF Halt
    <3>3. CASE CraftHears BY <2>2, <2>3, <3>3, CraftHearsCoordinated
    <3>4. CASE CraftHearsTraffic \/ CraftRetune \/ CraftVideo
      BY <2>2, <2>3, <3>4, CraftRunsCoordinated
    <3>5. CASE CraftTick BY <2>2, <2>3, <3>5, CraftTickCoordinated
    <3>6. CASE GroundHears \/ GroundQuiet \/ GroundLatch BY <2>3, <3>6, HearsCoordinated
    <3>7. CASE GroundRelease \/ GroundSendCopy \/ GroundSendBeacon
      BY <2>3, <3>7, SendsCoordinated
    <3>8. CASE GroundCommit \/ GroundClose BY <2>3, <3>8, ClosesCoordinated
    <3>9. CASE GroundAbort BY <2>3, <3>9, AbortCoordinated
    <3>10. ASSUME NEW c \in Channels, GroundClaim(c) \/ GroundCsa(c) PROVE Coordinated'
      <4>1. CASE GroundClaim(c) /\ ~IStart(Key, Ground, Session, c)
        BY <2>3, <4>1, RefusedCoordinated
      <4>2. CASE IStart(Key, Ground, Session, c) BY <2>2, <2>3, <3>10, <4>2, StartCoordinated
      <4> QED BY <3>10, <4>1, <4>2 DEF GroundCsa
    <3>11. ~(GroundCommitFails \/ \E c \in Channels : CraftLocalRetune(c) \/ GroundMove(c))
      BY <2>2 DEF Smooth, GroundCommitFails, CraftLocalRetune, GroundMove
    <3> QED BY <2>5, <3>1, <3>2, <3>3, <3>4, <3>5, <3>6, <3>7, <3>8, <3>9, <3>10, <3>11 DEF LinkNext
  <2> QED BY <2>4, <2>5
<1> QED BY <1>1, <1>2, AgreementInductive, ResolveInductive, AckInductive, TogetherInductive, PTL
        DEF LinkSpec

\* A campaign ends, and ends well when nothing failed: neither end sticks in it (csa.cpp tick
\* of both halves), and in an installation whose campaigns are far enough apart, where radios
\* do what they are told and nothing is lost, both nodes are on the same channel afterwards,
\* whatever the order of copies, holds, flags and retunes and however long the retunes block
\* (rx_node.cpp, tx_node.cpp).
THEOREM CampaignAlwaysSettles == LinkSpec /\ CampaignsApart => []CampaignSettles
<1>1. AckInv /\ TogetherInv /\ StrandInv => NoStrand
  <2> SUFFICES ASSUME AckInv, TogetherInv, StrandInv, AtRest, losses = 0, ~setup.faults,
                      setup.stall = 0
               PROVE  craftChan = groundChan
    BY DEF NoStrand
  <2>1. RadiosTogether BY DEF StrandInv, Smooth, Coordinated
  <2>2. iState = "idle" /\ fState \notin {"armed", "verify"} BY DEF AtRest, Active
  <2>3. CASE ~Accepted BY <2>1, <2>3 DEF RadiosTogether
  <2>4. CASE Accepted
    <3>1. craftChan = iTmpl.target BY <2>2, <2>4 DEF TogetherInv, CraftFollows
    <3> QED BY <2>1, <2>2, <2>4, <3>1 DEF RadiosTogether
  <2> QED BY <2>3, <2>4
<1>2. CampaignResolves /\ NoStrand => CampaignSettles BY DEF CampaignSettles
<1> QED BY <1>1, <1>2, CampaignAlwaysResolves, AckInductive, TogetherInductive, StrandInductive, PTL
=============================================================================
