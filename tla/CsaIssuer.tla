----------------------------- MODULE CsaIssuer -----------------------------
(***************************************************************************)
(* CsaIssuer (core/src/csa.cpp): the ground's half of a follow-me channel  *)
(* switch.  A campaign stamps copies with the time left to its absolute    *)
(* T_switch until the craft's CSA_ARMED flag is seen or T_switch arrives,  *)
(* commits the ground's own retune on the flag, blankets the craft's       *)
(* verify window with beacons and closes at the deadline; without the flag *)
(* it aborts at T_switch.                                                  *)
(***************************************************************************)
EXTENDS CsaTypes

CONSTANTS
  DtToSwitch,     \* kDtToSwitchMs
  Copies,         \* kCopies
  CopySpacing,    \* kCopySpacingUs
  CopyCutoff      \* kCopyCutoffUs

ASSUME IssuerConstants ==
  /\ DtToSwitch \in Nat \ {0} /\ Copies \in Nat \ {0}
  /\ CopySpacing \in Nat
  /\ CopyCutoff \in Nat \ {0} /\ CopyCutoff >= Ms - 1  \* no copy in the last millisecond

VARIABLES
  iState,          \* state_
  iPsk,            \* policy_.psk
  iNextNonce,      \* next_nonce_
  iLastCampaign,   \* last_campaign_us_ (0 = never)
  iTmpl,           \* tmpl_: campaign fields; dt and mac are stamped per copy
  iCopiesLeft,     \* copies_left_
  iNextCopy,       \* next_copy_us_
  iSwitchAt,       \* switch_at_us_
  iVerifyDeadline, \* verify_deadline_us_ (0 = not landed yet)
  iNextBeacon,     \* next_beacon_us_
  iArmedSeen, iVideoSeen, iLandingSeen

iVars == <<iState, iPsk, iNextNonce, iLastCampaign, iTmpl, iCopiesLeft,
           iNextCopy, iSwitchAt, iVerifyDeadline, iNextBeacon, iArmedSeen,
           iVideoSeen, iLandingSeen>>

IStates == {"idle", "announce", "awaitack", "verify"}
NoTmpl == [orig |-> NoIssuer, nonce |-> 0]

IInit ==
  /\ iState = "idle" /\ iPsk = NoKey /\ iNextNonce = 1 /\ iLastCampaign = 0
  /\ iTmpl = NoTmpl /\ iCopiesLeft = 0 /\ iNextCopy = 0 /\ iSwitchAt = 0
  /\ iVerifyDeadline = 0 /\ iNextBeacon = 0
  /\ iArmedSeen = FALSE /\ iVideoSeen = FALSE /\ iLandingSeen = FALSE

Active == iState # "idle"

-----------------------------------------------------------------------------
\* Re-keying is refused while a campaign is active.
CanRekey == ~Active

\* The start guard; the key is the one set_psk just installed.
CanStart(key, target) ==
  /\ ~Active /\ key # NoKey /\ Allowed(target)
  /\ iLastCampaign = 0 \/ now - iLastCampaign >= MinInterval * Ms

\* Mutant: the evidence of the last campaign is not cleared.
StartKeepsEvidence(key, orig, sess, target) ==
  /\ CanRekey /\ CanStart(key, target)
  /\ iPsk' = key
  /\ iLastCampaign' = now
  /\ iTmpl' = [orig |-> orig, sess |-> sess, nonce |-> iNextNonce,
               target |-> target, dt |-> 0, tRevert |-> VerifyTimeout % 65536,
               mac |-> key]
  /\ iNextNonce' = iNextNonce + 1
  /\ iSwitchAt' = now + DtToSwitch * Ms
  /\ iCopiesLeft' = Copies /\ iNextCopy' = now
  /\ iState' = "announce"
  /\ UNCHANGED <<iVerifyDeadline, iNextBeacon, iArmedSeen, iVideoSeen,
                 iLandingSeen>>

\* set_psk followed by start, as every caller of start does.
IStart(key, orig, sess, target) ==
  /\ CanRekey /\ CanStart(key, target)
  /\ iPsk' = key
  /\ iLastCampaign' = now
  /\ iTmpl' = [orig |-> orig, sess |-> sess, nonce |-> iNextNonce,
               target |-> target, dt |-> 0, tRevert |-> VerifyTimeout % 65536,
               mac |-> key]
  /\ iNextNonce' = iNextNonce + 1
  /\ iSwitchAt' = now + DtToSwitch * Ms
  /\ iCopiesLeft' = Copies /\ iNextCopy' = now
  /\ iArmedSeen' = FALSE /\ iVideoSeen' = FALSE /\ iLandingSeen' = FALSE
  /\ iState' = "announce"
  /\ UNCHANGED <<iVerifyDeadline, iNextBeacon>>

-----------------------------------------------------------------------------
\* stamp_copy: whole milliseconds left, never 0 (0 marks a beacon).
StampCopy(p) ==
  LET left == IF iSwitchAt > now THEN iSwitchAt - now ELSE Ms IN
  [p EXCEPT !.dt = Max2(1, left \div Ms), !.mac = iPsk]

\* A copy is worth sending only while its acceptor can still answer.
CopyWindowOpen == iSwitchAt > now + CopyCutoff

CanRestamp(p) == CopyWindowOpen /\ Active /\ p.nonce = iTmpl.nonce

\* Mutant: a held copy goes out with the dt it was produced with.
KeepStamp(p) == p
RestampCopy(p) == StampCopy(p)

\* A DATA frame: note_craft_armed (flag set only), then note_craft_video.
Landing(flag) == /\ flag /\ iState = "verify" /\ now >= iSwitchAt
                 /\ ~iLandingSeen

\* Mutant: any frame on the target counts as the craft's commit.
VideoAnyFrame(flag) == iState = "verify" /\ now >= iSwitchAt
VideoProof(flag) == ~flag /\ iState = "verify" /\ now >= iSwitchAt

INoteCraftFrame(flag) ==
  /\ iArmedSeen' = (iArmedSeen \/ (flag /\ iState \in {"announce", "awaitack"}))
  /\ iLandingSeen' = (iLandingSeen \/ Landing(flag))
  /\ iVerifyDeadline' = IF Landing(flag) THEN now + VerifyTimeout * Ms
                        ELSE iVerifyDeadline
  /\ iVideoSeen' = (iVideoSeen \/ VideoProof(flag))
  /\ UNCHANGED <<iState, iPsk, iNextNonce, iLastCampaign, iTmpl, iCopiesLeft,
                 iNextCopy, iSwitchAt, iNextBeacon>>

-----------------------------------------------------------------------------
(* The arms of tick.                                                       *)

Stay == UNCHANGED <<iPsk, iNextNonce, iLastCampaign, iTmpl, iSwitchAt,
                    iArmedSeen, iVideoSeen, iLandingSeen>>

AnnounceDue == iState = "announce" /\ now >= iNextCopy /\ CopyWindowOpen
RepeatDue == /\ iState = "awaitack" /\ ~iArmedSeen /\ CopyWindowOpen
             /\ now >= iNextCopy

\* kSendCopy, of the initial burst or a repeat past it.
ISendCopy ==
  /\ AnnounceDue \/ RepeatDue
  /\ iNextCopy' = now + CopySpacing
  /\ iCopiesLeft' = IF AnnounceDue THEN iCopiesLeft - 1 ELSE iCopiesLeft
  /\ iState' = IF iCopiesLeft' = 0 THEN "awaitack" ELSE iState
  /\ Stay /\ UNCHANGED <<iVerifyDeadline, iNextBeacon>>

\* Mutant: only an emitted copy leaves the announce state (before Pass 197).
NeverCloses == FALSE
\* Pass 197: the copy window closing is an exit of announce too.
WindowCloses == iState = "announce" /\ ~CopyWindowOpen

ICloseWindow ==
  /\ WindowCloses
  /\ iState' = "awaitack"
  /\ Stay /\ UNCHANGED <<iCopiesLeft, iNextCopy, iVerifyDeadline, iNextBeacon>>

\* Mutant: the ground commits at T_switch whether or not the craft answered.
CommitAtSwitch == iState = "awaitack" /\ ~RepeatDue
                  /\ (iArmedSeen \/ now >= iSwitchAt)
CommitDue == iState = "awaitack" /\ ~RepeatDue /\ iArmedSeen

\* kCommit; `ok' is the outcome of the caller's retune (note_commit_failed).
ICommit(ok) ==
  /\ CommitDue
  /\ iState' = IF ok THEN "verify" ELSE "idle"
  /\ iVerifyDeadline' = 0
  /\ Stay /\ UNCHANGED <<iCopiesLeft, iNextCopy, iNextBeacon>>

AbortDue == /\ iState = "awaitack" /\ ~RepeatDue /\ ~iArmedSeen
            /\ now >= iSwitchAt

IAbort ==
  /\ AbortDue
  /\ iState' = "idle"
  /\ Stay /\ UNCHANGED <<iCopiesLeft, iNextCopy, iVerifyDeadline, iNextBeacon>>

\* The deadline in force at this tick; the first tick in verify opens it.
Deadline == IF iVerifyDeadline = 0
            THEN Max2(now, iSwitchAt) + VerifyTimeout * Ms ELSE iVerifyDeadline
BeaconAt == IF iVerifyDeadline = 0 THEN now ELSE iNextBeacon
Beacon == [iTmpl EXCEPT !.dt = 0, !.mac = iPsk]

ISuccess ==
  /\ iState = "verify" /\ now >= Deadline
  /\ iState' = "idle"
  /\ iVerifyDeadline' = Deadline /\ iNextBeacon' = BeaconAt
  /\ Stay /\ UNCHANGED <<iCopiesLeft, iNextCopy>>

ISendBeacon ==
  /\ iState = "verify" /\ now < Deadline /\ now >= BeaconAt
  /\ iVerifyDeadline' = Deadline /\ iNextBeacon' = now + CopySpacing
  /\ Stay /\ UNCHANGED <<iState, iCopiesLeft, iNextCopy>>

\* tick returns kNone and changes nothing.
IQuiet ==
  /\ \/ iState = "idle"
     \/ iState = "announce" /\ ~AnnounceDue /\ ~WindowCloses
     \/ iState = "awaitack" /\ ~RepeatDue /\ ~CommitDue /\ ~AbortDue
     \/ iState = "verify" /\ now < Deadline /\ now < BeaconAt
  /\ UNCHANGED iVars
=============================================================================
