------------------------------ MODULE CsaTypes ------------------------------
(***************************************************************************)
(* What the two follow-me CSA engines (core/csa.h) share: the policy, the  *)
(* campaign packet and the host steady clock.  The MAC of a packet is      *)
(* symbolic: `mac' is the key the packet was stamped with.  Bandwidth,     *)
(* retune class and power intent ride through both engines untouched and   *)
(* are left out.  Times are microseconds of the host clock; durations of   *)
(* the policy are milliseconds, Ms of the former each.                     *)
(***************************************************************************)
EXTENDS Integers

CONSTANTS
  Originators,    \* node ids that issue campaigns
  Sessions,       \* session ids (one per boot of a node)
  Channels,       \* centre frequencies
  Keys,           \* 11.4a keys: configured secrets and announced tokens
  NoKey,          \* the empty psk vector
  NoIssuer,       \* std::nullopt of the command-source binding
  Allowlist,      \* policy.csa channel_allowlist
  Ms,             \* clock units in a millisecond
  VerifyTimeout,  \* verify_timeout_ms
  MinInterval,    \* min_interval_ms
  MaxNow          \* bound: the clock stops here

ASSUME CsaConstants ==
  /\ NoKey \notin Keys /\ NoIssuer \notin Originators
  /\ Allowlist \subseteq Channels
  /\ Ms \in Nat \ {0} /\ VerifyTimeout \in Nat /\ MinInterval \in Nat
  /\ MaxNow \in Nat \ {0}

VARIABLE now      \* host steady clock; 0 is the engines' "never"

\* The fields of CsaPacket the engines read.  dt = 0 marks a 11.6 beacon.
CsaPacket == [orig : Originators, sess : Sessions, nonce : Nat,
              target : Channels, dt : Nat, tRevert : Nat,
              mac : Keys \cup {NoKey}]

Allowed(c) == c \in Allowlist

Time == 1 .. MaxNow
Max2(a, b) == IF a > b THEN a ELSE b
Min2(a, b) == IF a < b THEN a ELSE b
=============================================================================
