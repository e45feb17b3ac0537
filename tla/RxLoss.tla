------------------------------- MODULE RxLoss -------------------------------
(***************************************************************************)
(* The per-adapter loss account of a latched stream (AdapterSeq and        *)
(* note_adapter_seq in core/src/rx.cpp), from which the pre-diversity loss *)
(* of every LINK_REPORT is taken, with the statistics reset that can come  *)
(* between any two packets.  One adapter: the accounts share no state.     *)
(***************************************************************************)
EXTENDS Integers, FiniteSets

CONSTANTS
  SeqSpace,       \* 2^32 scaled down
  FwdClampPkts,   \* a jump beyond it re-anchors the account
  MaxHeard        \* bound: packets heard

ASSUME LossConstants == SeqSpace \in Nat \ {0} /\ FwdClampPkts \in Nat /\ MaxHeard \in Nat

VARIABLES
  have, highest, expected, received, missing,
  heard,     \* packets heard so far (bounds the run)
  counted    \* history: numbers received was incremented for since a reset

vars == <<have, highest, expected, received, missing, heard, counted>>

Seq32 == 0 .. SeqSpace - 1

Init ==
  /\ have = FALSE /\ highest = 0 /\ expected = 0 /\ received = 0
  /\ missing = {} /\ heard = 0 /\ counted = {}

Count(seq) == received' = received + 1 /\ counted' = counted \cup {seq}

\* The first packet of the adapter, or a jump no gap accounting can span.
Anchor(seq) ==
  /\ ~have \/ seq - highest > FwdClampPkts
  /\ have' = TRUE /\ highest' = seq /\ expected' = expected + 1
  /\ missing' = {} /\ Count(seq)

\* A step forward: the numbers in between are missing so far.
Step(seq) ==
  /\ have /\ seq > highest /\ seq - highest <= FwdClampPkts
  /\ highest' = seq /\ expected' = expected + (seq - highest)
  /\ missing' = missing \cup (highest + 1 .. seq - 1)
  /\ Count(seq) /\ UNCHANGED have

\* Mutant: the number stays missing after it was filled.
FillAgain(seq) ==
  /\ have /\ seq <= highest /\ seq \in missing
  /\ Count(seq) /\ UNCHANGED <<have, highest, expected, missing>>

\* A missing number filled out of order.
Fill(seq) ==
  /\ have /\ seq <= highest /\ seq \in missing
  /\ missing' = missing \ {seq} /\ Count(seq)
  /\ UNCHANGED <<have, highest, expected>>

\* A copy already counted, or one older than the account.
Ignore(seq) ==
  /\ have /\ seq <= highest /\ seq \notin missing
  /\ UNCHANGED <<have, highest, expected, received, missing, counted>>

NoteAdapterSeq(seq) ==
  /\ heard < MaxHeard /\ heard' = heard + 1
  /\ Anchor(seq) \/ Step(seq) \/ Fill(seq) \/ Ignore(seq)

\* Mutant: the reset leaves the numbers missing before it.
ResetKeepsMissing ==
  /\ expected' = 0 /\ received' = 0 /\ counted' = {}
  /\ UNCHANGED <<have, highest, missing, heard>>

ResetStats ==
  /\ expected' = 0 /\ received' = 0 /\ missing' = {} /\ counted' = {}
  /\ UNCHANGED <<have, highest, heard>>

Next == (\E seq \in Seq32 : NoteAdapterSeq(seq)) \/ ResetStats

Spec == Init /\ [][Next]_vars
-----------------------------------------------------------------------------
\* Every variable keeps its type; a missing number lies below the highest one.
LossTypeOK ==
  /\ have \in BOOLEAN /\ highest \in Seq32 /\ expected \in Nat /\ received \in Nat
  /\ heard \in 0 .. MaxHeard /\ missing \subseteq Seq32 /\ counted \subseteq Seq32
  /\ \A m \in missing : m < highest

\* expected - received, the loss every report carries, is never negative (it
\* would wrap to an enormous u64), whatever order fills, jumps and resets take:
\* it covers every number still missing.
LossNeverNegative == received + Cardinality(missing) <= expected

\* No packet is counted as received twice between two resets.
CountedOnce == received = Cardinality(counted)

\* The account a report is made from: never below zero, and exact in what it counts as
\* received (rx.cpp note_adapter_seq and reset_stats).
LossAccount == LossNeverNegative /\ CountedOnce
=============================================================================
