----------------------------- MODULE MCTelemetry -----------------------------
(***************************************************************************)
(* Telemetry for TLC: the faults a behaviour is followed past.             *)
(***************************************************************************)
EXTENDS Telemetry, TLC

CONSTANTS
  FollowedFaults,  \* bound: the kinds of fault a behaviour is followed past
  MaxFaults        \* bound: how many kinds together

FewFaults == faults \subseteq FollowedFaults /\ Cardinality(faults) <= MaxFaults

\* Once the last poll has been recorded no table changes any more: such a state
\* is checked, and not followed.
MoreToRecord == Len(polls) < MaxPolls \/ ~ Unread

\* Inverters are told apart by nothing.
Names == Permutations(Serials)
=============================================================================
