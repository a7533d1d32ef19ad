------------------------ MODULE PublicationPromise -------------------------
(***************************************************************************)
(* What the publication of one review in several native objects promises   *)
(* whoever looks at the pull request (native_group_publication.py,         *)
(* publish_final; ADR 0117).                                               *)
(*                                                                         *)
(* The objects, the parts of the review, the manifest and the final        *)
(* review, appear in this order, each at most once, and the publication is *)
(* acknowledged only when all of them are there.  The record of what has   *)
(* been attempted is a comment without compare-and-swap: once a write has  *)
(* taken an attempt back, an object may appear again, but still never      *)
(* before the ones it builds on.                                           *)
(***************************************************************************)
EXTENDS Naturals

CONSTANT Effects   \* the objects, numbered in their order from 1

VARIABLES
  count,         \* how often each object is visible
  acknowledged,  \* the publication was reported as done
  rolledBack     \* a write of the record has taken an attempt back

vars == <<count, acknowledged, rolledBack>>

Init ==
  /\ count = [e \in Effects |-> 0]
  /\ acknowledged = FALSE
  /\ rolledBack = FALSE

Appear(e) ==
  /\ count[e] = 0 \/ rolledBack
  /\ \A f \in Effects : f < e => count[f] > 0
  /\ count' = [count EXCEPT ![e] = @ + 1]
  /\ UNCHANGED <<acknowledged, rolledBack>>

Acknowledge ==
  /\ \A e \in Effects : count[e] > 0
  /\ acknowledged' = TRUE
  /\ UNCHANGED <<count, rolledBack>>

RollBack ==
  /\ rolledBack' = TRUE
  /\ UNCHANGED <<count, acknowledged>>

Next == (\E e \in Effects : Appear(e)) \/ Acknowledge \/ RollBack

Spec == Init /\ [][Next]_vars
=============================================================================
