------------------------------- MODULE Slots -------------------------------
(***************************************************************************)
(* What an AccessController promises: at most Slot_Count threads hold one  *)
(* of its resources, a thread that leaves gives its resource back, and no  *)
(* order among the threads that ask is promised.                           *)
(***************************************************************************)
EXTENDS Naturals, FiniteSets

CONSTANTS Holder, Slot_Count

VARIABLE holders

Init == holders = {}

Enter(t) ==
  /\ t \notin holders
  /\ Cardinality(holders) < Slot_Count
  /\ holders' = holders \cup {t}

Leave(t) ==
  /\ t \in holders
  /\ holders' = holders \ {t}

Next == \E t \in Holder : Enter(t) \/ Leave(t)

Spec == Init /\ [][Next]_holders
=============================================================================
