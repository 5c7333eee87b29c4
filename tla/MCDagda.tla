------------------------------ MODULE MCDagda ------------------------------
(* Instances of Dagda for TLC: two SeDs under the root, and replicas that   *)
(* make transfers between the SeDs, updates and evictions meet.             *)
EXTENDS Dagda

CONSTANTS sedA, sedB, d1, d2, t1, t2

Order == <<sedA, sedB>>
Sizes == [d \in Data |-> IF d = d1 THEN 2 ELSE 1]
Limits == [n \in Node |-> IF n = sedB THEN 3 ELSE 2]
Replicas == {<<Root, d1>>, <<sedB, d1>>, <<sedB, d2>>}
CallsOf == [t \in Thread |->
  {<<"IN", sedA, d1>>, <<"IN", sedA, d2>>, <<"remove", Root, d1>>} \cup
  IF t = t1 THEN {<<"INOUT", sedA, d2>>}
  ELSE {<<"IN", sedB, d1>>, <<"INOUT", sedB, d1>>, <<"INOUT", sedB, d2>>}]
=============================================================================
