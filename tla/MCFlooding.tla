----------------------------- MODULE MCFlooding -----------------------------
(* Instances of Flooding for TLC: three master agents. *)
EXTENDS Flooding
CONSTANTS ma1, ma2, ma3

\* The origin reaches ma3 only through ma2.
Path == [m \in MA |-> CASE m = ma2 -> {ma1, ma3} [] OTHER -> {ma2}]
\* Both are neighbours of the origin, and ma2 asks ma3 again.
Fork == [m \in MA |-> CASE m = ma1 -> {ma2, ma3} [] m = ma2 -> {ma1, ma3} [] m = ma3 -> {}]
\* A link that the origin has dropped and ma3 has not: the flood comes back.
Ring == [m \in MA |-> CASE m = ma1 -> {ma2} [] m = ma2 -> {ma1, ma3} [] m = ma3 -> {ma2, ma1}]

Networks == {Path, Fork, Ring}
OneRing == {Ring}
Hops == [top \in Topologies |-> IF top = Fork THEN 2 ELSE 3]
=============================================================================
