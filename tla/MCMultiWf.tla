------------------------------ MODULE MCMultiWf ------------------------------
(* Instances of MultiWf for TLC. *)
EXTENDS MultiWf
CONSTANTS a, b, c, e, f, g, h, p, q, s, u, v, d1, d2, d3, d4, d5, d6

\* In d1, c waits for a and b; in d2, f waits for e; d3 and d4 have one node each; in d5,
\* s waits for p, and q for none; in d6, u and v wait for none.
MCPrev == [n \in Node |-> CASE n = c -> {a, b} [] n = f -> {e} [] n = s -> {p} [] OTHER -> {}]
MCDagOf == [n \in Node |->
  CASE n \in {a, b, c} -> d1 [] n \in {e, f} -> d2 [] n = g -> d3 [] n = h -> d4
    [] n \in {p, q, s} -> d5 [] n \in {u, v} -> d6]
\* Which nodes solve the same problem.
MCService == [n \in Node |->
  CASE n = b -> a [] n = h -> g [] n = q -> p [] n = v -> u [] OTHER -> n]
Basic == [basic |-> TRUE, platform |-> "any", policy |-> "dag"]
AnyNode == [basic |-> FALSE, platform |-> "any", policy |-> "node"]
SameDag == [basic |-> FALSE, platform |-> "same", policy |-> "dag"]
AllSchedulers == {Basic, AnyNode, SameDag}
Workload == [x \in AllSchedulers |->
  CASE x = Basic -> {{d1}, {d2}, {d5}} [] x = AnyNode -> {{d3, d4}, {d6}} [] x = SameDag -> {{d2}, {d6}}]
=============================================================================
