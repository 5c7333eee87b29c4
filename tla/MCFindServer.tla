---------------------------- MODULE MCFindServer ----------------------------
(***************************************************************************)
(* An agent with two children, local agents or SeDs as the configuration   *)
(* says.  Both offer "blas"; the first offers "fft" too, and the second    *)
(* may add it with another aggregator.                                     *)
(***************************************************************************)
EXTENDS FindServer

CONSTANTS c1, c2, r1, r2

OfferedServices == [c \in Child |-> IF c = c1 THEN <<"fft", "blas">> ELSE <<"blas">>]
ExtraServices == [c \in Child |-> IF c = c1 THEN {} ELSE {"fft"}]
Aggregators ==
  [c \in Child |-> [s \in {"fft", "blas"} |->
     IF c = c2 /\ s = "fft" THEN "PRIORITY" ELSE "DEFAULT"]]
WantedServices == [r \in ReqID |-> IF r = r1 THEN "blas" ELSE "fft"]
=============================================================================
