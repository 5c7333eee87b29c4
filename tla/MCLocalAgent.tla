---------------------------- MODULE MCLocalAgent ----------------------------
(* Instance of LocalAgent for TLC: two SeDs that begin with the same service *)
(* and may add another; the parent's other child has both.                   *)
EXTENDS LocalAgent
CONSTANTS sed1, sed2, fft, blas

OfferedBy == [c \in SeDs |-> <<fft>>]
ExtraOf == [c \in SeDs |-> {blas}]
OtherServices == <<fft, blas>>
SameSeDs == Permutations(SeDs)
=============================================================================
