------------------------------- MODULE MCSeD -------------------------------
(* Requests to a SeD with two services.                              *)
EXTENDS SeD

CONSTANTS r1, fft, blas

\* Each request has an identifier of its own: one master agent numbers them.
OwnIds == [r \in Thread |-> r]

TwoServices == <<fft, blas>>
=============================================================================
