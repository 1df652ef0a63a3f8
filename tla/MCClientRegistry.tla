-------------------------- MODULE MCClientRegistry --------------------------
(* ClientRegistry for TLC.  One of the two connections sends setuuid twice,  *)
(* so they are not interchangeable; liveness forbids symmetry anyway.        *)
EXTENDS ClientRegistry
=============================================================================
