----------------------------- MODULE MCHttpApi -----------------------------
(* A small instance of HttpApi for TLC.                                    *)
EXTENDS HttpApi, TLC

Symmetry == Permutations(Drivers)
=============================================================================
