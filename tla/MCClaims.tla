------------------------------ MODULE MCClaims ------------------------------
(* Claims on a small instance; Claims.cfg gives the constants.              *)
EXTENDS Claims
=============================================================================
