---------------------------- MODULE MCTokenIssuer ----------------------------
(* Model-checking instances of TokenIssuer; the cfg files give the constants. *)
EXTENDS TokenIssuer, TLC
===============================================================================
