----------------------------- MODULE MCCredentials -----------------------------
(* Model-checking instance of Credentials: AuthFiles of two lengths. *)
EXTENDS Credentials, TLC

CONSTANTS p1, p2, p3

TwoSizes == (p1 :> 2) @@ (p2 :> 1) @@ (p3 :> 2)
===============================================================================
