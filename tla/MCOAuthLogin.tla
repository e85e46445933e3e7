----------------------------- MODULE MCOAuthLogin -----------------------------
(* Model-checking instance of OAuthLogin. *)
EXTENDS OAuthLogin, TLC
===============================================================================
