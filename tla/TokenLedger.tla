------------------------------ MODULE TokenLedger ------------------------------
(***************************************************************************)
(* What the refresh_tokens table promises: a refresh token is minted once, *)
(* for one user; a request retires tokens of one user only, one or several *)
(* of them; and retired tokens stay retired.                               *)
(***************************************************************************)
CONSTANTS
    Tokens,
    Users,
    NoUser      \* holder of a token that does not exist yet

VARIABLES
    state,      \* life of every token
    holder      \* the user it was minted for

vars == <<state, holder>>

Init ==
    /\ state = [t \in Tokens |-> "unborn"]
    /\ holder = [t \in Tokens |-> NoUser]

Mint(t, u) ==
    /\ state[t] = "unborn"
    /\ state' = [state EXCEPT ![t] = "live"]
    /\ holder' = [holder EXCEPT ![t] = u]

Live(u) == {t \in Tokens : state[t] = "live" /\ holder[t] = u}

Retire(S) ==
    /\ state' = [t \in Tokens |-> IF t \in S THEN "dead" ELSE state[t]]
    /\ UNCHANGED holder

Next ==
    \/ \E t \in Tokens, u \in Users : Mint(t, u)
    \/ \E u \in Users : \E S \in SUBSET Live(u) : Retire(S)

Spec == Init /\ [][Next]_vars
===============================================================================
