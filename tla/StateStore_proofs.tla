--------------------------- MODULE StateStore_proofs ---------------------------
(***************************************************************************)
(* Proofs about StateStore for every set of values, every TTL and every    *)
(* bound on the clock.                                                     *)
(***************************************************************************)
EXTENDS StateStore, TLAPS

(* What Validate relies on when it looks at the map only: a value it has     *)
(* accepted is no longer outstanding, an outstanding one has been issued,    *)
(* and not in the future.                                                    *)
HistoryInv ==
    \A s \in States :
        /\ accepted[s] \in {0, 1}
        /\ accepted[s] = 1 => /\ s \notin outstanding
                              /\ issuedAt[s] =< acceptedAt[s]
                              /\ acceptedAt[s] < issuedAt[s] + StateTTL
                              /\ issuedAt[s] # Never
        /\ issuedAt[s] # Never => issuedAt[s] =< clock
        /\ s \in outstanding => issuedAt[s] # Never

Inv == TypeOK /\ OutstandingIsRedeemable /\ HistoryInv

LEMMA InvInit == Init => Inv
  BY TTLAssumption, ClockAssumption
  DEF Init, Inv, TypeOK, OutstandingIsRedeemable, HistoryInv, NewStateStore, Times, Never

LEMMA InvNext == Inv /\ [Next]_vars => Inv'
<1> SUFFICES ASSUME Inv, [Next]_vars PROVE Inv'
  OBVIOUS
<1> USE TTLAssumption, ClockAssumption
<1>1. CASE UNCHANGED vars
  BY <1>1 DEF vars, Inv, TypeOK, OutstandingIsRedeemable, HistoryInv, Times, Never
<1>2. ASSUME NEW s \in States, Generate(s) PROVE Inv'
  <2>1. TypeOK'
    BY <1>2 DEF Inv, TypeOK, Generate, With, Expiry, Times
  <2>2. OutstandingIsRedeemable'
    BY <1>2 DEF Inv, TypeOK, OutstandingIsRedeemable, Generate, With, Expiry, Times
  <2>3. HistoryInv'
    BY <1>2 DEF Inv, TypeOK, HistoryInv, Generate, Times, Never
  <2> QED
    BY <2>1, <2>2, <2>3 DEF Inv
<1>3. ASSUME NEW s \in States, Validate(s) PROVE Inv'
  <2>1. TypeOK'
    BY <1>3 DEF Inv, TypeOK, Validate, Consume, Without, Valid, NotExpired, Times
  <2>2. OutstandingIsRedeemable'
    BY <1>3 DEF Inv, OutstandingIsRedeemable, Validate, Consume, Without
  <2>3. HistoryInv'
    BY <1>3 DEF Inv, TypeOK, OutstandingIsRedeemable, HistoryInv, Validate, Valid, NotExpired,
                Times, Never
  <2> QED
    BY <2>1, <2>2, <2>3 DEF Inv
<1>4. CASE Restart
  BY <1>4 DEF Inv, TypeOK, OutstandingIsRedeemable, HistoryInv, Restart, NewStateStore
<1>5. CASE Tick
  BY <1>5 DEF Inv, TypeOK, OutstandingIsRedeemable, HistoryInv, Tick, Times, Never
<1> QED
  BY <1>1, <1>2, <1>3, <1>4, <1>5 DEF Next

(* The store keeps its types. *)
THEOREM TypeCorrect == Spec => []TypeOK
<1>1. Inv => TypeOK
  BY DEF Inv
<1> QED
  BY <1>1, InvInit, InvNext, PTL DEF Spec

(* A state value is accepted at most once, and only within its TTL; until it *)
(* is presented it stays redeemable.                                         *)
THEOREM StateIsSingleUse ==
    Spec => [](RedeemedOnceInTime /\ OutstandingIsRedeemable)
<1>1. Inv => RedeemedOnceInTime /\ OutstandingIsRedeemable
  BY DEF Inv, HistoryInv, RedeemedOnceInTime
<1> QED
  BY <1>1, InvInit, InvNext, PTL DEF Spec
===============================================================================
