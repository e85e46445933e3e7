------------------------------ MODULE StateStore ------------------------------
(***************************************************************************)
(* The in-memory store of OAuth state parameters                           *)
(* (api/internal/auth/state_store.go).  A state value is handed out by     *)
(* Generate when a login begins and presented again, by whoever follows    *)
(* the provider's redirect, to Validate when it comes back.                *)
(*                                                                         *)
(* Both methods hold the mutex for all they do to the map, so each is one  *)
(* action.  The store lives in the API process: a restart empties it,      *)
(* while the values it gave out are still in browsers and may come back.   *)
(***************************************************************************)
EXTENDS Naturals

CONSTANTS
    States,     \* the values rand.Read can produce; a used one is never drawn again
    StateTTL,   \* stateTTL
    MaxClock    \* bound on the clock

ASSUME TTLAssumption   == StateTTL \in Nat \ {0}
ASSUME ClockAssumption == MaxClock \in Nat

VARIABLES
    clock,      \* time.Now()
    entries,    \* s.entries: state value -> the instant it expires
    issuedAt,   \* history: state value -> the instant Generate stored it
    accepted,   \* history: state value -> how often Validate said true for it
    acceptedAt, \* history: state value -> when it last did
    outstanding \* history: values given out by this process and not yet presented

vars == <<clock, entries, issuedAt, accepted, acceptedAt, outstanding>>

Times == 0 .. MaxClock
Never == MaxClock + 1   \* "has not happened": later than every instant

TypeOK ==
    /\ clock \in Times
    /\ DOMAIN entries \subseteq States
    /\ \A s \in DOMAIN entries : entries[s] \in Nat
    /\ issuedAt \in [States -> Times \cup {Never}]
    /\ accepted \in [States -> Nat]
    /\ acceptedAt \in [States -> Times \cup {Never}]
    /\ outstanding \subseteq States

(* NewStateStore *)
NewStateStore == [s \in {} |-> 0]

Init ==
    /\ clock = 0
    /\ entries = NewStateStore
    /\ issuedAt = [s \in States |-> Never]
    /\ accepted = [s \in States |-> 0]
    /\ acceptedAt = [s \in States |-> Never]
    /\ outstanding = {}

Without(f, x) == [y \in DOMAIN f \ {x} |-> f[y]]
With(f, x, v) == [y \in DOMAIN f \cup {x} |-> IF y = x THEN v ELSE f[y]]

-------------------------------------------------------------------------------
(* Mutated form of Expiry: the sign of the duration is wrong. *)
ExpiryInThePast(now) == now - StateTTL

(* Mutated form of Expiry: time.Now() read after a later tick. *)
ExpiryLate(now) == now + StateTTL + 1

(* A value expires a whole TTL after it was stored. *)
Expiry(now) == now + StateTTL

(* Generate: draw a fresh value and store it.  When rand.Read fails nothing  *)
(* is stored, which is a stuttering step.                                    *)
Generate(s) ==
    /\ issuedAt[s] = Never
    /\ entries' = With(entries, s, Expiry(clock))
    /\ issuedAt' = [issuedAt EXCEPT ![s] = clock]
    /\ outstanding' = outstanding \cup {s}
    /\ UNCHANGED <<clock, accepted, acceptedAt>>

(* Mutated form of Consume: an entry in time is not deleted. *)
ConsumeExpiredOnly(s) ==
    IF clock < entries[s] THEN entries ELSE Without(entries, s)

(* The map after the delete of Validate, which does not look at the expiry. *)
Consume(s) == Without(entries, s)

(* Mutated form of NotExpired: the boundary instant is accepted too. *)
NotExpiredInclusive(s) == clock =< entries[s]

(* What Validate returns for an entry it found; time.Before is strict. *)
NotExpired(s) == clock < entries[s]

(* What Validate returns, for any value a callback request may carry: never  *)
(* issued, outstanding, expired or already used.                             *)
Valid(s) == s \in DOMAIN entries /\ NotExpired(s)

Validate(s) ==
    /\ entries' = IF s \in DOMAIN entries THEN Consume(s) ELSE entries
    /\ accepted' = [accepted EXCEPT ![s] = IF Valid(s) THEN @ + 1 ELSE @]
    /\ acceptedAt' = [acceptedAt EXCEPT ![s] = IF Valid(s) THEN clock ELSE @]
    /\ outstanding' = outstanding \ {s}
    /\ UNCHANGED <<clock, issuedAt>>

(* The API process is restarted: main calls NewStateStore again. *)
Restart ==
    /\ entries' = NewStateStore
    /\ outstanding' = {}
    /\ UNCHANGED <<clock, issuedAt, accepted, acceptedAt>>

Tick ==
    /\ clock < MaxClock
    /\ clock' = clock + 1
    /\ UNCHANGED <<entries, issuedAt, accepted, acceptedAt, outstanding>>

Next ==
    \/ \E s \in States : Generate(s) \/ Validate(s)
    \/ Restart
    \/ Tick

(* Time passes by itself; nothing obliges a browser to come back. *)
Spec == Init /\ [][Next]_vars /\ WF_vars(Tick)

-------------------------------------------------------------------------------
(* However often, and by however many callbacks, a state value is presented, *)
(* Validate accepts it at most once (state_store.go: "deleted on first       *)
(* validation"), and only less than one TTL after Generate stored it: never  *)
(* a value it did not issue, never at or after the expiry.                   *)
RedeemedOnceInTime ==
    \A s \in States :
        /\ accepted[s] =< 1
        /\ accepted[s] > 0 => /\ issuedAt[s] =< acceptedAt[s]
                              /\ acceptedAt[s] < issuedAt[s] + StateTTL

(* The store refuses nobody it should admit: exactly the values this process *)
(* gave out and nobody has presented yet are in the map, each good for a     *)
(* whole TTL.                                                                *)
OutstandingIsRedeemable ==
    /\ DOMAIN entries = outstanding
    /\ \A s \in outstanding : entries[s] = issuedAt[s] + StateTTL
===============================================================================
