--------------------------- MODULE OAuthLogin_proofs ---------------------------
(***************************************************************************)
(* Safety of the OAuth callbacks for any number of logins, callbacks and   *)
(* restarts.  What the store guarantees is taken from StateStore_proofs:   *)
(* every step of the handlers is a step of the store or leaves it alone.   *)
(* The rest is an invariant of each callback (CallbackInv), and the fact   *)
(* that no two callbacks of one login are past the state check (OneOwner). *)
(***************************************************************************)
EXTENDS OAuthLogin, StateStore_proofs, FiniteSetTheorems

(* Steps behind the state check, and behind the error check. *)
PastState == {"error", "complete", "resolve", "issue", "respond"}
PastError == PastState \ {"error"}

(* What a callback has seen and written when its handler is at a step. *)
CallbackInv(c) ==
    /\ step[c] # "idle" <=> c \in DOMAIN query
    /\ step[c] \in PastState => accepted[query[c].state] > 0
    /\ step[c] \in PastError => ~query[c].error
    /\ c \in resolved => /\ step[c] \in {"issue", "respond", "done", "killed"}
                         /\ accepted[query[c].state] > 0 /\ ~query[c].error
    /\ c \in stored => c \in resolved /\ step[c] \in {"respond", "done", "killed"}
    /\ step[c] = "issue" => c \in resolved
    /\ step[c] = "respond" => c \in stored
    /\ step[c] # "done" => answer[c] = <<>>
    /\ step[c] = "done" => \E st \in Status :
            /\ answer[c] = <<st>>
            /\ st \in Success => c \in stored
            /\ st \in Refused => c \notin resolved

(* A callback that has redeemed its state, as far as it matters for tokens. *)
Owns(c) == c \in stored \/ step[c] \in PastState

OneOwner ==
    \A c, d \in Callbacks :
        Owns(c) /\ Owns(d) /\ query[c].state = query[d].state => c = d

CallbacksInv == \A c \in Callbacks : CallbackInv(c)

LoginInv == Inv /\ LoginTypeOK /\ CallbacksInv /\ OneOwner

-------------------------------------------------------------------------------
(* A callback that has arrived has a query. *)
LEMMA QueryType ==
    ASSUME LoginInv, NEW c \in Callbacks, step[c] # "idle"
    PROVE  c \in DOMAIN query /\ query[c] \in Queries /\ query[c].state \in States
  BY DEF LoginInv, LoginTypeOK, CallbacksInv, CallbackInv, Queries

(* The store sees nothing but its own operations. *)
LEMMA StoreStep == LoginInv /\ [LoginNext]_allVars => [Next]_vars
<1> SUFFICES ASSUME LoginInv, [LoginNext]_allVars PROVE [Next]_vars
  OBVIOUS
<1>1. ASSUME NEW c \in Callbacks, CallbackGitHub(c) PROVE [Next]_vars
  <2>1. CASE CheckState(c)
    BY <2>1, QueryType DEF CheckState, Next
  <2> QED
    BY <1>1, <2>1 DEF CallbackGitHub, CheckError, CompleteUserAuth, ResolveOrCreateUser,
       IssueSessionToken, Respond, vars
<1>2. ASSUME NEW s \in States, BeginGitHub(s) PROVE [Next]_vars
  BY <1>2 DEF BeginGitHub, Next
<1>3. ASSUME NEW c \in Callbacks, NEW q \in Queries, Arrive(c, q) PROVE [Next]_vars
  BY <1>3 DEF Arrive, vars
<1>4. CASE Die \/ Tick \/ UNCHANGED allVars
  BY <1>4 DEF Die, Next, allVars, vars
<1> QED
  BY <1>1, <1>2, <1>3, <1>4 DEF LoginNext, BeginGoogle, CallbackGoogle

(* The store does not forget that it has accepted a value. *)
LEMMA AcceptedStays ==
    ASSUME Inv, [Next]_vars, NEW s \in States, accepted[s] > 0
    PROVE  accepted'[s] > 0
<1>1. ASSUME NEW t \in States, Validate(t) PROVE accepted'[s] > 0
  BY <1>1 DEF Inv, TypeOK, Validate
<1> QED
  BY <1>1 DEF Next, Generate, Restart, Tick, vars

(* A callback that somebody else's step leaves alone keeps its invariant. *)
LEMMA OthersKeep ==
    ASSUME LoginInv, [Next]_vars, NEW c \in Callbacks,
           step'[c] = step[c], answer'[c] = answer[c],
           c \in resolved' <=> c \in resolved, c \in stored' <=> c \in stored,
           c \in DOMAIN query' <=> c \in DOMAIN query,
           c \in DOMAIN query => query'[c] = query[c]
    PROVE  CallbackInv(c)'
<1>1. CallbackInv(c)
  BY DEF LoginInv, CallbacksInv
<1>2. step[c] # "idle" /\ accepted[query[c].state] > 0 => accepted'[query[c].state] > 0
  BY QueryType, AcceptedStays DEF LoginInv
<1>3. c \in resolved => step[c] # "idle"
  BY <1>1 DEF CallbackInv
<1> QED
  BY <1>1, <1>2, <1>3 DEF CallbackInv, PastState, PastError

LEMMA LoginInvInit == LoginInit => LoginInv
<1> SUFFICES ASSUME LoginInit PROVE LoginInv
  OBVIOUS
<1>1. Inv
  BY InvInit DEF LoginInit
<1>2. LoginTypeOK
  BY <1>1 DEF LoginInit, LoginTypeOK, Inv
<1>3. CallbacksInv /\ OneOwner
  BY DEF LoginInit, CallbacksInv, CallbackInv, OneOwner, Owns, PastState, PastError
<1> QED
  BY <1>1, <1>2, <1>3 DEF LoginInv

(* One step of the handler of a callback. *)
LEMMA CallbackKeeps ==
    ASSUME LoginInv, NEW c \in Callbacks, CallbackGitHub(c)
    PROVE  /\ LoginTypeOK' \/ ~TypeOK'
           /\ CallbackInv(c)'
<1> DEFINE s == query[c].state
<1>a. /\ step \in [Callbacks -> Running \cup {"idle", "done", "killed"}]
      /\ answer \in [Callbacks -> Seq(Status)]
      /\ resolved \subseteq Callbacks /\ stored \subseteq Callbacks
  BY DEF LoginInv, LoginTypeOK
<1>b. CallbackInv(c) /\ query' = query
  BY DEF LoginInv, CallbacksInv, CallbackGitHub, CheckState, CheckError, CompleteUserAuth,
     ResolveOrCreateUser, IssueSessionToken, Respond
<1>c. step[c] # "idle" /\ c \in DOMAIN query /\ s \in States
  BY QueryType DEF CallbackGitHub, CheckState, CheckError, CompleteUserAuth,
     ResolveOrCreateUser, IssueSessionToken, Respond
<1>d. ASSUME NEW st \in Status, Answer(c, st), answer[c] = <<>>
      PROVE  /\ step'[c] = "done" /\ answer'[c] = <<st>>
             /\ answer' \in [Callbacks -> Seq(Status)]
             /\ step' \in [Callbacks -> Running \cup {"idle", "done", "killed"}]
  BY <1>a, <1>d DEF Answer
<1>e. ASSUME NEW n \in Running, Goto(c, n)
      PROVE  /\ step'[c] = n /\ answer' = answer
             /\ step' \in [Callbacks -> Running \cup {"idle", "done", "killed"}]
  BY <1>a, <1>e DEF Goto
<1>f. accepted[s] \in Nat
  BY <1>c DEF LoginInv, Inv, TypeOK
<1>g. LoginTypeOK' \/ ~TypeOK'
  <2>1. /\ step' \in [Callbacks -> Running \cup {"idle", "done", "killed"}]
        /\ answer' \in [Callbacks -> Seq(Status)]
    <3>1. answer[c] = <<>>
      BY <1>b DEF CallbackInv, CallbackGitHub, CheckState, CheckError, CompleteUserAuth,
         ResolveOrCreateUser, IssueSessionToken, Respond
    <3>2. \/ \E st \in Status : Answer(c, st)
          \/ \E n \in Running : Goto(c, n)
      BY DEF CallbackGitHub, CheckState, CheckError, CompleteUserAuth,
         ResolveOrCreateUser, IssueSessionToken, Respond, Status, Success, Refused, Running
    <3> QED
      BY <3>1, <3>2, <1>a, <1>d, <1>e
  <2>2. resolved' \subseteq Callbacks /\ stored' \subseteq Callbacks
    BY <1>a DEF CallbackGitHub, CheckState, CheckError, CompleteUserAuth,
       ResolveOrCreateUser, IssueSessionToken, Respond
  <2> QED
    BY <2>1, <2>2, <1>b DEF LoginTypeOK, LoginInv
<1> SUFFICES CallbackInv(c)'
  BY <1>g
<1> USE DEF Status, Success, Refused, Running, PastState, PastError
<1>1. CASE CheckState(c)
  <2>1. step[c] = "state" /\ answer[c] = <<>> /\ resolved' = resolved /\ stored' = stored
        /\ c \notin resolved /\ c \notin stored
    BY <1>1, <1>b DEF CheckState, CallbackInv
  <2>2. CASE Valid(s)
    <3>1. accepted'[s] > 0
      BY <1>1, <2>2, <1>c, <1>f DEF CheckState, Validate, LoginInv, Inv, TypeOK
    <3>2. step'[c] = "error" /\ answer' = answer
      BY <1>1, <2>2, <1>e DEF CheckState
    <3> QED
      BY <2>1, <3>1, <3>2, <1>b, <1>c DEF CallbackInv
  <2>3. CASE ~Valid(s)
    <3>1. step'[c] = "done" /\ answer'[c] = <<"400">>
      BY <1>1, <2>1, <2>3, <1>d DEF CheckState
    <3> QED
      BY <2>1, <3>1, <1>b, <1>c DEF CallbackInv
  <2> QED
    BY <2>2, <2>3
<1>2. CASE CheckError(c)
  <2>1. step[c] = "error" /\ answer[c] = <<>> /\ resolved' = resolved /\ stored' = stored
        /\ c \notin resolved /\ c \notin stored /\ accepted' = accepted
    BY <1>2, <1>b DEF CheckError, CallbackInv, vars
  <2>2. CASE query[c].error
    <3>1. step'[c] = "done" /\ answer'[c] = <<"401">>
      BY <1>2, <2>1, <2>2, <1>d DEF CheckError
    <3> QED
      BY <2>1, <3>1, <1>b, <1>c DEF CallbackInv
  <2>3. CASE ~query[c].error
    <3>1. step'[c] = "complete" /\ answer' = answer
      BY <1>2, <2>3, <1>e DEF CheckError
    <3> QED
      BY <2>1, <2>3, <3>1, <1>b, <1>c DEF CallbackInv
  <2> QED
    BY <2>2, <2>3
<1>3. CASE CompleteUserAuth(c)
  <2>1. step[c] = "complete" /\ answer[c] = <<>> /\ resolved' = resolved /\ stored' = stored
        /\ c \notin resolved /\ c \notin stored /\ accepted' = accepted
    BY <1>3, <1>b DEF CompleteUserAuth, CallbackInv, vars
  <2>2. ASSUME NEW st \in {"500", "422"}, Answer(c, st) PROVE CallbackInv(c)'
    <3>1. step'[c] = "done" /\ answer'[c] = <<st>>
      BY <2>1, <2>2, <1>d
    <3> QED
      BY <2>1, <3>1, <1>b, <1>c DEF CallbackInv
  <2>3. CASE Goto(c, "resolve")
    <3>1. step'[c] = "resolve" /\ answer' = answer
      BY <2>3, <1>e
    <3> QED
      BY <2>1, <3>1, <1>b, <1>c DEF CallbackInv
  <2> QED
    BY <1>3, <2>2, <2>3 DEF CompleteUserAuth
<1>4. CASE ResolveOrCreateUser(c)
  <2>1. step[c] = "resolve" /\ answer[c] = <<>> /\ stored' = stored
        /\ c \notin stored /\ accepted' = accepted
        /\ accepted[s] > 0 /\ ~query[c].error
    BY <1>4, <1>b DEF ResolveOrCreateUser, CallbackInv, vars
  <2>2. CASE Goto(c, "issue") /\ resolved' = resolved \cup {c}
    <3>1. step'[c] = "issue" /\ answer' = answer
      BY <2>2, <1>e
    <3> QED
      BY <2>1, <2>2, <3>1, <1>b, <1>c DEF CallbackInv
  <2>3. CASE Answer(c, "500")
    <3>1. step'[c] = "done" /\ answer'[c] = <<"500">>
      BY <2>1, <2>3, <1>d
    <3> QED
      BY <2>1, <3>1, <1>b, <1>c DEF CallbackInv
  <2> QED
    BY <1>4, <2>2, <2>3 DEF ResolveOrCreateUser
<1>5. CASE IssueSessionToken(c)
  <2>1. step[c] = "issue" /\ answer[c] = <<>> /\ resolved' = resolved
        /\ c \in resolved /\ accepted' = accepted
        /\ accepted[s] > 0 /\ ~query[c].error
    BY <1>5, <1>b DEF IssueSessionToken, CallbackInv, vars
  <2>2. CASE Goto(c, "respond") /\ stored' = stored \cup {c}
    <3>1. step'[c] = "respond" /\ answer' = answer
      BY <2>2, <1>e
    <3> QED
      BY <2>1, <2>2, <3>1, <1>b, <1>c DEF CallbackInv
  <2>3. CASE Answer(c, "500")
    <3>1. step'[c] = "done" /\ answer'[c] = <<"500">>
      BY <2>1, <2>3, <1>d
    <3> QED
      BY <2>1, <3>1, <1>b, <1>c DEF CallbackInv
  <2> QED
    BY <1>5, <2>2, <2>3 DEF IssueSessionToken
<1>6. CASE Respond(c)
  <2>1. step[c] = "respond" /\ answer[c] = <<>> /\ resolved' = resolved /\ stored' = stored
        /\ c \in resolved /\ c \in stored /\ accepted' = accepted
        /\ accepted[s] > 0 /\ ~query[c].error
    BY <1>6, <1>b DEF Respond, CallbackInv, vars
  <2>2. PICK st \in Success : Answer(c, st)
    BY <1>6 DEF Respond
  <2>3. step'[c] = "done" /\ answer'[c] = <<st>>
    BY <2>1, <2>2, <1>d
  <2> QED
    BY <2>1, <2>3, <1>b, <1>c DEF CallbackInv
<1> QED
  BY <1>1, <1>2, <1>3, <1>4, <1>5, <1>6 DEF CallbackGitHub

(* A step by which nobody becomes an owner keeps owners apart. *)
LEMMA OwnersStay ==
    ASSUME LoginInv, \A c \in Callbacks : Owns(c)' => Owns(c) /\ query'[c] = query[c]
    PROVE  OneOwner'
  BY DEF LoginInv, OneOwner

(* A state value that some callback owns is not valid any more. *)
LEMMA OwnedIsSpent ==
    ASSUME LoginInv, NEW c \in Callbacks, Owns(c)
    PROVE  step[c] # "idle" /\ ~Valid(query[c].state)
<1>1. CallbackInv(c)
  BY DEF LoginInv, CallbacksInv
<1>2. step[c] # "idle" /\ accepted[query[c].state] > 0
  BY <1>1 DEF CallbackInv, Owns, PastState
<1>3. query[c].state \in States
  BY <1>2, QueryType
<1> QED
  BY <1>2, <1>3 DEF LoginInv, Inv, HistoryInv, OutstandingIsRedeemable, Valid

(* Only a callback whose state is valid becomes an owner. *)
LEMMA CallbackKeepsOwners ==
    ASSUME LoginInv, NEW c \in Callbacks, CallbackGitHub(c)
    PROVE  OneOwner'
<1>1. /\ query' = query
      /\ \A d \in Callbacks \ {c} : Owns(d)' <=> Owns(d)
  BY DEF CallbackGitHub, CheckState, CheckError, CompleteUserAuth, ResolveOrCreateUser,
     IssueSessionToken, Respond, Goto, Answer, Owns, LoginInv, LoginTypeOK
<1>2. CASE Owns(c) \/ ~Owns(c)'
  BY <1>1, <1>2, OwnersStay
<1>3. CASE ~Owns(c) /\ Owns(c)'
  <2>1. CheckState(c) /\ Valid(query[c].state)
    BY <1>3 DEF CallbackGitHub, CheckState, CheckError, CompleteUserAuth,
       ResolveOrCreateUser, IssueSessionToken, Respond, Goto, Answer, Owns, PastState,
       LoginInv, LoginTypeOK
  <2>2. \A d \in Callbacks : Owns(d) => query[d].state # query[c].state
    BY <2>1, OwnedIsSpent
  <2> QED
    BY <1>1, <2>2 DEF OneOwner, LoginInv
<1> QED
  BY <1>2, <1>3

LEMMA LoginInvNext == LoginInv /\ [LoginNext]_allVars => LoginInv'
<1> SUFFICES ASSUME LoginInv, [LoginNext]_allVars PROVE LoginInv'
  OBVIOUS
<1>1. [Next]_vars
  BY StoreStep
<1>2. Inv' /\ TypeOK'
  BY <1>1, InvNext DEF LoginInv, Inv
<1>3. ASSUME UNCHANGED loginVars PROVE LoginInv'
  <2>1. UNCHANGED <<query, step, answer, resolved, stored>>
    BY <1>3 DEF loginVars
  <2>2. CallbacksInv'
    BY <2>1, <1>1, OthersKeep DEF CallbacksInv
  <2>3. LoginTypeOK'
    BY <2>1, <1>2 DEF LoginInv, LoginTypeOK
  <2>4. OneOwner'
    BY <2>1, OwnersStay DEF Owns
  <2> QED
    BY <1>2, <2>2, <2>3, <2>4 DEF LoginInv
<1>4. ASSUME NEW c \in Callbacks, CallbackGitHub(c) PROVE LoginInv'
  <2>1. LoginTypeOK' /\ CallbackInv(c)'
    BY <1>2, <1>4, CallbackKeeps
  <2>2. ASSUME NEW d \in Callbacks, d # c PROVE CallbackInv(d)'
    <3>1. /\ step'[d] = step[d] /\ answer'[d] = answer[d] /\ query' = query
          /\ d \in resolved' <=> d \in resolved
          /\ d \in stored' <=> d \in stored
      BY <1>4, <2>2 DEF CallbackGitHub, CheckState, CheckError, CompleteUserAuth,
         ResolveOrCreateUser, IssueSessionToken, Respond, Goto, Answer, LoginInv,
         LoginTypeOK
    <3> QED
      BY <1>1, <3>1, OthersKeep
  <2>3. CallbacksInv'
    BY <2>1, <2>2 DEF CallbacksInv
  <2>4. OneOwner'
    BY <1>4, CallbackKeepsOwners
  <2> QED
    BY <1>2, <2>1, <2>3, <2>4 DEF LoginInv
<1>5. ASSUME NEW c \in Callbacks, NEW q \in Queries, Arrive(c, q) PROVE LoginInv'
  <2>1. /\ step' = [step EXCEPT ![c] = "state"] /\ query' = With(query, c, q)
        /\ step[c] = "idle" /\ UNCHANGED <<vars, answer, resolved, stored>>
    BY <1>5 DEF Arrive
  <2>2. LoginTypeOK'
    <3>1. DOMAIN query' \subseteq Callbacks /\ \A d \in DOMAIN query' : query'[d] \in Queries
      BY <2>1 DEF LoginInv, LoginTypeOK, With
    <3>2. step' \in [Callbacks -> Running \cup {"idle", "done", "killed"}]
      BY <2>1 DEF LoginInv, LoginTypeOK, Running
    <3> QED
      BY <2>1, <3>1, <3>2, <1>2 DEF LoginInv, LoginTypeOK
  <2>3. CallbackInv(c)'
    <3>1. CallbackInv(c)
      BY DEF LoginInv, CallbacksInv
    <3>2. step'[c] = "state" /\ c \in DOMAIN query'
      BY <2>1 DEF With, LoginInv, LoginTypeOK
    <3> QED
      BY <2>1, <3>1, <3>2 DEF CallbackInv, PastState, PastError
  <2>4. ASSUME NEW d \in Callbacks, d # c PROVE CallbackInv(d)'
    <3>1. /\ step'[d] = step[d]
          /\ d \in DOMAIN query' <=> d \in DOMAIN query
          /\ d \in DOMAIN query => query'[d] = query[d]
      BY <2>1, <2>4 DEF With, LoginInv, LoginTypeOK
    <3> QED
      BY <1>1, <2>1, <3>1, OthersKeep
  <2>5. OneOwner'
    <3>1. ASSUME NEW d \in Callbacks, Owns(d)' PROVE Owns(d) /\ query'[d] = query[d]
      <4>1. Owns(d)
        BY <2>1, <3>1 DEF Owns, PastState, LoginInv, LoginTypeOK
      <4>2. step[d] # "idle"
        BY <4>1, OwnedIsSpent
      <4> QED
        BY <4>1, <4>2, <2>1, QueryType DEF With
    <3> QED
      BY <3>1, OwnersStay
  <2> QED
    BY <1>2, <2>2, <2>3, <2>4, <2>5 DEF LoginInv, CallbacksInv
<1>6. CASE Die
  <2>1. /\ step' = [c \in Callbacks |-> IF step[c] \in Running THEN "killed" ELSE step[c]]
        /\ UNCHANGED <<query, answer, resolved, stored, accepted>>
    BY <1>6 DEF Die, Restart
  <2>2. LoginTypeOK'
    <3>1. step' \in [Callbacks -> Running \cup {"idle", "done", "killed"}]
      BY <2>1 DEF LoginInv, LoginTypeOK
    <3> QED
      BY <2>1, <3>1, <1>2 DEF LoginInv, LoginTypeOK
  <2>3. ASSUME NEW c \in Callbacks PROVE CallbackInv(c)'
    <3>1. CallbackInv(c)
      BY DEF LoginInv, CallbacksInv
    <3>2. step'[c] = IF step[c] \in Running THEN "killed" ELSE step[c]
      BY <2>1
    <3> QED
      BY <2>1, <3>1, <3>2 DEF CallbackInv, PastState, PastError, Running
  <2>4. OneOwner'
    BY <2>1, OwnersStay DEF Owns, PastState, Running
  <2> QED
    BY <1>2, <2>2, <2>3, <2>4 DEF LoginInv, CallbacksInv
<1> QED
  BY <1>3, <1>4, <1>5, <1>6
     DEF LoginNext, BeginGitHub, BeginGoogle, CallbackGoogle, allVars

-------------------------------------------------------------------------------
(* The handlers and the store keep their types. *)
THEOREM LoginTypeCorrect == LoginSpec => []LoginTypeOK
<1>1. LoginInv => LoginTypeOK
  BY DEF LoginInv
<1> QED
  BY <1>1, LoginInvInit, LoginInvNext, PTL DEF LoginSpec

(* The handlers use the store as its specification says: what is proved of   *)
(* the store alone holds under them.                                         *)
THEOREM HandlersUseStore == LoginSpec => Init /\ [][Next]_vars
<1>1. LoginInit => Init
  BY DEF LoginInit
<1> QED
  BY <1>1, StoreStep, LoginInvInit, LoginInvNext, PTL DEF LoginSpec

(* Validate accepts a state value at most once, and only within its TTL. *)
THEOREM SingleUse == LoginSpec => []RedeemedOnceInTime
<1>1. LoginInv => RedeemedOnceInTime
  <2> SUFFICES ASSUME LoginInv, NEW s \in States
               PROVE  /\ accepted[s] =< 1
                      /\ accepted[s] > 0 => /\ issuedAt[s] =< acceptedAt[s]
                                            /\ acceptedAt[s] < issuedAt[s] + StateTTL
    BY DEF RedeemedOnceInTime
  <2>1. /\ accepted[s] \in {0, 1}
        /\ accepted[s] = 1 => /\ issuedAt[s] =< acceptedAt[s]
                              /\ acceptedAt[s] < issuedAt[s] + StateTTL
    BY DEF LoginInv, Inv, HistoryInv
  <2> QED
    BY <2>1
<1> QED
  BY <1>1, LoginInvInit, LoginInvNext, PTL DEF LoginSpec

(* A state value that was given out stays redeemable until it is presented. *)
THEOREM Redeemable == LoginSpec => []OutstandingIsRedeemable
<1>1. LoginInv => OutstandingIsRedeemable
  BY DEF LoginInv, Inv
<1> QED
  BY <1>1, LoginInvInit, LoginInvNext, PTL DEF LoginSpec

(* However often a login's callback URL is loaded, and however the handlers  *)
(* interleave, one refresh token is stored for it at most.                   *)
THEOREM LoginsAreSingle == LoginSpec => []OneSessionPerLogin
<1>1. LoginInv => OneSessionPerLogin
  <2> SUFFICES ASSUME LoginInv, NEW s \in States
               PROVE  Cardinality({c \in stored : query[c].state = s}) =< 1
    BY DEF OneSessionPerLogin
  <2> DEFINE S == {c \in stored : query[c].state = s}
  <2>1. ASSUME NEW c \in S, NEW d \in S PROVE c = d
    BY DEF LoginInv, LoginTypeOK, OneOwner, Owns
  <2>2. CASE S = {}
    BY <2>2, FS_EmptySet
  <2>3. CASE S # {}
    <3>1. PICK c : S = {c}
      BY <2>1, <2>3
    <3>2. Cardinality({c}) = 1
      BY FS_Singleton
    <3> HIDE DEF S
    <3>3. Cardinality(S) = 1
      BY <3>1, <3>2
    <3> QED
      BY <3>3 DEF S
  <2> QED
    BY <2>2, <2>3
<1> QED
  BY <1>1, LoginInvInit, LoginInvNext, PTL DEF LoginSpec

(* Each callback is answered once, at the end of its handler. *)
THEOREM AnswersAreSingle == LoginSpec => []AnsweredOnce
<1>1. LoginInv => AnsweredOnce
  <2> SUFFICES ASSUME LoginInv, NEW c \in Callbacks
               PROVE  Len(answer[c]) = IF step[c] = "done" THEN 1 ELSE 0
    BY DEF AnsweredOnce
  <2>1. CallbackInv(c)
    BY DEF LoginInv, CallbacksInv
  <2>2. CASE step[c] = "done"
    <3>1. PICK st \in Status : answer[c] = <<st>>
      BY <2>1, <2>2 DEF CallbackInv
    <3> QED
      BY <2>2, <3>1
  <2>3. CASE step[c] # "done"
    <3>1. answer[c] = <<>>
      BY <2>1, <2>3 DEF CallbackInv
    <3> QED
      BY <2>3, <3>1
  <2> QED
    BY <2>2, <2>3
<1> QED
  BY <1>1, LoginInvInit, LoginInvNext, PTL DEF LoginSpec

(* Rows are written only for a login whose state was accepted and whose      *)
(* provider reported no error.                                               *)
THEOREM RowsVouchedFor == LoginSpec => []RowsAreVouchedFor
<1>1. LoginInv => RowsAreVouchedFor
  <2> SUFFICES ASSUME LoginInv PROVE RowsAreVouchedFor
    OBVIOUS
  <2>1. resolved \subseteq Callbacks /\ stored \subseteq Callbacks
    BY DEF LoginInv, LoginTypeOK
  <2>2. \A c \in Callbacks : CallbackInv(c)
    BY DEF LoginInv, CallbacksInv
  <2> QED
    BY <2>1, <2>2 DEF CallbackInv, RowsAreVouchedFor
<1> QED
  BY <1>1, LoginInvInit, LoginInvNext, PTL DEF LoginSpec

(* A success hands out tokens that are stored, a refusal leaves no rows. *)
THEOREM StatusesTruthful == LoginSpec => []StatusTellsEffect
<1>1. LoginInv => StatusTellsEffect
  <2> SUFFICES ASSUME LoginInv, NEW c \in Callbacks, NEW i \in DOMAIN answer[c]
               PROVE  /\ answer[c][i] \in Success => c \in stored
                      /\ answer[c][i] \in Refused => c \notin resolved
    BY DEF StatusTellsEffect
  <2>1. CallbackInv(c)
    BY DEF LoginInv, CallbacksInv
  <2>2. step[c] = "done"
    BY <2>1 DEF CallbackInv
  <2>3. PICK st \in Status : /\ answer[c] = <<st>>
                             /\ st \in Success => c \in stored
                             /\ st \in Refused => c \notin resolved
    BY <2>1, <2>2 DEF CallbackInv
  <2>4. answer[c][i] = st
    BY <2>3
  <2> QED
    BY <2>3, <2>4
<1> QED
  BY <1>1, LoginInvInit, LoginInvNext, PTL DEF LoginSpec
===============================================================================
