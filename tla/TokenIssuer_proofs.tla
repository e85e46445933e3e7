-------------------------- MODULE TokenIssuer_proofs --------------------------
(***************************************************************************)
(* Proofs about TokenIssuer for any number of requests and users and any   *)
(* lifetimes: type correctness, the safety of refresh and revocation, and  *)
(* the refinement of TokenLedger.                                          *)
(***************************************************************************)
EXTENDS TokenIssuer, TLAPS

(* The refresh of r has passed its checks. *)
Found(r) ==
    /\ presented[r] \in Requests
    /\ minted[presented[r]] # NoUser
    /\ subject[r] = minted[presented[r]]
    /\ issuedAt[presented[r]] =< foundAt[r]
    /\ foundAt[r] =< issuedAt[presented[r]] + RefreshTTL
    /\ ~late[r]

(* The rows agree with the history of their insertion. *)
RowsInv ==
    \A t \in DOMAIN tokens :
        /\ minted[t] # NoUser
        /\ tokens[t].user = minted[t]
        /\ tokens[t].expiresAt = issuedAt[t] + RefreshTTL

(* Which handler is at which step, and what it has minted. *)
ControlInv(r) ==
    /\ pc[r] # "done" => minted[r] = NoUser /\ outcome[r] = "none"
    /\ pc[r] = "idle" => ~late[r]
    /\ pc[r] # "idle" => kind[r] # "none"
    /\ pc[r] \in {"find", "findUser", "rotate"} => kind[r] = "refresh"
    /\ pc[r] \in {"sign", "create"} => kind[r] \in {"login", "refresh"}
    /\ pc[r] = "revoke" => kind[r] = "revoke"
    /\ pc[r] \in Steps \ {"find"} => subject[r] \in Users
    /\ pc[r] = "create" => issuedAt[r] =< clock
    /\ minted[r] # NoUser => minted[r] = subject[r] /\ issuedAt[r] =< clock
    /\ Issued(r) => minted[r] # NoUser

(* Where the subject of a refresh or a revocation comes from. *)
OriginInv(r) ==
    /\ kind[r] = "refresh" /\ presented[r] # Garbage => minted[presented[r]] # NoUser
    /\ kind[r] = "refresh" /\ (pc[r] \in {"findUser", "rotate", "sign", "create"}
                                 \/ outcome[r] = "ok") => Found(r)
    /\ kind[r] = "refresh" /\ (pc[r] \in {"sign", "create"} \/ outcome[r] = "ok") =>
           Dead(presented[r])
    /\ kind[r] = "revoke" /\ (pc[r] = "revoke" \/ outcome[r] = "ok") =>
           /\ presented[r] \in Requests
           /\ minted[presented[r]] # NoUser
           /\ subject[r] = minted[presented[r]]

(* A token that was dead when the request began is dead now. *)
LateInv(r) ==
    late[r] => /\ kind[r] = "refresh"
               /\ pc[r] \in {"find", "done"}
               /\ outcome[r] # "ok"
               /\ Dead(presented[r])

(* The role seen at the start is seen again, or has been read; and a role    *)
(* that has been read is still the user's.                                   *)
ClaimInv(r) ==
    /\ startRole[r] = "platform_admin" =>
        /\ pc[r] \in {"find", "findUser"} =>
               presented[r] # Garbage /\ role[minted[presented[r]]] = "platform_admin"
        /\ pc[r] \in {"rotate", "sign", "create"} \/ Issued(r) =>
               claim[r] = "platform_admin"
    /\ pc[r] \in {"rotate", "sign", "create"} \/ Issued(r) =>
        (claim[r] = "platform_admin" => role[subject[r]] = "platform_admin")

ReqInv(r) == ControlInv(r) /\ OriginInv(r) /\ LateInv(r) /\ ClaimInv(r)

Inv == TypeOK /\ RowsInv /\ \A r \in Requests : ReqInv(r)

-------------------------------------------------------------------------------
(* What every step preserves.                                              *)

SameRequest(q) ==
    /\ pc'[q] = pc[q] /\ kind'[q] = kind[q] /\ presented'[q] = presented[q]
    /\ subject'[q] = subject[q] /\ claim'[q] = claim[q] /\ issuedAt'[q] = issuedAt[q]
    /\ outcome'[q] = outcome[q] /\ minted'[q] = minted[q] /\ foundAt'[q] = foundAt[q]
    /\ late'[q] = late[q] /\ startRole'[q] = startRole[q]

(* A token keeps the user and the instant it was minted with, and once it is *)
(* gone it stays away; nobody loses the admin role; time does not run back.  *)
Stable ==
    /\ \A t \in Requests : minted[t] # NoUser =>
           /\ minted'[t] = minted[t]
           /\ issuedAt'[t] = issuedAt[t]
           /\ t \notin DOMAIN tokens => t \notin DOMAIN tokens'
    /\ \A u \in Users : role[u] = "platform_admin" => role'[u] = "platform_admin"
    /\ clock =< clock'

(* The requests that do not act keep their invariant. *)
LEMMA SameRequestKeeps ==
  ASSUME Inv, TypeOK', Stable, NEW q \in Requests, SameRequest(q)
  PROVE  ReqInv(q)'
<1>1. ReqInv(q) /\ TypeOK
  BY DEF Inv
<1>2. Found(q) => Found(q)'
  BY DEF Found, SameRequest, Stable
<1>3. ControlInv(q)'
  BY <1>1 DEF ReqInv, ControlInv, SameRequest, Stable, Issued, TypeOK, Times
<1>4. OriginInv(q)'
  <2>1. presented[q] \in Requests \cup {Garbage}
    BY <1>1 DEF TypeOK
  <2> QED
    BY <1>1, <1>2, <2>1 DEF ReqInv, OriginInv, SameRequest, Stable, Dead
<1>5. LateInv(q)'
  BY <1>1 DEF ReqInv, LateInv, SameRequest, Stable, Dead
<1>6. ClaimInv(q)'
  <2>1. presented[q] \in Requests \cup {Garbage} /\ minted \in [Requests -> Users \cup {NoUser}]
    BY <1>1 DEF TypeOK
  <2>2. /\ pc[q] \in {"find", "findUser"} /\ presented[q] # Garbage =>
             presented[q] \in Requests /\ minted[presented[q]] # NoUser
    BY <1>1, <2>1 DEF ReqInv, ControlInv, OriginInv
  <2>3. pc[q] \in {"rotate", "sign", "create"} \/ Issued(q) => subject[q] \in Users
    BY <1>1, <2>1 DEF ReqInv, ControlInv, Steps
  <2> QED
    BY <1>1, <2>1, <2>2, <2>3 DEF ReqInv, ClaimInv, SameRequest, Stable, Issued
<1> QED
  BY <1>3, <1>4, <1>5, <1>6 DEF ReqInv

-------------------------------------------------------------------------------
LEMMA InvInit == Init => Inv
<1> SUFFICES ASSUME Init PROVE Inv
  OBVIOUS
<1>1. TypeOK
  BY TimesAssumption DEF Init, TypeOK, Roles, Outcomes, Times
<1>2. RowsInv
  BY DEF Init, RowsInv
<1>3. \A r \in Requests : ReqInv(r)
  BY DEF Init, ReqInv, ControlInv, OriginInv, LateInv, ClaimInv, Issued, Steps
<1> QED
  BY <1>1, <1>2, <1>3 DEF Inv

(* The types alone: every step, given Inv. *)
LEMMA TypeNext == Inv /\ [Next]_vars => TypeOK'
<1> SUFFICES ASSUME Inv, [Next]_vars PROVE TypeOK'
  OBVIOUS
<1> USE TimesAssumption
<1>t. TypeOK /\ RowsInv /\ \A r \in Requests : ReqInv(r)
  BY DEF Inv
<1>1. CASE UNCHANGED vars \/ AllReturned
  BY <1>1, <1>t DEF vars, locals, AllReturned, TypeOK
<1>2. ASSUME NEW r \in Requests, NEW u \in Users, BeginLogin(r, u) PROVE TypeOK'
  BY <1>2, <1>t DEF BeginLogin, Begin, Advance, TypeOK, Steps, Roles
<1>3. ASSUME NEW r \in Requests, NEW t \in Requests \cup {Garbage}, BeginRefresh(r, t)
      PROVE  TypeOK'
  <2>1. t # Garbage => minted[t] \in Users
    BY <1>3, <1>t DEF BeginRefresh, ReqInv, ControlInv, TypeOK
  <2>2. (IF t = Garbage THEN "platform_member" ELSE role[minted[t]]) \in Roles
    BY <1>t, <2>1 DEF TypeOK, Roles
  <2>3. Dead(t) \in BOOLEAN
    BY DEF Dead
  <2> QED
    BY <1>3, <1>t, <2>2, <2>3 DEF BeginRefresh, Begin, Advance, TypeOK, Steps
<1>4. ASSUME NEW r \in Requests, NEW j \in Requests, BeginRevoke(r, j) PROVE TypeOK'
  <2>1. subject[j] \in Users \cup {NoUser}
    BY <1>t DEF TypeOK
  <2> QED
    BY <1>4, <1>t, <2>1 DEF BeginRevoke, Refusal, Begin, Advance, Return, TypeOK, Steps, Outcomes
<1>5. ASSUME NEW r \in Requests, FindToken(r) PROVE TypeOK'
  <2>1. Valid(presented[r]) => tokens[presented[r]].user \in Users
    BY <1>t DEF Valid, TypeOK
  <2> QED
    BY <1>5, <1>t, <2>1 DEF FindToken, Advance, Return, TypeOK, Steps, Outcomes
<1>6. ASSUME NEW r \in Requests, FindUser(r) PROVE TypeOK'
  <2>1. CurrentRole(r) \in Roles
    BY <1>6, <1>t DEF FindUser, CurrentRole, ReqInv, ControlInv, TypeOK, Steps
  <2> QED
    BY <1>6, <1>t, <2>1 DEF FindUser, Advance, TypeOK, Steps
<1>7. ASSUME NEW r \in Requests, Rotate(r) PROVE TypeOK'
  BY <1>7, <1>t
  DEF Rotate, WithoutUser, AfterWrite, Advance, Return, locals, TypeOK, Steps, Outcomes
<1>8. ASSUME NEW r \in Requests, Sign(r) PROVE TypeOK'
  BY <1>8, <1>t DEF Sign, Advance, TypeOK, Steps
<1>9. ASSUME NEW r \in Requests, CreateToken(r) PROVE TypeOK'
  <2>1. subject[r] \in Users /\ issuedAt[r] + RefreshTTL \in Nat
    BY <1>9, <1>t DEF CreateToken, ReqInv, ControlInv, TypeOK, Steps, Times
  <2>2. \A t \in DOMAIN tokens' : tokens'[t] \in [user : Users, expiresAt : Nat]
    BY <1>9, <1>t, <2>1 DEF CreateToken, Inserted, TypeOK
  <2>3. DOMAIN tokens' \subseteq Requests
    BY <1>9, <1>t DEF CreateToken, Inserted, TypeOK
  <2> QED
    BY <1>9, <1>t, <2>1, <2>2, <2>3
    DEF CreateToken, ReturnAfterWrite, Return, locals, TypeOK, Outcomes
<1>10. ASSUME NEW r \in Requests, RevokeAll(r) PROVE TypeOK'
  <2>1. subject[r] \in Users
    BY <1>10, <1>t DEF RevokeAll, ReqInv, ControlInv, Steps
  <2> QED
    BY <1>10, <1>t, <2>1
    DEF RevokeAll, WithoutUser, ReturnAfterWrite, Return, locals, TypeOK, Outcomes
<1>11. ASSUME NEW r \in Requests, DbError(r) PROVE TypeOK'
  BY <1>11, <1>t DEF DbError, Return, locals, TypeOK, Outcomes
<1>12. ASSUME NEW u \in Users, UpgradeRole(u) PROVE TypeOK'
  BY <1>12, <1>t DEF UpgradeRole, locals, TypeOK, Roles
<1>13. CASE Tick
  BY <1>13, <1>t DEF Tick, locals, TypeOK, Times
<1> QED
  BY <1>1, <1>2, <1>3, <1>4, <1>5, <1>6, <1>7, <1>8, <1>9, <1>10, <1>11, <1>12, <1>13
  DEF Next, Step

(* The table and the history of the tokens. *)
LEMMA TableNext == Inv /\ [Next]_vars => Stable /\ RowsInv'
<1> SUFFICES ASSUME Inv, [Next]_vars PROVE Stable /\ RowsInv'
  OBVIOUS
<1> USE TimesAssumption
<1>t. TypeOK /\ RowsInv /\ \A r \in Requests : ReqInv(r)
  BY DEF Inv
<1>c. clock \in Nat
  BY <1>t DEF TypeOK, Times
(* Most steps leave the table, the history and the roles alone. *)
<1>same. ASSUME UNCHANGED <<clock, role, tokens, minted, issuedAt>>
         PROVE  Stable /\ RowsInv'
  BY <1>same, <1>t, <1>c DEF Stable, RowsInv
<1>del. ASSUME NEW u, tokens' = WithoutUser(u),
               UNCHANGED <<clock, role, minted, issuedAt>>
        PROVE  Stable /\ RowsInv'
  BY <1>del, <1>t, <1>c DEF WithoutUser, Stable, RowsInv
<1>1. CASE UNCHANGED vars \/ AllReturned
  BY <1>1, <1>same DEF vars, locals, AllReturned
<1>2. ASSUME NEW r \in Requests,
             \/ \E u \in Users : BeginLogin(r, u)
             \/ \E t \in Requests \cup {Garbage} : BeginRefresh(r, t)
             \/ \E j \in Requests : BeginRevoke(r, j)
             \/ FindToken(r) \/ FindUser(r) \/ DbError(r)
      PROVE  Stable /\ RowsInv'
  BY <1>2, <1>same
  DEF BeginLogin, BeginRefresh, BeginRevoke, Refusal, Begin, FindToken, FindUser, DbError, locals
<1>3. ASSUME NEW r \in Requests, Rotate(r) \/ RevokeAll(r) PROVE Stable /\ RowsInv'
  BY <1>3, <1>del DEF Rotate, RevokeAll, locals
<1>4. ASSUME NEW r \in Requests, Sign(r) PROVE Stable /\ RowsInv'
  <2>1. minted[r] = NoUser
    BY <1>4, <1>t DEF Sign, ReqInv, ControlInv
  <2>2. \A t \in Requests : minted[t] # NoUser => issuedAt'[t] = issuedAt[t]
    BY <1>4, <1>t, <2>1 DEF Sign, TypeOK
  <2> QED
    BY <1>4, <1>t, <1>c, <2>2 DEF Sign, Stable, RowsInv, TypeOK
<1>5. ASSUME NEW r \in Requests, CreateToken(r) PROVE Stable /\ RowsInv'
  <2>1. minted[r] = NoUser /\ subject[r] \in Users /\ r \notin DOMAIN tokens
    BY <1>5, <1>t DEF CreateToken, ReqInv, ControlInv, RowsInv, Steps
  <2>2. CASE UNCHANGED <<tokens, minted>>
    BY <1>5, <1>same, <2>2 DEF CreateToken, locals
  <2>3. CASE tokens' = Inserted(r) /\ minted' = [minted EXCEPT ![r] = subject[r]]
    <3>1. UNCHANGED <<clock, role, issuedAt>>
      BY <1>5 DEF CreateToken, locals
    <3>2. minted'[r] = subject[r] /\ \A t \in Requests \ {r} : minted'[t] = minted[t]
      BY <1>t, <2>3 DEF TypeOK
    <3>3. Stable
      BY <1>c, <2>1, <2>3, <3>1, <3>2 DEF Stable, Inserted
    <3>4. RowsInv'
      BY <1>t, <2>1, <2>3, <3>1, <3>2, NamesAssumption DEF RowsInv, Inserted, TypeOK
    <3> QED
      BY <3>3, <3>4
  <2> QED
    BY <1>5, <2>2, <2>3 DEF CreateToken
<1>6. ASSUME NEW u \in Users, UpgradeRole(u) PROVE Stable /\ RowsInv'
  BY <1>6, <1>t, <1>c DEF UpgradeRole, locals, Stable, RowsInv, TypeOK
<1>7. CASE Tick
  BY <1>7, <1>t, <1>c DEF Tick, locals, Stable, RowsInv
<1> QED
  BY <1>1, <1>2, <1>3, <1>4, <1>5, <1>6, <1>7 DEF Next, Step

(* The request that acts. *)
LEMMA RequestsNext == Inv /\ [Next]_vars => \A r \in Requests : ReqInv(r)'
<1> SUFFICES ASSUME Inv, [Next]_vars PROVE \A r \in Requests : ReqInv(r)'
  OBVIOUS
<1> USE TimesAssumption, NamesAssumption
<1>t. TypeOK /\ RowsInv /\ \A r \in Requests : ReqInv(r)
  BY DEF Inv
<1>n. TypeOK' /\ RowsInv' /\ Stable
  BY TypeNext, TableNext
<1>same. \A q \in Requests : SameRequest(q) => ReqInv(q)'
  BY <1>n, SameRequestKeeps
<1>one. ASSUME NEW r \in Requests, \A q \in Requests \ {r} : SameRequest(q), ReqInv(r)'
        PROVE  \A q \in Requests : ReqInv(q)'
  BY <1>same, <1>one
<1>1. CASE UNCHANGED vars \/ AllReturned
  BY <1>1, <1>same DEF vars, locals, AllReturned, SameRequest
<1>2. ASSUME NEW r \in Requests, NEW u \in Users, BeginLogin(r, u)
      PROVE  \A q \in Requests : ReqInv(q)'
  <2>1. \A q \in Requests \ {r} : SameRequest(q)
    BY <1>2, <1>t DEF BeginLogin, Begin, Advance, TypeOK, SameRequest
  <2>2. /\ pc'[r] = "sign" /\ kind'[r] = "login" /\ subject'[r] = u
        /\ claim'[r] = startRole'[r] /\ outcome'[r] = "none" /\ minted'[r] = NoUser
        /\ ~late'[r] /\ claim'[r] = role[u] /\ role' = role
    BY <1>2, <1>t DEF BeginLogin, Begin, Advance, TypeOK, ReqInv, ControlInv
  <2>3. ReqInv(r)'
    BY <2>2 DEF ReqInv, ControlInv, OriginInv, LateInv, ClaimInv, Issued
  <2> QED
    BY <1>one, <2>1, <2>3
<1>3. ASSUME NEW r \in Requests, NEW t \in Requests \cup {Garbage}, BeginRefresh(r, t)
      PROVE  \A q \in Requests : ReqInv(q)'
  <2>1. \A q \in Requests \ {r} : SameRequest(q)
    BY <1>3, <1>t DEF BeginRefresh, Begin, Advance, TypeOK, SameRequest
  <2>2. /\ pc'[r] = "find" /\ kind'[r] = "refresh" /\ presented'[r] = t
        /\ outcome'[r] = "none" /\ minted'[r] = NoUser /\ late'[r] = Dead(t)
        /\ startRole'[r] = IF t = Garbage THEN "platform_member" ELSE role[minted[t]]
        /\ UNCHANGED <<minted, tokens, role>>
    BY <1>3, <1>t DEF BeginRefresh, Begin, Advance, TypeOK, ReqInv, ControlInv
  <2>3. t # Garbage => minted[t] # NoUser
    BY <1>3, <1>t DEF BeginRefresh, ReqInv, ControlInv
  <2>4. late'[r] => Dead(presented[r])'
    BY <2>2 DEF Dead
  <2>5. ReqInv(r)'
    BY <2>2, <2>3, <2>4 DEF ReqInv, ControlInv, OriginInv, LateInv, ClaimInv, Issued
  <2> QED
    BY <1>one, <2>1, <2>5
<1>4. ASSUME NEW r \in Requests, NEW j \in Requests, BeginRevoke(r, j)
      PROVE  \A q \in Requests : ReqInv(q)'
  <2>1. \A q \in Requests \ {r} : SameRequest(q)
    BY <1>4, <1>t DEF BeginRevoke, Refusal, Begin, Advance, Return, TypeOK, SameRequest
  <2>2. /\ pc'[r] \in {"revoke", "done"} /\ kind'[r] = "revoke" /\ presented'[r] = j
        /\ subject'[r] = subject[j] /\ outcome'[r] \in {"none", "unauthorized", "notFound"}
        /\ pc'[r] = "revoke" => outcome'[r] = "none"
        /\ minted' = minted /\ minted[r] = NoUser /\ ~late'[r]
    BY <1>4, <1>t DEF BeginRevoke, Refusal, Begin, Advance, Return, TypeOK, ReqInv, ControlInv
  <2>3. minted[j] # NoUser /\ subject[j] = minted[j] /\ minted[j] \in Users
    BY <1>4, <1>t DEF BeginRevoke, Refusal, ReqInv, ControlInv, TypeOK
  <2>4. ReqInv(r)'
    BY <2>2, <2>3 DEF ReqInv, ControlInv, OriginInv, LateInv, ClaimInv, Issued
  <2> QED
    BY <1>one, <2>1, <2>4
<1>5. ASSUME NEW r \in Requests, FindToken(r) PROVE \A q \in Requests : ReqInv(q)'
  <2>1. \A q \in Requests \ {r} : SameRequest(q)
    BY <1>5, <1>t DEF FindToken, Advance, Return, TypeOK, SameRequest
  <2>2. /\ kind'[r] = "refresh" /\ kind[r] = "refresh" /\ presented'[r] = presented[r]
        /\ late'[r] = late[r] /\ startRole'[r] = startRole[r] /\ minted[r] = NoUser
        /\ UNCHANGED <<minted, tokens, issuedAt, role>>
        /\ outcome[r] = "none"
    BY <1>5, <1>t DEF FindToken, ReqInv, ControlInv
  <2>3. CASE Valid(presented[r])
    <3>1. /\ pc'[r] = "findUser" /\ outcome'[r] = "none"
          /\ subject'[r] = tokens[presented[r]].user /\ foundAt'[r] = clock
      BY <1>5, <1>t, <2>2, <2>3 DEF FindToken, Advance, TypeOK
    <3>2. presented[r] \in DOMAIN tokens /\ presented[r] \in Requests
      BY <1>t, <2>3 DEF Valid, TypeOK
    <3>3. /\ subject'[r] = minted[presented[r]] /\ minted[presented[r]] # NoUser
          /\ tokens[presented[r]].expiresAt = issuedAt[presented[r]] + RefreshTTL
          /\ issuedAt[presented[r]] =< clock /\ subject'[r] \in Users
      BY <1>t, <3>1, <3>2 DEF RowsInv, ReqInv, ControlInv, TypeOK
    <3>4. ~late[r]
      BY <1>t, <3>2 DEF ReqInv, LateInv, Dead
    <3>5. Found(r)'
      BY <2>2, <2>3, <3>1, <3>2, <3>3, <3>4 DEF Found, Valid
    <3>6. ControlInv(r)' /\ OriginInv(r)' /\ LateInv(r)'
      BY <2>2, <3>1, <3>3, <3>4, <3>5 DEF ControlInv, OriginInv, LateInv, Issued, Found
    <3>7. ClaimInv(r)'
      BY <1>5, <1>t, <2>2, <3>1 DEF ReqInv, ClaimInv, Issued, FindToken
    <3> QED
      BY <1>one, <2>1, <3>6, <3>7 DEF ReqInv
  <2>4. CASE ~Valid(presented[r])
    <3>1. pc'[r] = "done" /\ outcome'[r] = "unauthorized"
      BY <1>5, <1>t, <2>4 DEF FindToken, Return, TypeOK
    <3>2. late'[r] => Dead(presented[r])'
      BY <1>t, <2>2 DEF ReqInv, LateInv, Dead
    <3>3. presented'[r] # Garbage => minted'[presented'[r]] # NoUser
      BY <1>t, <2>2 DEF ReqInv, OriginInv
    <3>4. ReqInv(r)'
      BY <2>2, <3>1, <3>2, <3>3
      DEF ReqInv, ControlInv, OriginInv, LateInv, ClaimInv, Issued, Steps
    <3> QED
      BY <1>one, <2>1, <3>4
  <2> QED
    BY <2>3, <2>4
(* A refresh past its checks stays so while its own fields are kept. *)
<1>f. ASSUME NEW r \in Requests, Found(r), minted[r] = NoUser,
             UNCHANGED <<presented, subject, foundAt, late>>
      PROVE  Found(r)' /\ (Dead(presented[r]) => Dead(presented[r])')
  BY <1>f, <1>n DEF Found, Stable, Dead
<1>6. ASSUME NEW r \in Requests, FindUser(r) PROVE \A q \in Requests : ReqInv(q)'
  <2>1. \A q \in Requests \ {r} : SameRequest(q)
    BY <1>6, <1>t DEF FindUser, Advance, TypeOK, SameRequest
  <2>2. /\ kind'[r] = "refresh" /\ pc'[r] = "rotate" /\ outcome'[r] = "none"
        /\ minted'[r] = NoUser /\ subject'[r] \in Users /\ minted[r] = NoUser
        /\ claim'[r] = role[subject[r]] /\ startRole'[r] = startRole[r]
    BY <1>6, <1>t DEF FindUser, CurrentRole, Advance, TypeOK, ReqInv, ControlInv, Steps
  <2>3. Found(r)
    BY <1>6, <1>t DEF FindUser, ReqInv, ControlInv, OriginInv
  <2>4. Found(r)'
    BY <1>6, <1>f, <2>2, <2>3 DEF FindUser
  <2>5. ControlInv(r)' /\ OriginInv(r)' /\ LateInv(r)'
    BY <2>2, <2>4 DEF ControlInv, OriginInv, LateInv, Issued, Found
  <2>6. ClaimInv(r)'
    BY <1>6, <1>t, <2>2, <2>3 DEF FindUser, ReqInv, ClaimInv, Found, Issued
  <2> QED
    BY <1>one, <2>1, <2>5, <2>6 DEF ReqInv
<1>7. ASSUME NEW r \in Requests, Rotate(r) PROVE \A q \in Requests : ReqInv(q)'
  <2>1. \A q \in Requests \ {r} : SameRequest(q)
    BY <1>7, <1>t DEF Rotate, AfterWrite, Advance, Return, locals, TypeOK, SameRequest
  <2>2. /\ kind'[r] = "refresh" /\ subject'[r] \in Users
        /\ minted'[r] = NoUser /\ minted[r] = NoUser
        /\ claim'[r] = claim[r] /\ startRole'[r] = startRole[r]
        /\ UNCHANGED <<presented, subject, foundAt, late>>
    BY <1>7, <1>t DEF Rotate, locals, ReqInv, ControlInv, Steps
  <2>3. \/ pc'[r] = "sign" /\ outcome'[r] = "none"
        \/ pc'[r] = "done" /\ outcome'[r] = "dbError"
    BY <1>7, <1>t DEF Rotate, AfterWrite, Advance, Return, TypeOK, ReqInv, ControlInv
  <2>4. Found(r) /\ Found(r)'
    BY <1>7, <1>t, <1>f, <2>2 DEF Rotate, ReqInv, ControlInv, OriginInv
  <2>d. Dead(presented[r])'
    <3>1. presented[r] \notin DOMAIN tokens'
      BY <1>7, <1>t, <2>4 DEF Rotate, WithoutUser, RowsInv, Found
    <3> QED
      BY <1>7, <2>2, <2>4, <3>1 DEF Rotate, Found, Dead
  <2>5. ControlInv(r)' /\ OriginInv(r)' /\ LateInv(r)'
    BY <2>2, <2>3, <2>4, <2>d DEF ControlInv, OriginInv, LateInv, Issued, Found
  <2>6. ClaimInv(r)'
    BY <1>7, <1>t, <2>2, <2>3 DEF Rotate, ReqInv, ClaimInv, Issued
  <2> QED
    BY <1>one, <2>1, <2>5, <2>6 DEF ReqInv
<1>8. ASSUME NEW r \in Requests, Sign(r) PROVE \A q \in Requests : ReqInv(q)'
  <2>1. \A q \in Requests \ {r} : SameRequest(q)
    BY <1>8, <1>t DEF Sign, Advance, TypeOK, SameRequest
  <2>2. /\ pc'[r] = "create" /\ outcome'[r] = "none" /\ kind'[r] = kind[r]
        /\ kind[r] \in {"login", "refresh"} /\ subject'[r] \in Users
        /\ minted'[r] = NoUser /\ minted[r] = NoUser /\ issuedAt'[r] = clock'
        /\ claim'[r] = claim[r] /\ startRole'[r] = startRole[r] /\ late'[r] = late[r]
        /\ ~late[r]
    BY <1>8, <1>t DEF Sign, Advance, TypeOK, ReqInv, ControlInv, LateInv, Steps
  <2>3. kind[r] = "refresh" => Found(r)' /\ Dead(presented[r])'
    BY <1>8, <1>t, <1>f, <2>2 DEF Sign, ReqInv, OriginInv
  <2>4. issuedAt'[r] =< clock'
    BY <1>n, <2>2 DEF TypeOK, Times
  <2>5. ControlInv(r)' /\ OriginInv(r)' /\ LateInv(r)'
    BY <2>2, <2>3, <2>4 DEF ControlInv, OriginInv, LateInv, Issued, Found
  <2>6. ClaimInv(r)'
    BY <1>8, <1>t, <2>2 DEF Sign, ReqInv, ClaimInv, Issued
  <2> QED
    BY <1>one, <2>1, <2>5, <2>6 DEF ReqInv
<1>9. ASSUME NEW r \in Requests, CreateToken(r) PROVE \A q \in Requests : ReqInv(q)'
  <2>1. \A q \in Requests \ {r} : SameRequest(q)
    BY <1>9, <1>t
    DEF CreateToken, ReturnAfterWrite, Return, locals, TypeOK, SameRequest
  <2>2. /\ pc'[r] = "done" /\ kind'[r] = kind[r] /\ kind[r] \in {"login", "refresh"}
        /\ subject'[r] = subject[r] /\ subject[r] \in Users /\ minted[r] = NoUser
        /\ issuedAt'[r] =< clock' /\ claim'[r] = claim[r] /\ startRole'[r] = startRole[r]
        /\ ~late'[r]
        /\ UNCHANGED <<presented, subject, foundAt, late>>
    BY <1>9, <1>t
    DEF CreateToken, ReturnAfterWrite, Return, locals, TypeOK, ReqInv, ControlInv, LateInv, Steps
  <2>3. /\ minted'[r] \in {NoUser, subject[r]}
        /\ outcome'[r] = "ok" => minted'[r] = subject[r]
    BY <1>9, <1>t, <2>2 DEF CreateToken, ReturnAfterWrite, Return, TypeOK
  <2>4. kind[r] = "refresh" => Found(r)' /\ Dead(presented[r])'
    BY <1>9, <1>t, <1>f, <2>2 DEF CreateToken, ReqInv, OriginInv
  <2>5. ControlInv(r)' /\ OriginInv(r)' /\ LateInv(r)'
    BY <2>2, <2>3, <2>4 DEF ControlInv, OriginInv, LateInv, Issued, Found, Steps
  <2>6. ClaimInv(r)'
    BY <1>9, <1>t, <2>2 DEF CreateToken, ReqInv, ClaimInv
  <2> QED
    BY <1>one, <2>1, <2>5, <2>6 DEF ReqInv
<1>10. ASSUME NEW r \in Requests, RevokeAll(r) PROVE \A q \in Requests : ReqInv(q)'
  <2>1. \A q \in Requests \ {r} : SameRequest(q)
    BY <1>10, <1>t DEF RevokeAll, ReturnAfterWrite, Return, locals, TypeOK, SameRequest
  <2>2. /\ pc'[r] = "done" /\ kind'[r] = "revoke" /\ kind[r] = "revoke"
        /\ minted'[r] = NoUser /\ presented'[r] = presented[r]
        /\ subject'[r] = subject[r] /\ minted' = minted /\ ~late'[r]
    BY <1>10, <1>t
    DEF RevokeAll, ReturnAfterWrite, Return, locals, TypeOK, ReqInv, ControlInv, LateInv
  <2>3. /\ presented[r] \in Requests /\ minted[presented[r]] # NoUser
        /\ subject[r] = minted[presented[r]]
    BY <1>10, <1>t, <2>2 DEF RevokeAll, ReqInv, OriginInv
  <2>4. ReqInv(r)'
    BY <2>2, <2>3 DEF ReqInv, ControlInv, OriginInv, LateInv, ClaimInv, Issued, Steps
  <2> QED
    BY <1>one, <2>1, <2>4
<1>11. ASSUME NEW r \in Requests, DbError(r) PROVE \A q \in Requests : ReqInv(q)'
  <2>1. \A q \in Requests \ {r} : SameRequest(q)
    BY <1>11, <1>t DEF DbError, Return, locals, TypeOK, SameRequest
  <2>2. /\ pc'[r] = "done" /\ outcome'[r] = "dbError" /\ kind'[r] = kind[r]
        /\ presented'[r] = presented[r] /\ late'[r] = late[r]
        /\ UNCHANGED <<minted, tokens>> /\ minted[r] = NoUser /\ kind[r] # "none"
    BY <1>11, <1>t DEF DbError, Return, locals, TypeOK, ReqInv, ControlInv, Steps
  <2>3. /\ late[r] => kind[r] = "refresh" /\ Dead(presented[r])
        /\ kind[r] = "refresh" /\ presented[r] # Garbage => minted[presented[r]] # NoUser
    BY <1>t DEF ReqInv, LateInv, OriginInv
  <2>4. late'[r] => Dead(presented[r])'
    BY <2>2, <2>3 DEF Dead
  <2>5. ReqInv(r)'
    BY <2>2, <2>3, <2>4
    DEF ReqInv, ControlInv, OriginInv, LateInv, ClaimInv, Issued, Steps
  <2> QED
    BY <1>one, <2>1, <2>5
<1>12. ASSUME NEW u \in Users, UpgradeRole(u) PROVE \A q \in Requests : ReqInv(q)'
  BY <1>12, <1>same DEF UpgradeRole, locals, SameRequest
<1>13. CASE Tick
  BY <1>13, <1>same DEF Tick, locals, SameRequest
<1> QED
  BY <1>1, <1>2, <1>3, <1>4, <1>5, <1>6, <1>7, <1>8, <1>9, <1>10, <1>11, <1>12, <1>13
  DEF Next, Step

LEMMA InvNext == Inv /\ [Next]_vars => Inv'
  BY TypeNext, TableNext, RequestsNext DEF Inv

-------------------------------------------------------------------------------
(* The issuer keeps its types; in particular every inserted refresh token    *)
(* names an existing user.                                                   *)
THEOREM TypeCorrect == Spec => []TypeOK
<1>1. Inv => TypeOK
  BY DEF Inv
<1> QED
  BY <1>1, InvInit, InvNext, PTL DEF Spec

(* Rotated, revoked and expired refresh tokens buy nothing, and a token that *)
(* has bought a session is dead from then on.                                *)
THEOREM SpentTokensRefused == Spec => []SpentTokenNeverExchanged
<1>1. Inv => SpentTokenNeverExchanged
  BY DEF Inv, ReqInv, LateInv, OriginInv, Found, SpentTokenNeverExchanged
<1> QED
  BY <1>1, InvInit, InvNext, PTL DEF Spec

(* A refreshed session belongs to the user of the presented token. *)
THEOREM SessionsStay == Spec => []SessionStaysWithUser
<1>1. Inv => SessionStaysWithUser
  <2> SUFFICES ASSUME Inv, NEW r \in Requests, outcome[r] = "ok", kind[r] # "login"
               PROVE  /\ presented[r] \in Requests
                      /\ subject[r] = minted[presented[r]]
                      /\ kind[r] = "refresh" => minted[r] = subject[r]
    BY DEF SessionStaysWithUser
  <2>1. ReqInv(r) /\ kind[r] \in {"none", "refresh", "revoke"}
    BY DEF Inv, TypeOK
  <2>2. kind[r] # "none"
    BY <2>1 DEF ReqInv, ControlInv
  <2> QED
    BY <2>1, <2>2 DEF ReqInv, ControlInv, OriginInv, Found, Issued
<1> QED
  BY <1>1, InvInit, InvNext, PTL DEF Spec

(* The JWT a request is answered with has the role the user had at some      *)
(* instant of the request (token.go:45-72, 101-111).                         *)
THEOREM ClaimsFresh == Spec => []RoleClaimIsFresh
<1>1. Inv => RoleClaimIsFresh
  BY DEF Inv, ReqInv, ClaimInv, RoleClaimIsFresh
<1> QED
  BY <1>1, InvInit, InvNext, PTL DEF Spec

-------------------------------------------------------------------------------
(* What a step does to the tokens, in the terms of the ledger.             *)

(* Nothing. *)
TokensKept == UNCHANGED <<tokens, minted>>

(* A new row, for the subject of the request that inserts it. *)
TokenAdded(r) ==
    /\ pc[r] = "create"
    /\ tokens' = Inserted(r)
    /\ minted' = [minted EXCEPT ![r] = subject[r]]

(* All rows of the subject, by a rotation or a revocation. *)
TokensRemoved(r) ==
    /\ pc[r] \in {"rotate", "revoke"}
    /\ pc'[r] # pc[r]
    /\ outcome'[r] # "unauthorized"
    /\ tokens' = WithoutUser(subject[r])
    /\ minted' = minted

LEMMA TokenSteps ==
  Inv /\ [Next]_vars =>
      \/ TokensKept
      \/ \E r \in Requests : TokenAdded(r) \/ TokensRemoved(r)
<1> SUFFICES ASSUME Inv, [Next]_vars
             PROVE  \/ TokensKept
                    \/ \E r \in Requests : TokenAdded(r) \/ TokensRemoved(r)
  OBVIOUS
<1>t. /\ pc \in [Requests -> Steps \cup {"idle", "done"}]
      /\ outcome \in [Requests -> Outcomes]
      /\ \A r \in Requests : pc[r] # "done" => outcome[r] = "none"
  BY DEF Inv, TypeOK, ReqInv, ControlInv
<1>1. CASE UNCHANGED vars \/ AllReturned \/ Tick \/ \E u \in Users : UpgradeRole(u)
  BY <1>1 DEF vars, AllReturned, Tick, UpgradeRole, TokensKept
<1>2. ASSUME NEW r \in Requests,
             \/ \E u \in Users : BeginLogin(r, u)
             \/ \E t \in Requests \cup {Garbage} : BeginRefresh(r, t)
             \/ \E j \in Requests : BeginRevoke(r, j)
             \/ FindToken(r) \/ FindUser(r) \/ DbError(r) \/ Sign(r)
      PROVE  TokensKept
  BY <1>2
  DEF BeginLogin, BeginRefresh, BeginRevoke, Refusal, Begin, FindToken, FindUser, DbError, Sign,
      TokensKept
<1>3. ASSUME NEW r \in Requests, Rotate(r) \/ RevokeAll(r) PROVE TokensRemoved(r)
  BY <1>3, <1>t
  DEF Rotate, RevokeAll, AfterWrite, ReturnAfterWrite, Advance, Return, TokensRemoved
<1>4. ASSUME NEW r \in Requests, CreateToken(r) PROVE TokensKept \/ TokenAdded(r)
  BY <1>4 DEF CreateToken, TokensKept, TokenAdded
<1> QED
  BY <1>1, <1>2, <1>3, <1>4 DEF Next, Step

(* Every behaviour of the issuer is, through the mapping, one of the ledger. *)
THEOREM RefinesLedger == Spec => ImplementsLedger
<1>1. Init => Ledger!Init
  BY DEF Init, Ledger!Init, TokenState
<1>2. Inv /\ [Next]_vars => [Ledger!Next]_Ledger!vars
  <2> SUFFICES ASSUME Inv, [Next]_vars PROVE [Ledger!Next]_Ledger!vars
    OBVIOUS
  <2>t. TypeOK /\ RowsInv /\ \A r \in Requests : ReqInv(r)
    BY DEF Inv
  <2>1. CASE TokensKept
    BY <2>1 DEF TokensKept, TokenState, Ledger!vars
  <2>2. ASSUME NEW r \in Requests, TokenAdded(r) PROVE Ledger!Next
    <3>1. /\ minted[r] = NoUser /\ r \notin DOMAIN tokens /\ subject[r] \in Users
          /\ subject[r] # NoUser
      BY <2>2, <2>t, NamesAssumption DEF TokenAdded, ReqInv, ControlInv, RowsInv, Steps
    <3>2. minted'[r] = subject[r] /\ \A t \in Requests \ {r} : minted'[t] = minted[t]
      BY <2>2, <2>t DEF TokenAdded, TypeOK
    <3>3. DOMAIN tokens' = DOMAIN tokens \cup {r}
      BY <2>2 DEF TokenAdded, Inserted
    <3>4. /\ TokenState(r) = "unborn" /\ TokenState(r)' = "live"
          /\ \A t \in Requests \ {r} : TokenState(t)' = TokenState(t)
      BY <3>1, <3>2, <3>3 DEF TokenState
    <3>5. Ledger!Mint(r, subject[r])
      BY <2>2, <3>4 DEF TokenAdded, Ledger!Mint
    <3> QED
      BY <3>1, <3>5 DEF Ledger!Next
  <2>3. ASSUME NEW r \in Requests, TokensRemoved(r) PROVE Ledger!Next
    <3>1. subject[r] \in Users
      BY <2>3, <2>t DEF TokensRemoved, ReqInv, ControlInv, Steps
    <3> DEFINE gone == Ledger!Live(subject[r])
    <3>2. \A t \in Requests : t \in gone <=> TokenState(t) = "live" /\ minted[t] = subject[r]
      BY DEF Ledger!Live
    <3>3. \A t \in Requests : TokenState(t)' = IF t \in gone THEN "dead" ELSE TokenState(t)
      <4> HIDE DEF gone
      <4> QED
        BY <2>3, <2>t, <3>2 DEF TokensRemoved, WithoutUser, TokenState, RowsInv
    <3>4. Ledger!Retire(gone)
      <4> HIDE DEF gone
      <4> QED
        BY <2>3, <3>3 DEF TokensRemoved, Ledger!Retire
    <3> QED
      BY <3>1, <3>4 DEF Ledger!Next
  <2> QED
    BY <2>1, <2>2, <2>3, TokenSteps
<1> QED
  BY <1>1, <1>2, InvInit, InvNext, PTL DEF Spec, ImplementsLedger, Ledger!Spec

-------------------------------------------------------------------------------
(* What a logout achieves.  LogoutEndsSessions fails because a refresh or a  *)
(* login that is past its lookup inserts its token after the deletion.       *)

(* The requests beside the one that acts insert what they inserted before. *)
LEMMA InsertsKept ==
  Inv /\ [Next]_vars =>
      \A q \in Requests, u \in Users :
          Inserts(q, u)' => \/ Inserts(q, u)
                            \/ BeginLogin(q, u)
                            \/ \E t \in DOMAIN tokens : tokens[t].user = u
<1> SUFFICES ASSUME Inv, [Next]_vars, NEW q \in Requests, NEW u \in Users, Inserts(q, u)'
             PROVE  \/ Inserts(q, u)
                    \/ BeginLogin(q, u)
                    \/ \E t \in DOMAIN tokens : tokens[t].user = u
  OBVIOUS
<1>t. TypeOK
  BY DEF Inv
<1>p. /\ pc \in [Requests -> Steps \cup {"idle", "done"}]
      /\ subject \in [Requests -> Users \cup {NoUser}]
  BY <1>t DEF TypeOK
<1>same. ASSUME pc'[q] = pc[q], subject'[q] = subject[q] PROVE Inserts(q, u)
  BY <1>same DEF Inserts
<1>1. ASSUME NEW r \in Requests, NEW v \in Users, BeginLogin(r, v)
      PROVE  Inserts(q, u) \/ BeginLogin(q, u)
  <2>1. CASE r = q
    <3>1. subject'[q] = v
      BY <1>1, <1>p, <2>1 DEF BeginLogin, Begin
    <3> QED
      BY <1>1, <2>1, <3>1 DEF Inserts
  <2>2. CASE r # q
    BY <1>1, <1>p, <1>same, <2>2 DEF BeginLogin, Begin, Advance
  <2> QED
    BY <2>1, <2>2
<1>2. ASSUME NEW r \in Requests,
             \/ \E t \in Requests \cup {Garbage} : BeginRefresh(r, t)
             \/ \E j \in Requests : BeginRevoke(r, j)
      PROVE  Inserts(q, u)
  <2>1. r # q
    BY <1>2, <1>p DEF BeginRefresh, BeginRevoke, Refusal, Advance, Return, Inserts
  <2> QED
    BY <1>2, <1>p, <1>same, <2>1 DEF BeginRefresh, BeginRevoke, Refusal, Begin, Advance, Return
<1>3. ASSUME NEW r \in Requests, FindToken(r)
      PROVE  Inserts(q, u) \/ \E t \in DOMAIN tokens : tokens[t].user = u
  <2>1. CASE r = q
    <3>1. Valid(presented[q]) /\ subject'[q] = tokens[presented[q]].user
      BY <1>3, <1>p, <2>1 DEF FindToken, Return, Inserts
    <3> QED
      BY <3>1 DEF Valid, Inserts
  <2>2. CASE r # q
    BY <1>3, <1>p, <1>same, <2>2 DEF FindToken, Advance, Return
  <2> QED
    BY <2>1, <2>2
<1>4. ASSUME NEW r \in Requests, FindUser(r) \/ Rotate(r) \/ Sign(r)
      PROVE  Inserts(q, u)
  <2>1. CASE r = q
    BY <1>4, <2>1 DEF FindUser, Rotate, Sign, locals, Inserts
  <2>2. CASE r # q
    BY <1>4, <1>p, <1>same, <2>2
    DEF FindUser, Rotate, Sign, AfterWrite, Advance, Return, locals
  <2> QED
    BY <2>1, <2>2
<1>5. ASSUME NEW r \in Requests, CreateToken(r) \/ RevokeAll(r) \/ DbError(r)
      PROVE  Inserts(q, u)
  <2>1. r # q
    BY <1>5, <1>p
    DEF CreateToken, RevokeAll, DbError, ReturnAfterWrite, Return, Inserts
  <2> QED
    BY <1>5, <1>p, <1>same, <2>1
    DEF CreateToken, RevokeAll, DbError, ReturnAfterWrite, Return, locals
<1>6. CASE UNCHANGED vars \/ AllReturned \/ Tick \/ \E v \in Users : UpgradeRole(v)
  BY <1>6, <1>same DEF vars, AllReturned, Tick, UpgradeRole, locals
<1> QED
  BY <1>1, <1>2, <1>3, <1>4, <1>5, <1>6 DEF Next, Step

(* A logout that no login or refresh of the same user overlaps is final:     *)
(* until the next login no request is answered with a session of that user   *)
(* (token.go:86-122).                                                        *)
THEOREM LogoutsEndSessions == Spec => LogoutIsFinal
<1>1. Inv /\ [Next]_vars => LogoutStep
  <2> SUFFICES ASSUME Inv, [Next]_vars PROVE LogoutStep
    OBVIOUS
  <2>t. TypeOK /\ RowsInv /\ \A r \in Requests : ReqInv(r)
    BY DEF Inv
  <2>1. ASSUME NEW r \in Requests, RevokeAll(r),
               \A q \in Requests : ~Inserts(q, subject[r])
        PROVE  Ended(subject[r])'
    <3> DEFINE u == subject[r]
    <3>1. subject' = subject /\ \A t \in DOMAIN tokens' : tokens'[t].user # u
      BY <2>1 DEF RevokeAll, WithoutUser, locals
    <3>2. \A q \in Requests : Inserts(q, u)' => Inserts(q, u)
      <4>1. pc'[r] = "done" /\ \A q \in Requests \ {r} : pc'[q] = pc[q]
        BY <2>1, <2>t DEF RevokeAll, ReturnAfterWrite, Return, TypeOK
      <4> QED
        BY <3>1, <4>1 DEF Inserts
    <3> QED
      BY <2>1, <3>1, <3>2 DEF Ended, Inserts
  <2>2. ASSUME NEW u \in Users, Ended(u), ~\E r \in Requests : BeginLogin(r, u)
        PROVE  Ended(u)'
    <3>1. \A r \in Requests : ~Inserts(r, u)'
      BY <2>2, InsertsKept DEF Ended
    <3>2. \A t \in DOMAIN tokens' : tokens'[t].user # u
      <4>1. CASE TokensKept
        BY <2>2, <4>1 DEF TokensKept, Ended
      <4>2. ASSUME NEW r \in Requests, TokenAdded(r)
            PROVE  \A t \in DOMAIN tokens' : tokens'[t].user # u
        BY <2>2, <4>2 DEF TokenAdded, Inserted, Ended, Inserts
      <4>3. ASSUME NEW r \in Requests, TokensRemoved(r)
            PROVE  \A t \in DOMAIN tokens' : tokens'[t].user # u
        BY <2>2, <4>3 DEF TokensRemoved, WithoutUser, Ended
      <4> QED
        BY <4>1, <4>2, <4>3, TokenSteps
    <3> QED
      BY <3>1, <3>2 DEF Ended
  <2> QED
    BY <2>1, <2>2 DEF LogoutStep
<1> QED
  BY <1>1, InvInit, InvNext, PTL DEF Spec, LogoutIsFinal

-------------------------------------------------------------------------------
(* As the program is wired the schema checks the foreign key of session_id,  *)
(* and IssueSessionToken inserts rows that violate it.                       *)
NothingIssued ==
    /\ DOMAIN tokens = {}
    /\ \A r \in Requests : ~Issued(r) /\ pc[r] # "revoke" /\ minted[r] = NoUser

(* With the migrated schema no login or refresh ever succeeds and no         *)
(* revocation gets past AuthRequired (token.go:45-72, 000003 and 000007 of   *)
(* the migrations).                                                          *)
THEOREM NobodyGetsASession == ASSUME SessionFKChecked PROVE Spec => []NothingIssued
<1>1. Init => NothingIssued
  BY DEF Init, NothingIssued, Issued
<1>2. Inv /\ NothingIssued /\ [Next]_vars => NothingIssued'
  <2> SUFFICES ASSUME Inv, NothingIssued, [Next]_vars PROVE NothingIssued'
    OBVIOUS
  <2>t. TypeOK /\ \A r \in Requests : ReqInv(r)
    BY DEF Inv
  <2>1. ASSUME NEW r \in Requests, RevokeAll(r) PROVE FALSE
    BY <2>1 DEF RevokeAll, NothingIssued
  <2>2. ASSUME NEW r \in Requests, NEW j \in Requests, BeginRevoke(r, j) PROVE FALSE
    BY <2>2 DEF BeginRevoke, Refusal, NothingIssued
  <2>3. ASSUME NEW r \in Requests,
               \/ \E u \in Users : BeginLogin(r, u)
               \/ \E t \in Requests \cup {Garbage} : BeginRefresh(r, t)
        PROVE  NothingIssued'
    <3>1. outcome[r] = "none"
      BY <2>3, <2>t DEF BeginLogin, BeginRefresh, Begin, ReqInv, ControlInv
    <3> QED
      BY <2>3, <2>t, <3>1
      DEF BeginLogin, BeginRefresh, Begin, Advance, NothingIssued, Issued, TypeOK
  <2>4. ASSUME NEW r \in Requests, FindToken(r) \/ FindUser(r) \/ Sign(r) \/ DbError(r)
        PROVE  NothingIssued'
    BY <2>4, <2>t
    DEF FindToken, FindUser, Sign, DbError, Advance, Return, locals, NothingIssued, Issued, TypeOK
  <2>5. ASSUME NEW r \in Requests, Rotate(r) PROVE NothingIssued'
    <3>1. DOMAIN tokens' = {}
      BY <2>5 DEF Rotate, WithoutUser, NothingIssued
    <3> QED
      BY <2>5, <2>t, <3>1
      DEF Rotate, AfterWrite, Advance, Return, locals, NothingIssued, Issued, TypeOK
  <2>6. ASSUME NEW r \in Requests, CreateToken(r) PROVE NothingIssued'
    BY <2>6, <2>t, SessionFKChecked
    DEF CreateToken, Return, locals, NothingIssued, Issued, TypeOK
  <2>7. CASE UNCHANGED vars \/ AllReturned \/ Tick \/ \E v \in Users : UpgradeRole(v)
    BY <2>7 DEF vars, AllReturned, Tick, UpgradeRole, locals, NothingIssued, Issued
  <2> QED
    BY <2>1, <2>2, <2>3, <2>4, <2>5, <2>6, <2>7 DEF Next, Step
<1> QED
  BY <1>1, <1>2, InvInit, InvNext, PTL DEF Spec
===============================================================================
