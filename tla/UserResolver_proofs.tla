-------------------------- MODULE UserResolver_proofs --------------------------
(***************************************************************************)
(* Proofs about UserResolver, for any sets of requests, identities, users  *)
(* and emails, any database the constraints allow and any configuration.   *)
(***************************************************************************)
EXTENDS UserResolver, TLAPS

USE DEF Roles, UserIds

(* What Upsert does to the table: a row that exists keeps its owner, a new   *)
(* row gets the given one.                                                   *)
LEMMA UpsertedOwners ==
  ASSUME TypeOK, NEW i \in Identities, NEW u \in UserIds, NEW r \in Requests
  PROVE  /\ DOMAIN Upserted(i, u, r) = DOMAIN accounts \cup {i}
         /\ \A j \in DOMAIN Upserted(i, u, r) :
               /\ j \in DOMAIN accounts => Upserted(i, u, r)[j].user = accounts[j].user
               /\ j \notin DOMAIN accounts => Upserted(i, u, r)[j].user = u
<1> DEFINE Row == [user : UserIds, tokens : Requests \cup {SeedTokens}]
<1>1. \A j \in DOMAIN accounts : accounts[j] \in Row
  BY DEF TypeOK
<1>2. \A a \in Row : [a EXCEPT !.tokens = r].user = a.user
  OBVIOUS
<1> HIDE DEF Row
<1> QED
  BY <1>1, <1>2 DEF Upserted

(* Its rows have the type of an oauth_accounts row. *)
LEMMA UpsertedType ==
  ASSUME TypeOK, NEW i \in Identities, NEW u \in UserIds, NEW r \in Requests
  PROVE  /\ DOMAIN Upserted(i, u, r) \subseteq Identities
         /\ \A j \in DOMAIN Upserted(i, u, r) : Upserted(i, u, r)[j]
                \in [user : UserIds, tokens : Requests \cup {SeedTokens}]
<1> DEFINE Row == [user : UserIds, tokens : Requests \cup {SeedTokens}]
<1>1. DOMAIN accounts \subseteq Identities /\ \A j \in DOMAIN accounts : accounts[j] \in Row
  BY DEF TypeOK
<1>2. [user |-> u, tokens |-> r] \in Row
  OBVIOUS
<1>3. \A a \in Row : [a EXCEPT !.tokens = r] \in Row
  OBVIOUS
<1> HIDE DEF Row
<1>4. /\ DOMAIN Upserted(i, u, r) \subseteq Identities
      /\ \A j \in DOMAIN Upserted(i, u, r) : Upserted(i, u, r)[j] \in Row
  BY <1>1, <1>2, <1>3 DEF Upserted
<1> QED
  BY <1>4 DEF Row

(* What the bootstrap upgrade does: nothing, or it makes the caller's copy   *)
(* and the row with the copy's id platform_admin.                            *)
LEMMA UpgradeRows ==
  ASSUME TypeOK, NEW r \in Requests, Upgrade(r)
  PROVE  /\ DOMAIN users' = DOMAIN users
         /\ \A v \in DOMAIN users :
               \/ users'[v] = users[v]
               \/ /\ NeedsUpgrade(user[r]) /\ v = user[r].id
                  /\ users'[v] = [email |-> user[r].email, role |-> "platform_admin"]
         /\ user[r].id \in DOMAIN users /\ NeedsUpgrade(user[r]) =>
               users'[user[r].id] = [email |-> user[r].email, role |-> "platform_admin"]
         /\ ~NeedsUpgrade(user[r]) => UNCHANGED <<users, user>>
         /\ NeedsUpgrade(user[r]) => user[r] \in SomeUser
         /\ user' \in [Requests -> SomeUser \cup {ZeroUser}]
         /\ \A q \in Requests \ {r} : user'[q] = user[q]
         /\ user'[r].id = user[r].id
         /\ user'[r].email = user[r].email
         /\ user'[r].role = IF NeedsUpgrade(user[r]) THEN "platform_admin"
                                                    ELSE user[r].role
<1> DEFINE up == [user[r] EXCEPT !.role = "platform_admin"]
<1>0. user[r] \in SomeUser \cup {ZeroUser} /\ user \in [Requests -> SomeUser \cup {ZeroUser}]
  BY DEF TypeOK
<1>1. CASE ~NeedsUpgrade(user[r])
  BY <1>0, <1>1 DEF Upgrade
<1>2. CASE NeedsUpgrade(user[r])
  <2>1. user[r] \in SomeUser
    BY <1>0, <1>2, ConfigAssumption, NamesAssumption DEF NeedsUpgrade, ZeroUser
  <2>2. up \in SomeUser /\ up.id = user[r].id /\ up.email = user[r].email
        /\ up.role = "platform_admin"
    BY <2>1 DEF SomeUser
  <2>3. users' = Updated(up) /\ user' = [user EXCEPT ![r] = up]
    BY <1>2 DEF Upgrade
  <2>4. user' \in [Requests -> SomeUser \cup {ZeroUser}] /\ user'[r] = up
        /\ \A q \in Requests \ {r} : user'[q] = user[q]
    BY <1>0, <2>2, <2>3
  <2> HIDE DEF up
  <2>5. /\ DOMAIN users' = DOMAIN users
        /\ \A v \in DOMAIN users : users'[v] = IF v = user[r].id
              THEN [email |-> user[r].email, role |-> "platform_admin"] ELSE users[v]
    BY <2>2, <2>3 DEF Updated
  <2> QED
    BY <1>2, <2>1, <2>2, <2>4, <2>5
<1> QED
  BY <1>1, <1>2

-------------------------------------------------------------------------------
(* TypeOK is not inductive by itself: a row is written from the local        *)
(* variables, which hold a proper user only once they have been assigned.    *)
LocalsOK ==
    \A r \in Requests :
        /\ pc[r] \in Steps => Email(r) \in Emails
        /\ pc[r] = "upsertTokens" => owner[r] \in UserIds
        /\ pc[r] \in {"upsertTokens", "upgradeLinked", "create", "upsertTx", "commit"}
               => user[r] \in SomeUser

TypeInv == TypeOK /\ LocalsOK

LEMMA TypeInvInit == Init => TypeInv
  BY ProfilesAssumption, SeedAssumption, NamesAssumption
  DEF Init, TypeInv, TypeOK, LocalsOK, Outcomes, Steps, Email

LEMMA TypeInvNext == TypeInv /\ [Next]_vars => TypeInv'
<1> SUFFICES ASSUME TypeInv, [Next]_vars PROVE TypeInv'
  OBVIOUS
<1> USE DEF TypeInv, LocalsOK
<1>t. TypeOK
  OBVIOUS
<1>i. \A r \in Requests : /\ Identity(r) \in Identities
                          /\ Email(r) \in Emails \cup {NoEmail}
                          /\ pu' = pu => Identity(r)' = Identity(r) /\ Email(r)' = Email(r)
  BY <1>t DEF TypeOK, Identity, Email
<1>u. ASSUME NEW r \in Requests, NEW u \in UserIds,
             accounts' = Upserted(Identity(r), u, r)
      PROVE  /\ DOMAIN accounts' \subseteq Identities
             /\ \A j \in DOMAIN accounts' :
                   accounts'[j] \in [user : UserIds, tokens : Requests \cup {SeedTokens}]
  BY <1>t, <1>i, <1>u, UpsertedType
(* It is enough to look at the two tables and at the acting request. *)
<1>d. ASSUME NEW r \in Requests, NEW next \in Steps \cup {"done"}, NEW o \in Outcomes,
             pc' = [pc EXCEPT ![r] = next],
             outcome' = [outcome EXCEPT ![r] = o] \/ outcome' = outcome,
             UNCHANGED pu,
             DOMAIN users' \subseteq UserIds,
             \A v \in DOMAIN users' : users'[v] \in [email : Emails, role : Roles],
             DOMAIN accounts' \subseteq Identities,
             \A j \in DOMAIN accounts' :
                 accounts'[j] \in [user : UserIds, tokens : Requests \cup {SeedTokens}],
             owner' \in [Requests -> UserIds \cup {NilUUID}],
             user' \in [Requests -> SomeUser \cup {ZeroUser}],
             \A q \in Requests \ {r} :
                 owner'[q] = owner[q] /\ (user[q] \in SomeUser => user'[q] \in SomeUser),
             next # "done" => Email(r) \in Emails,
             next = "upsertTokens" => owner'[r] \in UserIds,
             next \in {"upsertTokens", "upgradeLinked", "create", "upsertTx", "commit"}
                 => user'[r] \in SomeUser
      PROVE  TypeInv'
  <2>1. pc' \in [Requests -> Steps \cup {"idle", "done"}] /\ outcome' \in [Requests -> Outcomes]
    BY <1>d, <1>t DEF TypeOK
  <2>2. TypeOK'
    BY <1>d, <1>t, <2>1 DEF TypeOK
  <2>3. /\ pc'[r] = next
        /\ \A q \in Requests \ {r} : pc'[q] = pc[q]
    BY <1>d, <1>t DEF TypeOK
  <2>4. \A q \in Requests : Email(q)' = Email(q)
    BY <1>d, <1>i
  <2>5. "done" \notin Steps
    BY DEF Steps
  <2>6. ASSUME NEW q \in Requests \ {r}
        PROVE  /\ pc'[q] \in Steps => Email(q)' \in Emails
               /\ pc'[q] = "upsertTokens" => owner'[q] \in UserIds
               /\ pc'[q] \in {"upsertTokens", "upgradeLinked", "create", "upsertTx", "commit"}
                      => user'[q] \in SomeUser
    BY <1>d, <2>3, <2>4
  <2>7. /\ pc'[r] \in Steps => Email(r)' \in Emails
        /\ pc'[r] = "upsertTokens" => owner'[r] \in UserIds
        /\ pc'[r] \in {"upsertTokens", "upgradeLinked", "create", "upsertTx", "commit"}
               => user'[r] \in SomeUser
    BY <1>d, <2>3, <2>4, <2>5
  <2>8. LocalsOK'
    BY <2>6, <2>7
  <2> QED
    BY <2>2, <2>8
(* What is typed already. *)
<1>k. /\ DOMAIN users \subseteq UserIds
      /\ \A v \in DOMAIN users : users[v] \in [email : Emails, role : Roles]
      /\ DOMAIN accounts \subseteq Identities
      /\ \A j \in DOMAIN accounts :
             accounts[j] \in [user : UserIds, tokens : Requests \cup {SeedTokens}]
      /\ owner \in [Requests -> UserIds \cup {NilUUID}]
      /\ user \in [Requests -> SomeUser \cup {ZeroUser}]
  BY <1>t DEF TypeOK
<1>e. \A r \in Requests : pc[r] \in Steps => Email(r) \in Emails
  OBVIOUS
<1>o. {"ok", "dbError", "noEmail", "userNotFound", "conflict", "fkViolation"} \subseteq Outcomes
  BY DEF Outcomes
(* A request that returns, and writes no users row. *)
<1>r. ASSUME NEW r \in Requests, NEW o \in Outcomes, Return(r, o),
             UNCHANGED <<users, pu, owner, user>>,
             DOMAIN accounts' \subseteq Identities,
             \A j \in DOMAIN accounts' :
                 accounts'[j] \in [user : UserIds, tokens : Requests \cup {SeedTokens}]
      PROVE  TypeInv'
  <2>1. /\ pc' = [pc EXCEPT ![r] = "done"]
        /\ outcome' = [outcome EXCEPT ![r] = o]
    BY <1>r DEF Return
  <2> QED
    BY <1>d, <1>k, <1>r, <2>1
<1>1. CASE UNCHANGED vars
  BY <1>1, <1>i DEF vars, TypeOK
<1>2. CASE AllReturned
  BY <1>2, <1>i DEF AllReturned, vars, TypeOK
<1>3. ASSUME NEW r \in Requests, Start(r) PROVE TypeInv'
  <2>0. UNCHANGED <<users, accounts, pu, owner, user>>
    BY <1>3 DEF Start
  <2>1. CASE Email(r) = NoEmail
    <3>1. Return(r, "noEmail")
      BY <1>3, <2>1 DEF Start
    <3> QED
      BY <1>k, <1>o, <1>r, <2>0, <3>1
  <2>2. CASE Email(r) # NoEmail
    <3>1. pc' = [pc EXCEPT ![r] = "findByProvider"] /\ outcome' = outcome
      BY <1>3, <2>2 DEF Start, Advance
    <3>2. "findByProvider" \in Steps /\ Email(r) \in Emails
      BY <1>i, <2>2 DEF Steps
    <3> QED
      BY <1>d, <1>k, <1>o, <2>0, <3>1, <3>2
  <2> QED
    BY <2>1, <2>2
<1>4. ASSUME NEW r \in Requests, FindByProvider(r) PROVE TypeInv'
  <2>1. UNCHANGED <<users, accounts, pu, user, outcome>> /\ pc[r] \in Steps
    BY <1>4 DEF FindByProvider, Advance, Steps
  <2>2. /\ owner' \in [Requests -> UserIds \cup {NilUUID}]
        /\ \A q \in Requests \ {r} : owner'[q] = owner[q]
    BY <1>4, <1>k DEF FindByProvider
  <2>3. PICK next \in {"findByID", "findByEmail"} : pc' = [pc EXCEPT ![r] = next]
    BY <1>4 DEF FindByProvider, Advance
  <2>4. next \in Steps
    BY DEF Steps
  <2> QED
    BY <1>d, <1>e, <1>k, <1>o, <2>1, <2>2, <2>3, <2>4
<1>5. ASSUME NEW r \in Requests, FindByID(r) PROVE TypeInv'
  <2>0. UNCHANGED <<users, accounts, pu, owner>> /\ pc[r] \in Steps
    BY <1>5 DEF FindByID, Steps
  <2>1. CASE owner[r] \in DOMAIN users
    <3>1. user' = [user EXCEPT ![r] = [id |-> owner[r], email |-> users[owner[r]].email,
                                       role |-> users[owner[r]].role]]
      BY <1>5, <2>1 DEF FindByID
    <3>2. /\ user' \in [Requests -> SomeUser \cup {ZeroUser}] /\ user'[r] \in SomeUser
          /\ \A q \in Requests \ {r} : user'[q] = user[q]
      BY <1>k, <2>1, <3>1 DEF SomeUser
    <3>3. owner[r] \in UserIds
      BY <1>k, <2>1
    <3>4. pc' = [pc EXCEPT ![r] = "upsertTokens"] /\ outcome' = outcome
      BY <1>5, <2>1 DEF FindByID, Advance
    <3>5. "upsertTokens" \in Steps
      BY DEF Steps
    <3> QED
      BY <1>d, <1>e, <1>k, <1>o, <2>0, <3>2, <3>3, <3>4, <3>5
  <2>2. CASE owner[r] \notin DOMAIN users
    <3>1. Return(r, "userNotFound") /\ UNCHANGED user
      BY <1>5, <2>2 DEF FindByID
    <3> QED
      BY <1>k, <1>o, <1>r, <2>0, <3>1
  <2> QED
    BY <2>1, <2>2
<1>6. ASSUME NEW r \in Requests, UpsertTokens(r) PROVE TypeInv'
  <2>0. UNCHANGED <<users, pu, owner, user>> /\ pc[r] \in Steps
    BY <1>6 DEF UpsertTokens, Steps
  <2>1. owner[r] \in UserIds /\ user[r] \in SomeUser
    BY <1>6 DEF UpsertTokens
  <2>2. /\ DOMAIN accounts' \subseteq Identities
        /\ \A j \in DOMAIN accounts' :
              accounts'[j] \in [user : UserIds, tokens : Requests \cup {SeedTokens}]
    BY <1>6, <1>u, <2>1 DEF UpsertTokens
  <2>3. CASE Advance(r, "upgradeLinked")
    <3>1. pc' = [pc EXCEPT ![r] = "upgradeLinked"] /\ outcome' = outcome
      BY <2>3 DEF Advance
    <3>2. "upgradeLinked" \in Steps
      BY DEF Steps
    <3> QED
      BY <1>d, <1>e, <1>k, <1>o, <2>0, <2>1, <2>2, <3>1, <3>2
  <2>4. CASE Return(r, "dbError")
    BY <1>o, <1>r, <2>0, <2>2, <2>4
  <2> QED
    BY <1>6, <2>3, <2>4 DEF UpsertTokens, AfterWrite
<1>7. ASSUME NEW r \in Requests, Upgrade(r) PROVE
        /\ DOMAIN users' \subseteq UserIds
        /\ \A v \in DOMAIN users' : users'[v] \in [email : Emails, role : Roles]
        /\ user' \in [Requests -> SomeUser \cup {ZeroUser}]
        /\ \A q \in Requests : user[q] \in SomeUser => user'[q] \in SomeUser
  <2>0. /\ DOMAIN users' = DOMAIN users
        /\ \A v \in DOMAIN users :
              \/ users'[v] = users[v]
              \/ /\ NeedsUpgrade(user[r])
                 /\ users'[v] = [email |-> user[r].email, role |-> "platform_admin"]
        /\ NeedsUpgrade(user[r]) => user[r] \in SomeUser
        /\ user' \in [Requests -> SomeUser \cup {ZeroUser}]
        /\ \A q \in Requests \ {r} : user'[q] = user[q]
        /\ user'[r].id = user[r].id
    BY <1>7, <1>t, UpgradeRows
  <2>1. NeedsUpgrade(user[r]) => user[r].email \in Emails
    BY <2>0 DEF SomeUser
  <2>2. ASSUME user[r] \in SomeUser PROVE user'[r] \in SomeUser
    <3>1. user[r].id # NilUUID
      BY <2>2, NamesAssumption DEF SomeUser
    <3>2. user'[r] # ZeroUser
      BY <3>1, <2>0 DEF ZeroUser
    <3> QED
      BY <3>2, <2>0
  <2>3. /\ DOMAIN users \subseteq UserIds
        /\ \A v \in DOMAIN users : users[v] \in [email : Emails, role : Roles]
    BY <1>t DEF TypeOK
  <2> QED
    BY <2>0, <2>1, <2>2, <2>3
<1>8. ASSUME NEW r \in Requests, UpgradeLinked(r) PROVE TypeInv'
  <2>1. Upgrade(r) /\ UNCHANGED <<accounts, pu, owner>>
    BY <1>8 DEF UpgradeLinked
  <2>2. PICK o \in {"ok", "dbError"} : Return(r, o)
    BY <1>8 DEF UpgradeLinked, UpgradeFails
  <2>3. pc' = [pc EXCEPT ![r] = "done"] /\ outcome' = [outcome EXCEPT ![r] = o]
    BY <2>2 DEF Return
  <2> QED
    BY <1>7, <1>d, <1>k, <1>o, <2>1, <2>3
<1>9. ASSUME NEW r \in Requests, FindByEmail(r) PROVE TypeInv'
  <2>1. user' \in [Requests -> SomeUser \cup {ZeroUser}]
    BY <1>9, <1>k DEF FindByEmail, UserWithEmail, SomeUser
  <2>2. \A q \in Requests \ {r} : user'[q] = user[q]
    BY <1>9, <1>k DEF FindByEmail
  <2>3. PICK next \in {"upgradeByEmail", "resolveRole"} : pc' = [pc EXCEPT ![r] = next]
    BY <1>9 DEF FindByEmail, Advance
  <2>4. UNCHANGED <<users, accounts, pu, owner, outcome>> /\ pc[r] \in Steps
    BY <1>9 DEF FindByEmail, Advance, Steps
  <2>5. next \in Steps
    BY DEF Steps
  <2> QED
    BY <1>d, <1>e, <1>k, <1>o, <2>1, <2>2, <2>3, <2>4, <2>5
<1>10. ASSUME NEW r \in Requests, UpgradeByEmail(r) PROVE TypeInv'
  <2>1. Upgrade(r) /\ UNCHANGED <<accounts, pu, owner>> /\ pc[r] \in Steps
    BY <1>10 DEF UpgradeByEmail, Steps
  <2>2. PICK next \in {"upsertLink", "done"} :
            /\ pc' = [pc EXCEPT ![r] = next]
            /\ outcome' = [outcome EXCEPT ![r] = "dbError"] \/ outcome' = outcome
    BY <1>10 DEF UpgradeByEmail, UpgradeFails, Advance, Return
  <2>3. next \in Steps \cup {"done"}
    BY DEF Steps
  <2> QED
    BY <1>7, <1>d, <1>e, <1>k, <1>o, <2>1, <2>2, <2>3
<1>11. ASSUME NEW r \in Requests, UpsertLink(r) PROVE TypeInv'
  <2>0. UNCHANGED <<users, pu, owner, user>>
    BY <1>11 DEF UpsertLink
  <2>1. CASE user[r].id \in DOMAIN users
    <3>1. user[r].id \in UserIds
      BY <1>k, <2>1
    <3>2. accounts' = Upserted(Identity(r), user[r].id, r) /\ ReturnAfterWrite(r)
      BY <1>11, <2>1 DEF UpsertLink
    <3>3. /\ DOMAIN accounts' \subseteq Identities
          /\ \A j \in DOMAIN accounts' :
                accounts'[j] \in [user : UserIds, tokens : Requests \cup {SeedTokens}]
      BY <1>u, <3>1, <3>2
    <3> QED
      BY <1>o, <1>r, <2>0, <3>2, <3>3 DEF ReturnAfterWrite
  <2>2. CASE user[r].id \notin DOMAIN users /\ Identity(r) \notin DOMAIN accounts
    <3>1. accounts' = accounts /\ Return(r, "fkViolation")
      BY <1>11, <2>2 DEF UpsertLink
    <3> QED
      BY <1>k, <1>o, <1>r, <2>0, <3>1
  <2>3. CASE user[r].id \notin DOMAIN users /\ Identity(r) \in DOMAIN accounts
    <3> DEFINE u == accounts[Identity(r)].user
    <3>1. u \in UserIds
      BY <1>k, <2>3
    <3>2. accounts' = Upserted(Identity(r), u, r)
      BY <1>11, <2>3 DEF UpsertLink, Upserted
    <3>3. ReturnAfterWrite(r)
      BY <1>11, <2>3 DEF UpsertLink
    <3> HIDE DEF u
    <3>4. /\ DOMAIN accounts' \subseteq Identities
          /\ \A j \in DOMAIN accounts' :
                accounts'[j] \in [user : UserIds, tokens : Requests \cup {SeedTokens}]
      BY <1>u, <3>1, <3>2
    <3> QED
      BY <1>o, <1>r, <2>0, <3>3, <3>4 DEF ReturnAfterWrite
  <2> QED
    BY <2>1, <2>2, <2>3
<1>12. ASSUME NEW r \in Requests, ResolveRole(r) PROVE TypeInv'
  <2>1. Email(r) \in Emails /\ UNCHANGED <<users, accounts, pu, owner, outcome>>
    BY <1>12, <1>e DEF ResolveRole, Advance, Steps
  <2>2. /\ user' \in [Requests -> SomeUser \cup {ZeroUser}] /\ user'[r] \in SomeUser
        /\ \A q \in Requests \ {r} : user'[q] = user[q]
    BY <1>12, <1>k, <2>1 DEF ResolveRole, RoleForNewUser, SomeUser
  <2>3. pc' = [pc EXCEPT ![r] = "create"] /\ "create" \in Steps
    BY <1>12 DEF ResolveRole, Advance, Steps
  <2> QED
    BY <1>d, <1>k, <1>o, <2>1, <2>2, <2>3
<1>13. ASSUME NEW r \in Requests, Create(r) PROVE TypeInv'
  <2>1. UNCHANGED <<users, accounts, pu, owner, user>> /\ pc[r] \in Steps /\ user[r] \in SomeUser
    BY <1>13 DEF Create, Steps
  <2>2. CASE Return(r, "conflict")
    BY <1>k, <1>o, <1>r, <2>1, <2>2
  <2>3. CASE Advance(r, "upsertTx")
    <3>1. pc' = [pc EXCEPT ![r] = "upsertTx"] /\ outcome' = outcome /\ "upsertTx" \in Steps
      BY <2>3 DEF Advance, Steps
    <3> QED
      BY <1>d, <1>e, <1>k, <1>o, <2>1, <3>1
  <2> QED
    BY <1>13, <2>2, <2>3 DEF Create
<1>14. ASSUME NEW r \in Requests, UpsertTx(r) PROVE TypeInv'
  <2>1. UNCHANGED <<users, accounts, pu, owner, user>> /\ pc[r] \in Steps /\ user[r] \in SomeUser
    BY <1>14 DEF UpsertTx, Steps
  <2>2. pc' = [pc EXCEPT ![r] = "commit"] /\ outcome' = outcome /\ "commit" \in Steps
    BY <1>14 DEF UpsertTx, Advance, Steps
  <2> QED
    BY <1>d, <1>e, <1>k, <1>o, <2>1, <2>2
<1>15. ASSUME NEW r \in Requests, Commit(r) PROVE TypeInv'
  <2>1. r \in UserIds
    OBVIOUS
  <2>2. /\ DOMAIN accounts' \subseteq Identities
        /\ \A j \in DOMAIN accounts' :
              accounts'[j] \in [user : UserIds, tokens : Requests \cup {SeedTokens}]
    BY <1>15, <1>u, <2>1 DEF Commit
  <2>3. user[r].email \in Emails /\ user[r].role \in Roles
    BY <1>15 DEF Commit, SomeUser
  <2>4. /\ DOMAIN users' \subseteq UserIds
        /\ \A v \in DOMAIN users' : users'[v] \in [email : Emails, role : Roles]
    BY <1>15, <1>k, <2>3 DEF Commit
  <2>5. PICK o \in {"ok", "dbError"} : Return(r, o)
    BY <1>15 DEF Commit, ReturnAfterWrite
  <2>6. UNCHANGED <<pu, owner, user>>
    BY <1>15 DEF Commit
  <2>7. pc' = [pc EXCEPT ![r] = "done"] /\ outcome' = [outcome EXCEPT ![r] = o]
    BY <2>5 DEF Return
  <2> QED
    BY <1>d, <1>k, <1>o, <2>2, <2>4, <2>6, <2>7
<1>16. ASSUME NEW r \in Requests, DbError(r) PROVE TypeInv'
  BY <1>16, <1>k, <1>o, <1>r DEF DbError
<1> QED
  BY <1>1, <1>2, <1>3, <1>4, <1>5, <1>6, <1>8, <1>9, <1>10, <1>11, <1>12, <1>13,
     <1>14, <1>15, <1>16 DEF Next, Step

(* Every variable keeps its type: in particular no step stores a role other  *)
(* than the two listed ones, or an empty email, in a users row.              *)
THEOREM TypeCorrect == Spec => []TypeOK
<1>1. TypeInv => TypeOK
  BY DEF TypeInv
<1> QED
  BY <1>1, TypeInvInit, TypeInvNext, PTL DEF Spec

-------------------------------------------------------------------------------
(* Roles.  The copy of a user a request carries may be older than the row,   *)
(* but only in that the row of the designated admin has been upgraded since; *)
(* once the request has applied the upgrade itself the two agree for good.   *)
IsAdminEmail(e) == AdminEmail # NoEmail /\ e = AdminEmail

CopyOK(r) ==
    /\ user[r].id \in DOMAIN users
    /\ users[user[r].id].email = user[r].email
    /\ \/ users[user[r].id].role = user[r].role
       \/ IsAdminEmail(user[r].email) /\ users[user[r].id].role = "platform_admin"

Settled(r) ==
    /\ CopyOK(r)
    /\ users[user[r].id].role = user[r].role
    /\ IsAdminEmail(user[r].email) => user[r].role = "platform_admin"

NewRowOK(r) ==
    /\ user[r].id = r
    /\ IsAdminEmail(user[r].email) => user[r].role = "platform_admin"
    /\ user[r].role = "platform_admin" =>
           IsAdminEmail(user[r].email) \/ (DevFallbackEnabled /\ SeedUsers = {})

RowsInv ==
    /\ SeedUsers \subseteq DOMAIN users
    /\ \A r \in Requests : r \in DOMAIN users => pc[r] = "done"
    /\ \A i \in DOMAIN accounts : accounts[i].user \in DOMAIN users

CopyInv(r) ==
    /\ pc[r] \in {"upsertTokens", "upgradeLinked"} => CopyOK(r)
    /\ pc[r] = "upsertTokens" => owner[r] = user[r].id
    /\ pc[r] \in {"upgradeByEmail", "upsertLink"} => NilOnMiss /\ CopyOK(r)
    /\ pc[r] = "upsertLink" => Settled(r)
    /\ pc[r] = "findByEmail" => NilOnMiss
    /\ pc[r] = "findByID" /\ NilOnMiss => owner[r] \in DOMAIN users
    /\ pc[r] \in {"create", "upsertTx", "commit"} => NewRowOK(r)
    /\ outcome[r] # "none" => pc[r] = "done"
    /\ outcome[r] = "ok" => Settled(r)
    /\ NilOnMiss => outcome[r] \notin {"userNotFound", "fkViolation"}

RoleInv == TypeInv /\ RowsInv /\ (\A r \in Requests : CopyInv(r)) /\ AdminsAreBootstrapped

(* What no step does to the users table, and to the requests other than r. *)
UsersKept ==
    \A u \in DOMAIN users :
        /\ u \in DOMAIN users'
        /\ users'[u].email = users[u].email
        /\ \/ users'[u].role = users[u].role
           \/ IsAdminEmail(users[u].email) /\ users'[u].role = "platform_admin"

OthersKept(r) ==
    \A q \in Requests \ {r} :
        pc'[q] = pc[q] /\ user'[q] = user[q] /\ owner'[q] = owner[q]
        /\ outcome'[q] = outcome[q]

LEMMA RoleInvInit == Init => RoleInv
<1> SUFFICES ASSUME Init PROVE RoleInv
  OBVIOUS
<1>1. TypeInv
  BY TypeInvInit
<1>2. RowsInv
  BY SeedAssumption, NamesAssumption DEF Init, RowsInv
<1>3. \A r \in Requests : CopyInv(r)
  BY DEF Init, CopyInv
<1>4. AdminsAreBootstrapped
  BY SeedAssumption DEF Init, AdminsAreBootstrapped
<1> QED
  BY <1>1, <1>2, <1>3, <1>4 DEF RoleInv

(* A request's view survives the steps of the others. *)
LEMMA OtherCopies ==
  ASSUME NEW r \in Requests, NEW q \in Requests \ {r},
         CopyInv(q), UsersKept, OthersKept(r)
  PROVE  CopyInv(q)'
<1>1. /\ pc'[q] = pc[q] /\ user'[q] = user[q] /\ owner'[q] = owner[q]
      /\ outcome'[q] = outcome[q]
  BY DEF OthersKept
<1>2. CopyOK(q) => CopyOK(q)'
  BY <1>1 DEF UsersKept, CopyOK
<1>3. Settled(q) => Settled(q)'
  BY <1>1, <1>2 DEF UsersKept, CopyOK, Settled
<1>4. NewRowOK(q) => NewRowOK(q)'
  BY <1>1 DEF NewRowOK, DevFallbackEnabled
<1>5. owner[q] \in DOMAIN users => owner'[q] \in DOMAIN users'
  BY <1>1 DEF UsersKept
<1> QED
  BY <1>1, <1>2, <1>3, <1>4, <1>5 DEF CopyInv

LEMMA RoleInvNext == RoleInv /\ [Next]_vars => RoleInv'
<1> SUFFICES ASSUME RoleInv, [Next]_vars PROVE RoleInv'
  OBVIOUS
<1>t. TypeInv /\ TypeOK /\ TypeInv'
  BY TypeInvNext DEF RoleInv, TypeInv
<1>inv. RowsInv /\ (\A r \in Requests : CopyInv(r)) /\ AdminsAreBootstrapped
  BY DEF RoleInv
<1>fun. /\ pc \in [Requests -> Steps \cup {"idle", "done"}]
        /\ user \in [Requests -> SomeUser \cup {ZeroUser}]
        /\ owner \in [Requests -> UserIds \cup {NilUUID}]
        /\ outcome \in [Requests -> Outcomes]
  BY <1>t DEF TypeOK
(* It is enough to look at the acting request and at the two tables. *)
<1>q. ASSUME NEW r \in Requests, OthersKept(r), UsersKept, CopyInv(r)', RowsInv',
             AdminsAreBootstrapped'
      PROVE  RoleInv'
  <2>1. \A q \in Requests : CopyInv(q)'
    BY <1>inv, <1>q, OtherCopies
  <2> QED
    BY <1>t, <1>q, <2>1 DEF RoleInv
<1>same. users' = users => UsersKept /\ AdminsAreBootstrapped'
  BY <1>inv DEF UsersKept, AdminsAreBootstrapped
(* An upsert for an existing user by a request that is or becomes done. *)
<1>ups. ASSUME NEW r \in Requests, NEW u \in DOMAIN users', u \in UserIds,
               accounts' = Upserted(Identity(r), u, r),
               DOMAIN users \subseteq DOMAIN users',
               \A q \in Requests : q \in DOMAIN users' => pc'[q] = "done"
        PROVE  RowsInv'
  <2>1. Identity(r) \in Identities
    BY <1>t DEF TypeOK, Identity
  <2>2. /\ DOMAIN accounts' = DOMAIN accounts \cup {Identity(r)}
        /\ \A j \in DOMAIN accounts' :
              /\ j \in DOMAIN accounts => accounts'[j].user = accounts[j].user
              /\ j \notin DOMAIN accounts => accounts'[j].user = u
    BY <1>t, <1>ups, <2>1, UpsertedOwners
  <2> QED
    BY <1>inv, <1>ups, <2>2 DEF RowsInv
<1>1. CASE UNCHANGED vars
  BY <1>1, <1>t, <1>inv
  DEF vars, RoleInv, RowsInv, CopyInv, CopyOK, Settled, NewRowOK, AdminsAreBootstrapped,
      DevFallbackEnabled
<1>2. CASE AllReturned
  BY <1>2, <1>t, <1>inv
  DEF AllReturned, vars, RoleInv, RowsInv, CopyInv, CopyOK, Settled, NewRowOK,
      AdminsAreBootstrapped, DevFallbackEnabled
<1>3. ASSUME NEW r \in Requests, Start(r) PROVE RoleInv'
  <2>1. users' = users /\ accounts' = accounts /\ OthersKept(r)
    BY <1>3, <1>fun DEF Start, Advance, Return, OthersKept
  <2>2. CopyInv(r)'
    BY <1>3, <1>fun, <1>inv DEF Start, Advance, Return, CopyInv
  <2>3. RowsInv'
    BY <1>3, <1>fun, <1>inv, <2>1 DEF Start, Advance, Return, RowsInv
  <2> QED
    BY <1>q, <1>same, <2>1, <2>2, <2>3
<1>4. ASSUME NEW r \in Requests, FindByProvider(r) PROVE RoleInv'
  <2>1. users' = users /\ accounts' = accounts /\ OthersKept(r)
    BY <1>4, <1>fun DEF FindByProvider, Advance, OthersKept
  <2>2. CopyInv(r)'
    BY <1>4, <1>fun, <1>inv DEF FindByProvider, Advance, CopyInv, RowsInv
  <2>3. RowsInv'
    BY <1>4, <1>fun, <1>inv, <2>1 DEF FindByProvider, Advance, RowsInv
  <2> QED
    BY <1>q, <1>same, <2>1, <2>2, <2>3
<1>5. ASSUME NEW r \in Requests, FindByID(r) PROVE RoleInv'
  <2>1. users' = users /\ accounts' = accounts /\ OthersKept(r)
    BY <1>5, <1>fun DEF FindByID, Advance, Return, OthersKept
  <2>2. CASE owner[r] \in DOMAIN users
    <3>1. user'[r] = [id |-> owner[r], email |-> users[owner[r]].email,
                      role |-> users[owner[r]].role]
      BY <1>5, <1>fun, <2>2 DEF FindByID
    <3>2. CopyOK(r)'
      BY <2>1, <2>2, <3>1 DEF CopyOK
    <3> QED
      BY <1>5, <1>fun, <1>inv, <2>1, <2>2, <3>2, <1>q, <1>same
      DEF FindByID, Advance, CopyInv, RowsInv
  <2>3. CASE owner[r] \notin DOMAIN users
    BY <1>5, <1>fun, <1>inv, <2>1, <2>3, <1>q, <1>same
    DEF FindByID, Return, CopyInv, RowsInv
  <2> QED
    BY <2>2, <2>3
<1>6. ASSUME NEW r \in Requests, UpsertTokens(r) PROVE RoleInv'
  <2>1. users' = users /\ UNCHANGED <<user, owner>> /\ OthersKept(r)
    BY <1>6, <1>fun DEF UpsertTokens, AfterWrite, Advance, Return, OthersKept
  <2>2. CopyOK(r)'
    BY <1>6, <1>inv, <2>1 DEF UpsertTokens, CopyInv, CopyOK
  <2>3. CopyInv(r)'
    BY <1>6, <1>fun, <1>inv, <2>2
    DEF UpsertTokens, AfterWrite, Advance, Return, CopyInv
  <2>4. owner[r] \in DOMAIN users
    BY <1>6, <1>inv DEF UpsertTokens, CopyInv, CopyOK
  <2>5. RowsInv'
    <3>1. \A q \in Requests : q \in DOMAIN users' => pc'[q] = "done"
      BY <1>6, <1>fun, <1>inv, <2>1
      DEF UpsertTokens, AfterWrite, Advance, Return, RowsInv
    <3>2. owner[r] \in UserIds
      BY <1>t, <2>4 DEF TypeOK
    <3>3. accounts' = Upserted(Identity(r), owner[r], r)
      BY <1>6 DEF UpsertTokens
    <3> QED
      BY <1>ups, <2>1, <2>4, <3>1, <3>2, <3>3
  <2> QED
    BY <1>q, <1>same, <2>1, <2>3, <2>5
<1>7. ASSUME NEW r \in Requests, Upgrade(r), CopyOK(r)
      PROVE  /\ UsersKept /\ AdminsAreBootstrapped' /\ DOMAIN users' = DOMAIN users
             /\ Settled(r)'
             /\ \A q \in Requests \ {r} : user'[q] = user[q]
  <2>1. /\ DOMAIN users' = DOMAIN users
        /\ \A v \in DOMAIN users :
               \/ users'[v] = users[v]
               \/ /\ NeedsUpgrade(user[r]) /\ v = user[r].id
                  /\ users'[v] = [email |-> user[r].email, role |-> "platform_admin"]
    BY <1>7, <1>t, UpgradeRows
  <2>2. /\ NeedsUpgrade(user[r]) => users'[user[r].id]
              = [email |-> user[r].email, role |-> "platform_admin"]
        /\ ~NeedsUpgrade(user[r]) => UNCHANGED <<users, user>>
        /\ user'[r].id = user[r].id
        /\ user'[r].email = user[r].email
        /\ user'[r].role = IF NeedsUpgrade(user[r]) THEN "platform_admin"
                                                   ELSE user[r].role
        /\ \A q \in Requests \ {r} : user'[q] = user[q]
    BY <1>7, <1>t, UpgradeRows DEF CopyOK
  <2>3. NeedsUpgrade(user[r]) => IsAdminEmail(users[user[r].id].email)
                                 /\ user[r].email = users[user[r].id].email
    BY <1>7 DEF NeedsUpgrade, IsAdminEmail, CopyOK
  <2>4. UsersKept
    BY <2>1, <2>3 DEF UsersKept
  <2>5. Settled(r)'
    BY <1>7, <2>1, <2>2, <2>3 DEF Settled, CopyOK, NeedsUpgrade, IsAdminEmail
  <2>6. AdminsAreBootstrapped'
    BY <1>inv, <2>1, <2>4 DEF UsersKept, AdminsAreBootstrapped, IsAdminEmail
  <2> QED
    BY <2>1, <2>2, <2>4, <2>5, <2>6
<1>8. ASSUME NEW r \in Requests, UpgradeLinked(r) PROVE RoleInv'
  <2>1. CopyOK(r) /\ Upgrade(r)
    BY <1>8, <1>inv DEF UpgradeLinked, CopyInv
  <2>2. OthersKept(r)
    BY <1>7, <1>8, <1>fun, <2>1 DEF UpgradeLinked, UpgradeFails, Return, OthersKept
  <2>3. CopyInv(r)'
    BY <1>7, <1>8, <1>fun, <1>inv, <2>1
    DEF UpgradeLinked, UpgradeFails, Return, CopyInv, Settled
  <2>4. RowsInv'
    BY <1>7, <1>8, <1>fun, <1>inv, <2>1 DEF UpgradeLinked, UpgradeFails, Return, RowsInv
  <2> QED
    BY <1>7, <1>q, <2>1, <2>2, <2>3, <2>4
<1>9. ASSUME NEW r \in Requests, FindByEmail(r) PROVE RoleInv'
  <2>1. users' = users /\ accounts' = accounts /\ OthersKept(r)
    BY <1>9, <1>fun DEF FindByEmail, Advance, OthersKept
  <2>2. RowsInv'
    BY <1>9, <1>fun, <1>inv, <2>1 DEF FindByEmail, Advance, RowsInv
  <2>3. NilOnMiss /\ outcome[r] = "none" /\ outcome' = outcome
    BY <1>9, <1>inv DEF FindByEmail, CopyInv, Advance
  <2>4. ASSUME NEW u \in UserWithEmail(Email(r)), Advance(r, "upgradeByEmail"),
               user' = [user EXCEPT ![r] = [id |-> u, email |-> users[u].email,
                                            role |-> users[u].role]]
        PROVE  CopyInv(r)'
    <3>1. u \in DOMAIN users /\ user'[r] = [id |-> u, email |-> users[u].email,
                                           role |-> users[u].role]
      BY <2>4, <1>fun DEF UserWithEmail
    <3>2. CopyOK(r)'
      BY <2>1, <3>1 DEF CopyOK
    <3> QED
      BY <1>fun, <2>3, <2>4, <3>2 DEF Advance, CopyInv
  <2>5. ASSUME Advance(r, IF NilOnMiss THEN "resolveRole" ELSE "upgradeByEmail")
        PROVE  CopyInv(r)'
    BY <1>fun, <2>3, <2>5 DEF Advance, CopyInv
  <2>6. CopyInv(r)'
    BY <1>9, <2>4, <2>5 DEF FindByEmail
  <2> QED
    BY <1>q, <1>same, <2>1, <2>2, <2>6
<1>10. ASSUME NEW r \in Requests, UpgradeByEmail(r) PROVE RoleInv'
  <2>1. CopyOK(r) /\ Upgrade(r) /\ NilOnMiss
    BY <1>10, <1>inv DEF UpgradeByEmail, CopyInv
  <2>2. OthersKept(r)
    BY <1>7, <1>10, <1>fun, <2>1
    DEF UpgradeByEmail, UpgradeFails, Advance, Return, OthersKept
  <2>3. CopyInv(r)'
    BY <1>7, <1>10, <1>fun, <1>inv, <2>1
    DEF UpgradeByEmail, UpgradeFails, Advance, Return, CopyInv, Settled
  <2>4. RowsInv'
    BY <1>7, <1>10, <1>fun, <1>inv, <2>1
    DEF UpgradeByEmail, UpgradeFails, Advance, Return, RowsInv
  <2> QED
    BY <1>7, <1>q, <2>1, <2>2, <2>3, <2>4
<1>11. ASSUME NEW r \in Requests, UpsertLink(r) PROVE RoleInv'
  <2>1. users' = users /\ UNCHANGED <<user, owner>> /\ OthersKept(r)
    BY <1>11, <1>fun DEF UpsertLink, ReturnAfterWrite, Return, OthersKept
  <2>2. NilOnMiss /\ Settled(r) /\ user[r].id \in DOMAIN users
    BY <1>11, <1>inv DEF UpsertLink, CopyInv, CopyOK
  <2>3. Settled(r)'
    BY <2>1, <2>2 DEF Settled, CopyOK
  <2>4. CopyInv(r)'
    BY <1>11, <1>fun, <1>inv, <2>2, <2>3 DEF UpsertLink, ReturnAfterWrite, Return, CopyInv
  <2>5. RowsInv'
    <3>1. \A q \in Requests : q \in DOMAIN users' => pc'[q] = "done"
      BY <1>11, <1>fun, <1>inv, <2>1 DEF UpsertLink, ReturnAfterWrite, Return, RowsInv
    <3>2. user[r].id \in UserIds
      BY <1>t, <2>2 DEF TypeOK
    <3>3. accounts' = Upserted(Identity(r), user[r].id, r)
      BY <1>11, <2>2 DEF UpsertLink
    <3> QED
      BY <1>ups, <2>1, <2>2, <3>1, <3>2, <3>3
  <2> QED
    BY <1>q, <1>same, <2>1, <2>4, <2>5
<1>12. ASSUME NEW r \in Requests, ResolveRole(r) PROVE RoleInv'
  <2>1. users' = users /\ accounts' = accounts /\ OthersKept(r)
    BY <1>12, <1>fun DEF ResolveRole, Advance, OthersKept
  <2>2. user'[r] = [id |-> r, email |-> Email(r), role |-> RoleForNewUser(Email(r))]
    BY <1>12, <1>fun DEF ResolveRole
  <2>3. NewRowOK(r)'
    BY <1>inv, <2>2 DEF NewRowOK, RoleForNewUser, IsAdminEmail, RowsInv, DevFallbackEnabled
  <2>4. CopyInv(r)'
    BY <1>12, <1>fun, <1>inv, <2>3 DEF ResolveRole, Advance, CopyInv
  <2>5. RowsInv'
    BY <1>12, <1>fun, <1>inv, <2>1 DEF ResolveRole, Advance, RowsInv
  <2> QED
    BY <1>q, <1>same, <2>1, <2>4, <2>5
<1>13. ASSUME NEW r \in Requests, Create(r) \/ UpsertTx(r) PROVE RoleInv'
  <2>1. UNCHANGED <<users, accounts, user, owner>> /\ OthersKept(r)
    BY <1>13, <1>fun DEF Create, UpsertTx, Advance, Return, OthersKept
  <2>2. NewRowOK(r)'
    BY <1>13, <1>inv, <2>1 DEF Create, UpsertTx, CopyInv, NewRowOK, DevFallbackEnabled
  <2>3. CopyInv(r)'
    BY <1>13, <1>fun, <1>inv, <2>2 DEF Create, UpsertTx, Advance, Return, CopyInv
  <2>4. RowsInv'
    BY <1>13, <1>fun, <1>inv, <2>1 DEF Create, UpsertTx, Advance, Return, RowsInv
  <2> QED
    BY <1>q, <1>same, <2>1, <2>3, <2>4
<1>14. ASSUME NEW r \in Requests, Commit(r) PROVE RoleInv'
  <2>1. /\ UNCHANGED <<user, owner>> /\ OthersKept(r)
        /\ pc' = [pc EXCEPT ![r] = "done"]
        /\ accounts' = Upserted(Identity(r), r, r)
    BY <1>14, <1>fun DEF Commit, ReturnAfterWrite, Return, OthersKept
  <2>2. NewRowOK(r) /\ r \notin DOMAIN users
    BY <1>14, <1>inv DEF Commit, CopyInv, RowsInv
  <2>3. /\ DOMAIN users' = DOMAIN users \cup {r}
        /\ users'[r] = [email |-> user[r].email, role |-> user[r].role]
        /\ \A u \in DOMAIN users : users'[u] = users[u]
    BY <1>14, <2>2 DEF Commit
  <2>4. UsersKept
    BY <2>3 DEF UsersKept
  <2>5. Settled(r)'
    BY <2>1, <2>2, <2>3 DEF Settled, CopyOK, NewRowOK
  <2>6. CopyInv(r)'
    BY <1>14, <1>fun, <1>inv, <2>5 DEF Commit, ReturnAfterWrite, Return, CopyInv
  <2>7. AdminsAreBootstrapped'
    BY <1>inv, <2>2, <2>3
    DEF AdminsAreBootstrapped, NewRowOK, IsAdminEmail, DevFallbackEnabled
  <2>8. RowsInv'
    <3>1. \A q \in Requests : q \in DOMAIN users' => pc'[q] = "done"
      BY <1>fun, <1>inv, <2>1, <2>3 DEF RowsInv
    <3> QED
      BY <1>ups, <2>1, <2>3, <3>1
  <2> QED
    BY <1>q, <2>1, <2>4, <2>6, <2>7, <2>8
<1>15. ASSUME NEW r \in Requests, DbError(r) PROVE RoleInv'
  <2>1. UNCHANGED <<users, accounts, user, owner>> /\ OthersKept(r)
    BY <1>15, <1>fun DEF DbError, Return, OthersKept
  <2>2. CopyInv(r)'
    BY <1>15, <1>fun, <1>inv DEF DbError, Return, CopyInv
  <2>3. RowsInv'
    BY <1>15, <1>fun, <1>inv, <2>1 DEF DbError, Return, RowsInv
  <2> QED
    BY <1>q, <1>same, <2>1, <2>2, <2>3
<1> QED
  BY <1>1, <1>2, <1>3, <1>4, <1>5, <1>6, <1>8, <1>9, <1>10, <1>11, <1>12, <1>13,
     <1>14, <1>15 DEF Next, Step

(* No configuration and no interleaving makes anybody platform_admin but the *)
(* designated email, or, with the fallback, a newcomer to an empty database. *)
THEOREM AdminsBootstrapped == Spec => []AdminsAreBootstrapped
<1>1. RoleInv => AdminsAreBootstrapped
  BY DEF RoleInv
<1> QED
  BY <1>1, RoleInvInit, RoleInvNext, PTL DEF Spec

(* The role a login returns is the one in the table. *)
THEOREM RolesCurrent == Spec => []ResolvedRoleIsCurrent
<1>1. RoleInv => ResolvedRoleIsCurrent
  BY DEF RoleInv, CopyInv, Settled, CopyOK, ResolvedRoleIsCurrent
<1> QED
  BY <1>1, RoleInvInit, RoleInvNext, PTL DEF Spec

(* Whichever case a login of the designated admin takes, it ends with a row  *)
(* that says platform_admin.                                                 *)
THEOREM AdminIsAdmin == Spec => []DesignatedAdminIsAdmin
<1>1. RoleInv => DesignatedAdminIsAdmin
  BY DEF RoleInv, CopyInv, Settled, CopyOK, IsAdminEmail, DesignatedAdminIsAdmin
<1> QED
  BY <1>1, RoleInvInit, RoleInvNext, PTL DEF Spec

(* With repositories that return nil for a missing row, no lookup of the     *)
(* resolver ends in a missing user or a dangling link.                       *)
THEOREM LookupsFind == ASSUME NilOnMiss PROVE Spec => []LookupsSucceed
<1>1. RoleInv => LookupsSucceed
  BY DEF RoleInv, CopyInv, LookupsSucceed
<1> QED
  BY <1>1, RoleInvInit, RoleInvNext, PTL DEF Spec

-------------------------------------------------------------------------------
(* The two tables only grow, and what is in them keeps its owner, its email  *)
(* and its rank.                                                             *)
AccountsKept ==
    \A i \in DOMAIN accounts : i \in DOMAIN accounts' /\ accounts'[i].user = accounts[i].user

LEMMA TablesKept == RoleInv /\ [Next]_vars => UsersKept /\ AccountsKept
<1> SUFFICES ASSUME RoleInv, [Next]_vars PROVE UsersKept /\ AccountsKept
  OBVIOUS
<1>t. TypeOK /\ (\A r \in Requests : CopyInv(r) /\ Identity(r) \in Identities)
  BY DEF RoleInv, TypeInv, TypeOK, Identity
<1>r. RowsInv
  BY DEF RoleInv
<1>u. users' = users => UsersKept
  BY DEF UsersKept
<1>a. accounts' = accounts => AccountsKept
  BY DEF AccountsKept
<1>up. ASSUME NEW r \in Requests, Upgrade(r), CopyOK(r) PROVE UsersKept
  <2>1. \A v \in DOMAIN users :
           /\ v \in DOMAIN users'
           /\ \/ users'[v] = users[v]
              \/ /\ NeedsUpgrade(user[r]) /\ v = user[r].id
                 /\ users'[v] = [email |-> user[r].email, role |-> "platform_admin"]
    BY <1>t, <1>up, UpgradeRows
  <2> QED
    BY <1>up, <2>1 DEF UsersKept, CopyOK, NeedsUpgrade, IsAdminEmail
<1>ac. ASSUME NEW r \in Requests, NEW u \in UserIds, accounts' = Upserted(Identity(r), u, r)
       PROVE  AccountsKept
  <2>1. Identity(r) \in Identities
    BY <1>t
  <2>2. /\ DOMAIN accounts' = DOMAIN accounts \cup {Identity(r)}
        /\ \A j \in DOMAIN accounts' :
              j \in DOMAIN accounts => accounts'[j].user = accounts[j].user
    BY <1>t, <1>ac, <2>1, UpsertedOwners
  <2> QED
    BY <2>2 DEF AccountsKept
<1>1. CASE UNCHANGED vars \/ AllReturned
  BY <1>1, <1>u, <1>a DEF AllReturned, vars
<1>2. ASSUME NEW r \in Requests,
             Start(r) \/ FindByProvider(r) \/ FindByID(r) \/ FindByEmail(r)
             \/ ResolveRole(r) \/ Create(r) \/ UpsertTx(r) \/ DbError(r)
      PROVE  UsersKept /\ AccountsKept
  BY <1>2, <1>u, <1>a
  DEF Start, FindByProvider, FindByID, FindByEmail, ResolveRole, Create, UpsertTx, DbError
<1>3. ASSUME NEW r \in Requests, UpsertTokens(r) PROVE UsersKept /\ AccountsKept
  <2>1. owner[r] \in UserIds
    BY <1>3 DEF UpsertTokens, RoleInv, TypeInv, LocalsOK
  <2> QED
    BY <1>3, <1>u, <1>ac, <2>1 DEF UpsertTokens
<1>4. ASSUME NEW r \in Requests, UpgradeLinked(r) \/ UpgradeByEmail(r)
      PROVE  UsersKept /\ AccountsKept
  <2>1. Upgrade(r) /\ CopyOK(r) /\ accounts' = accounts
    BY <1>4, <1>t DEF UpgradeLinked, UpgradeByEmail, CopyInv
  <2> QED
    BY <1>up, <1>a, <2>1
<1>5. ASSUME NEW r \in Requests, UpsertLink(r) PROVE UsersKept /\ AccountsKept
  <2>1. user[r].id \in DOMAIN users /\ user[r].id \in UserIds
    BY <1>5, <1>t DEF UpsertLink, CopyInv, CopyOK, TypeOK
  <2> QED
    BY <1>5, <1>u, <1>a, <1>ac, <2>1 DEF UpsertLink
<1>6. ASSUME NEW r \in Requests, Commit(r) PROVE UsersKept /\ AccountsKept
  <2>1. r \notin DOMAIN users /\ r \in UserIds
    BY <1>6, <1>r DEF Commit, RowsInv
  <2>2. UsersKept
    BY <1>6, <2>1 DEF Commit, UsersKept
  <2> QED
    BY <1>6, <1>ac, <2>1, <2>2 DEF Commit
<1> QED
  BY <1>1, <1>2, <1>3, <1>4, <1>5, <1>6 DEF Next, Step

(* A login never re-links an identity, never removes or renames a user and   *)
(* never demotes one.                                                        *)
THEOREM NothingForgotten == Spec => HistoryKept
<1>1. RoleInv /\ [Next]_vars =>
        [/\ \A i \in DOMAIN accounts : i \in DOMAIN accounts'
                                      /\ accounts'[i].user = accounts[i].user
         /\ \A u \in DOMAIN users :
               /\ u \in DOMAIN users'
               /\ users'[u].email = users[u].email
               /\ users[u].role = "platform_admin" => users'[u].role = "platform_admin"
        ]_vars
  BY TablesKept DEF UsersKept, AccountsKept
<1> QED
  BY <1>1, RoleInvInit, RoleInvNext, PTL DEF Spec, HistoryKept

-------------------------------------------------------------------------------
(* Linking.  Under StableEmails every link made by a login points to the     *)
(* user with that identity's email, the email is unique, and a transaction   *)
(* that has inserted an email keeps everybody else from committing one.      *)
(* Together they leave no room for an upsert that finds a row of another     *)
(* user.                                                                     *)
LinkedTo(r, u) == Identity(r) \in DOMAIN accounts /\ accounts[Identity(r)].user = u

UniqueEmails == \A u, v \in DOMAIN users : users[u].email = users[v].email => u = v

LinksByEmail ==
    \A i \in DOMAIN accounts \ DOMAIN SeedLinks : \A p \in Profiles :
        p[1] = i => users[accounts[i].user].email = p[2]

EmailLocksInv ==
    \A r \in Requests : HoldsEmail(r) =>
        /\ UserWithEmail(Email(r)) = {}
        /\ \A q \in Requests \ {r} : HoldsEmail(q) => Email(q) # Email(r)

LinkReq(r) ==
    /\ pc[r] = "findByID" /\ owner[r] # NilUUID => LinkedTo(r, owner[r])
    /\ pc[r] \in {"upsertTokens", "upgradeLinked"} => LinkedTo(r, user[r].id)
    /\ outcome[r] = "ok" => LinkedTo(r, user[r].id)
    /\ r \in DOMAIN users => LinkedTo(r, r)
    /\ pc[r] \in {"findByEmail", "upgradeByEmail", "upsertLink", "resolveRole", "create",
                  "upsertTx", "commit"} => Identity(r) \notin DOMAIN SeedLinks
    /\ pc[r] \in {"upgradeByEmail", "upsertLink", "create", "upsertTx", "commit"}
           => user[r].email = Email(r)

LinkInv ==
    /\ RoleInv
    /\ \A r \in Requests : pu[r] \in Profiles
    /\ DOMAIN SeedLinks \subseteq DOMAIN accounts
    /\ UniqueEmails
    /\ LinksByEmail
    /\ EmailLocksInv
    /\ \A r \in Requests : LinkReq(r)

LEMMA LinkInvInit == Init => LinkInv
<1> SUFFICES ASSUME Init PROVE LinkInv
  OBVIOUS
<1>1. RoleInv
  BY RoleInvInit
<1>2. /\ \A r \in Requests : pu[r] \in Profiles
      /\ DOMAIN accounts = DOMAIN SeedLinks
      /\ UniqueEmails
      /\ EmailLocksInv
  BY SeedAssumption DEF Init, UniqueEmails, EmailLocksInv, HoldsEmail
<1>3. LinksByEmail
  BY <1>2 DEF LinksByEmail
<1>4. \A r \in Requests : LinkReq(r)
  BY SeedAssumption, NamesAssumption DEF Init, LinkReq
<1> QED
  BY <1>1, <1>2, <1>3, <1>4 DEF LinkInv

LEMMA LinkInvNext == ASSUME StableEmails PROVE LinkInv /\ [Next]_vars => LinkInv'
<1> SUFFICES ASSUME LinkInv, [Next]_vars PROVE LinkInv'
  OBVIOUS
<1>k. RoleInv /\ RoleInv' /\ UsersKept /\ AccountsKept
  BY RoleInvNext, TablesKept DEF LinkInv
<1>t. TypeOK /\ RowsInv /\ (\A r \in Requests : CopyInv(r))
  BY <1>k DEF RoleInv, TypeInv
<1>inv. /\ \A r \in Requests : pu[r] \in Profiles /\ LinkReq(r)
        /\ UniqueEmails /\ LinksByEmail /\ EmailLocksInv
  BY DEF LinkInv
<1>fun. /\ pc \in [Requests -> Steps \cup {"idle", "done"}]
        /\ user \in [Requests -> SomeUser \cup {ZeroUser}]
        /\ owner \in [Requests -> UserIds \cup {NilUUID}]
        /\ outcome \in [Requests -> Outcomes]
        /\ \A r \in Requests : Identity(r) \in Identities
  BY <1>t DEF TypeOK, Identity
<1>pu. /\ pu' = pu
       /\ \A r \in Requests : Identity(r)' = Identity(r) /\ Email(r)' = Email(r)
  <2>1. pu' = pu
    BY DEF Next, Step, Start, FindByProvider, FindByID, UpsertTokens, UpgradeLinked,
           FindByEmail, UpgradeByEmail, UpsertLink, ResolveRole, Create, UpsertTx, Commit,
           DbError, AllReturned, vars
  <2> QED
    BY <2>1 DEF Identity, Email
<1>seed. DOMAIN SeedLinks \subseteq DOMAIN accounts /\ DOMAIN SeedLinks \subseteq DOMAIN accounts'
  BY <1>k DEF LinkInv, AccountsKept
<1>link. \A r \in Requests : \A u : LinkedTo(r, u) => LinkedTo(r, u)'
  BY <1>k, <1>pu DEF LinkedTo, AccountsKept
(* A step that inserts no users row leaves the emails as they are. *)
<1>emails. ASSUME DOMAIN users' = DOMAIN users
           PROVE  /\ UniqueEmails'
                  /\ \A e : UserWithEmail(e)' = UserWithEmail(e)
  BY <1>k, <1>inv, <1>emails DEF UsersKept, UniqueEmails, UserWithEmail
(* A step that leaves accounts alone, or upserts for the user with the       *)
(* request's email, keeps LinksByEmail.                                      *)
<1>lk. ASSUME DOMAIN accounts' = DOMAIN accounts PROVE LinksByEmail'
  <2>1. \A i \in DOMAIN accounts : users'[accounts'[i].user].email = users[accounts[i].user].email
    BY <1>k, <1>t DEF UsersKept, AccountsKept, RowsInv
  <2> QED
    BY <1>inv, <1>lk, <2>1 DEF LinksByEmail
<1>lu. ASSUME NEW r \in Requests, NEW u \in DOMAIN users', u \in UserIds,
              users'[u].email = Email(r),
              accounts' = Upserted(Identity(r), u, r)
       PROVE  /\ LinksByEmail'
              /\ Identity(r) \in DOMAIN accounts \/ LinkedTo(r, u)'
  <2>1. /\ DOMAIN accounts' = DOMAIN accounts \cup {Identity(r)}
        /\ \A j \in DOMAIN accounts' : j \notin DOMAIN accounts => accounts'[j].user = u
    BY <1>lu DEF Upserted
  <2>2. \A i \in DOMAIN accounts :
           users'[accounts'[i].user].email = users[accounts[i].user].email
    BY <1>k, <1>t DEF UsersKept, AccountsKept, RowsInv
  <2>3. \A p \in Profiles : p[1] = Identity(r) => p[2] = Email(r)
    BY <1>inv DEF StableEmails, Identity, Email
  <2>4. LinksByEmail'
    BY <1>inv, <1>lu, <2>1, <2>2, <2>3 DEF LinksByEmail
  <2>5. Identity(r) \in DOMAIN accounts \/ LinkedTo(r, u)'
    BY <1>pu, <2>1 DEF LinkedTo
  <2> QED
    BY <2>4, <2>5
(* The requests that do not act. *)
<1>others. ASSUME NEW r \in Requests, OthersKept(r), DOMAIN users' \subseteq DOMAIN users \cup {r},
                  NEW q \in Requests \ {r}
           PROVE  LinkReq(q)'
  <2>1. /\ pc'[q] = pc[q] /\ user'[q] = user[q] /\ owner'[q] = owner[q]
        /\ outcome'[q] = outcome[q] /\ (q \in DOMAIN users' => q \in DOMAIN users)
    BY <1>others DEF OthersKept
  <2>2. /\ LinkedTo(q, q) => LinkedTo(q, q)'
        /\ LinkedTo(q, user[q].id) => LinkedTo(q, user[q].id)'
        /\ LinkedTo(q, owner[q]) => LinkedTo(q, owner[q])'
    BY <1>k, <1>pu, <2>1 DEF LinkedTo, AccountsKept
  <2>3. LinkReq(q) /\ Identity(q)' = Identity(q) /\ Email(q)' = Email(q)
    BY <1>inv, <1>pu
  <2> QED
    BY <2>1, <2>2, <2>3 DEF LinkReq
<1>locks. ASSUME NEW r \in Requests, OthersKept(r), DOMAIN users' = DOMAIN users,
                 HoldsEmail(r)' => HoldsEmail(r)
          PROVE  EmailLocksInv'
  <2>1. \A q \in Requests : HoldsEmail(q)' => HoldsEmail(q)
    BY <1>locks DEF OthersKept, HoldsEmail
  <2> QED
    BY <1>inv, <1>pu, <1>emails, <1>locks, <2>1 DEF EmailLocksInv
(* Steps that insert no row in users and take no email lock. *)
<1>q. ASSUME NEW r \in Requests, OthersKept(r), DOMAIN users' = DOMAIN users,
             HoldsEmail(r)' => HoldsEmail(r), LinksByEmail', LinkReq(r)'
      PROVE  LinkInv'
  <2>1. \A q \in Requests : LinkReq(q)'
    BY <1>others, <1>q
  <2>2. UniqueEmails' /\ EmailLocksInv'
    BY <1>emails, <1>locks, <1>q
  <2> QED
    BY <1>k, <1>inv, <1>pu, <1>seed, <1>q, <2>1, <2>2 DEF LinkInv
<1>1. CASE UNCHANGED vars \/ AllReturned
  BY <1>1, <1>k, <1>inv, <1>seed
  DEF AllReturned, vars, LinkInv, UniqueEmails, LinksByEmail, EmailLocksInv, HoldsEmail,
      UserWithEmail, LinkReq, LinkedTo, Identity, Email
<1>2. ASSUME NEW r \in Requests, Start(r) PROVE LinkInv'
  <2>1. OthersKept(r) /\ UNCHANGED <<users, accounts, user, owner>>
    BY <1>2, <1>fun DEF Start, Advance, Return, OthersKept
  <2>2. LinkReq(r)'
    BY <1>2, <1>fun, <1>inv, <1>link, <1>pu, <2>1 DEF Start, Advance, Return, LinkReq
  <2>3. HoldsEmail(r)' => HoldsEmail(r)
    BY <1>2, <1>fun DEF Start, Advance, Return, HoldsEmail
  <2> QED
    BY <1>q, <1>lk, <2>1, <2>2, <2>3
<1>3. ASSUME NEW r \in Requests, FindByProvider(r) PROVE LinkInv'
  <2>1. OthersKept(r) /\ UNCHANGED <<users, accounts, user, outcome>>
    BY <1>3, <1>fun DEF FindByProvider, Advance, OthersKept
  <2>2. owner'[r] # NilUUID => LinkedTo(r, owner[r])'
    <3>1. Identity(r)' = Identity(r)
      BY <1>pu
    <3>2. owner'[r] = IF Identity(r) \in DOMAIN accounts THEN accounts[Identity(r)].user
                                                        ELSE NilUUID
      BY <1>3, <1>fun DEF FindByProvider
    <3> QED
      BY <2>1, <3>1, <3>2 DEF LinkedTo
  <2>3. /\ outcome'[r] = "none" /\ r \notin DOMAIN users'
        /\ pc'[r] = "findByID" \/ (pc'[r] = "findByEmail" /\ Identity(r) \notin DOMAIN SeedLinks)
    BY <1>3, <1>fun, <1>seed, <1>t, <2>1 DEF FindByProvider, Advance, CopyInv, RowsInv
  <2>4. LinkReq(r)'
    BY <1>pu, <2>2, <2>3 DEF LinkReq
  <2>5. HoldsEmail(r)' => HoldsEmail(r)
    BY <2>3 DEF HoldsEmail
  <2> QED
    BY <1>q, <1>lk, <2>1, <2>4, <2>5
<1>4. ASSUME NEW r \in Requests, FindByID(r) PROVE LinkInv'
  <2>1. OthersKept(r) /\ UNCHANGED <<users, accounts, owner>>
    BY <1>4, <1>fun DEF FindByID, Advance, Return, OthersKept
  <2>2. owner[r] \in DOMAIN users => user'[r].id = owner[r] /\ owner[r] # NilUUID
    BY <1>4, <1>fun, <1>t, NamesAssumption DEF FindByID, TypeOK
  <2>3. outcome[r] = "none" /\ r \notin DOMAIN users
    BY <1>4, <1>t DEF FindByID, CopyInv, RowsInv
  <2>4. LinkReq(r)'
    BY <1>4, <1>fun, <1>inv, <1>link, <2>1, <2>2, <2>3
    DEF FindByID, Advance, Return, LinkReq
  <2>5. HoldsEmail(r)' => HoldsEmail(r)
    BY <1>4, <1>fun DEF FindByID, Advance, Return, HoldsEmail
  <2> QED
    BY <1>q, <1>lk, <2>1, <2>4, <2>5
<1>5. ASSUME NEW r \in Requests, UpsertTokens(r) PROVE LinkInv'
  <2>1. OthersKept(r) /\ UNCHANGED <<users, user, owner>>
    BY <1>5, <1>fun DEF UpsertTokens, AfterWrite, Advance, Return, OthersKept
  <2>2. LinkedTo(r, user[r].id) /\ owner[r] \in UserIds
    BY <1>5, <1>inv, <1>k DEF UpsertTokens, LinkReq, RoleInv, TypeInv, LocalsOK
  <2>3. DOMAIN accounts' = DOMAIN accounts
    BY <1>5, <2>2 DEF UpsertTokens, Upserted, LinkedTo
  <2>4. outcome[r] = "none" /\ r \notin DOMAIN users
    BY <1>5, <1>t DEF UpsertTokens, CopyInv, RowsInv
  <2>5. LinkReq(r)'
    BY <1>5, <1>fun, <1>inv, <1>link, <2>1, <2>2, <2>4
    DEF UpsertTokens, AfterWrite, Advance, Return, LinkReq
  <2>6. HoldsEmail(r)' => HoldsEmail(r)
    BY <1>5, <1>fun DEF UpsertTokens, AfterWrite, Advance, Return, HoldsEmail
  <2> QED
    BY <1>q, <1>lk, <2>1, <2>3, <2>5, <2>6
<1>6. ASSUME NEW r \in Requests, UpgradeLinked(r) PROVE LinkInv'
  <2>1. /\ DOMAIN users' = DOMAIN users /\ user'[r].id = user[r].id
        /\ \A q \in Requests \ {r} : user'[q] = user[q]
    BY <1>6, <1>t, UpgradeRows DEF UpgradeLinked
  <2>2. OthersKept(r) /\ UNCHANGED <<accounts, owner>>
    BY <1>6, <1>fun, <2>1 DEF UpgradeLinked, UpgradeFails, Return, OthersKept
  <2>3. LinkedTo(r, user[r].id) /\ r \notin DOMAIN users /\ pc'[r] = "done"
    BY <1>6, <1>fun, <1>inv, <1>t DEF UpgradeLinked, UpgradeFails, Return, LinkReq, RowsInv
  <2>4. LinkReq(r)'
    <3>1. LinkedTo(r, user[r].id)'
      BY <1>pu, <2>1, <2>2, <2>3 DEF LinkedTo
    <3> QED
      BY <2>1, <2>3, <3>1 DEF LinkReq
  <2>5. HoldsEmail(r)' => HoldsEmail(r)
    BY <2>3 DEF HoldsEmail
  <2> QED
    BY <1>q, <1>lk, <2>1, <2>2, <2>4, <2>5
<1>7. ASSUME NEW r \in Requests, FindByEmail(r) PROVE LinkInv'
  <2>1. OthersKept(r) /\ UNCHANGED <<users, accounts, owner, outcome>>
    BY <1>7, <1>fun DEF FindByEmail, Advance, OthersKept
  <2>2. outcome[r] = "none" /\ r \notin DOMAIN users /\ NilOnMiss
    BY <1>7, <1>t DEF FindByEmail, CopyInv, RowsInv
  <2>3. Identity(r) \notin DOMAIN SeedLinks
    BY <1>7, <1>inv DEF FindByEmail, LinkReq
  <2>4. \/ pc'[r] = "upgradeByEmail" /\ user'[r].email = Email(r)
        \/ pc'[r] = "resolveRole"
    BY <1>7, <1>fun, <2>2 DEF FindByEmail, Advance, UserWithEmail
  <2>5. LinkReq(r)'
    BY <1>pu, <2>1, <2>2, <2>3, <2>4 DEF LinkReq
  <2>6. HoldsEmail(r)' => HoldsEmail(r)
    BY <2>4 DEF HoldsEmail
  <2> QED
    BY <1>q, <1>lk, <2>1, <2>5, <2>6
<1>8. ASSUME NEW r \in Requests, UpgradeByEmail(r) PROVE LinkInv'
  <2>1. /\ DOMAIN users' = DOMAIN users /\ user'[r].email = user[r].email
        /\ \A q \in Requests \ {r} : user'[q] = user[q]
    BY <1>8, <1>t, UpgradeRows DEF UpgradeByEmail
  <2>2. OthersKept(r) /\ UNCHANGED <<accounts, owner>>
    BY <1>8, <1>fun, <2>1 DEF UpgradeByEmail, UpgradeFails, Advance, Return, OthersKept
  <2>3. outcome[r] = "none" /\ r \notin DOMAIN users
    BY <1>8, <1>t DEF UpgradeByEmail, CopyInv, RowsInv
  <2>4. Identity(r) \notin DOMAIN SeedLinks /\ user[r].email = Email(r)
    BY <1>8, <1>inv DEF UpgradeByEmail, LinkReq
  <2>5. /\ pc'[r] \in {"upsertLink", "done"}
        /\ outcome'[r] # "ok"
    BY <1>8, <1>fun, <2>3 DEF UpgradeByEmail, UpgradeFails, Advance, Return
  <2>6. LinkReq(r)'
    BY <1>pu, <2>1, <2>3, <2>4, <2>5 DEF LinkReq
  <2>7. HoldsEmail(r)' => HoldsEmail(r)
    BY <2>5 DEF HoldsEmail
  <2> QED
    BY <1>q, <1>lk, <2>1, <2>2, <2>6, <2>7
<1>9. ASSUME NEW r \in Requests, UpsertLink(r) PROVE LinkInv'
  <2>1. OthersKept(r) /\ UNCHANGED <<users, user, owner>>
    BY <1>9, <1>fun DEF UpsertLink, ReturnAfterWrite, Return, OthersKept
  <2>2. /\ user[r].id \in DOMAIN users /\ user[r].id \in UserIds
        /\ users[user[r].id].email = Email(r)
        /\ Identity(r) \notin DOMAIN SeedLinks
        /\ r \notin DOMAIN users
    BY <1>9, <1>inv, <1>t DEF UpsertLink, LinkReq, CopyInv, CopyOK, RowsInv, TypeOK
  <2>3. accounts' = Upserted(Identity(r), user[r].id, r) /\ pc'[r] = "done"
    BY <1>9, <1>fun, <2>2 DEF UpsertLink, ReturnAfterWrite, Return
  <2>4. LinksByEmail' /\ (Identity(r) \in DOMAIN accounts \/ LinkedTo(r, user[r].id)')
    BY <1>lu, <2>1, <2>2, <2>3
  <2>5. ASSUME Identity(r) \in DOMAIN accounts PROVE LinkedTo(r, user[r].id)
    <3>1. users[accounts[Identity(r)].user].email = Email(r)
      BY <1>inv, <2>2, <2>5 DEF LinksByEmail, Identity, Email
    <3>2. accounts[Identity(r)].user \in DOMAIN users
      BY <1>t, <2>5 DEF RowsInv
    <3> QED
      BY <1>inv, <2>2, <2>5, <3>1, <3>2 DEF UniqueEmails, LinkedTo
  <2>6. LinkedTo(r, user[r].id)'
    BY <1>link, <2>1, <2>4, <2>5
  <2>7. LinkReq(r)'
    BY <2>1, <2>2, <2>3, <2>6 DEF LinkReq
  <2>8. HoldsEmail(r)' => HoldsEmail(r)
    BY <2>3 DEF HoldsEmail
  <2> QED
    BY <1>q, <2>1, <2>4, <2>7, <2>8
<1>10. ASSUME NEW r \in Requests, ResolveRole(r) PROVE LinkInv'
  <2>1. OthersKept(r) /\ UNCHANGED <<users, accounts, owner, outcome>>
    BY <1>10, <1>fun DEF ResolveRole, Advance, OthersKept
  <2>2. /\ outcome[r] = "none" /\ r \notin DOMAIN users
        /\ Identity(r) \notin DOMAIN SeedLinks
    BY <1>10, <1>t, <1>inv DEF ResolveRole, CopyInv, RowsInv, LinkReq
  <2>3. pc'[r] = "create" /\ user'[r].email = Email(r)
    BY <1>10, <1>fun DEF ResolveRole, Advance
  <2>4. LinkReq(r)'
    BY <1>pu, <2>1, <2>2, <2>3 DEF LinkReq
  <2>5. HoldsEmail(r)' => HoldsEmail(r)
    BY <2>3 DEF HoldsEmail
  <2> QED
    BY <1>q, <1>lk, <2>1, <2>4, <2>5
<1>11. ASSUME NEW r \in Requests, Create(r) PROVE LinkInv'
  <2>1. OthersKept(r) /\ UNCHANGED <<users, accounts, user, owner>>
    BY <1>11, <1>fun DEF Create, Advance, Return, OthersKept
  <2>2. /\ outcome[r] = "none" /\ r \notin DOMAIN users
        /\ Identity(r) \notin DOMAIN SeedLinks
        /\ user[r].email = Email(r)
    BY <1>11, <1>t, <1>inv DEF Create, CopyInv, RowsInv, LinkReq
  <2>3. /\ pc'[r] \in {"upsertTx", "done"} /\ outcome'[r] # "ok"
        /\ pc'[r] = "upsertTx" => UserWithEmail(Email(r)) = {}
    BY <1>11, <1>fun, <2>2 DEF Create, Advance, Return
  <2>4. LinkReq(r)'
    BY <1>pu, <2>1, <2>2, <2>3 DEF LinkReq
  <2>5. \A q \in Requests \ {r} : HoldsEmail(q) => Email(q) # Email(r)
    BY <1>11 DEF Create, EmailLocked
  <2>6. /\ \A q \in Requests \ {r} : HoldsEmail(q)' = HoldsEmail(q)
        /\ HoldsEmail(r)' => UserWithEmail(Email(r)) = {}
    BY <2>1, <2>3 DEF HoldsEmail, OthersKept
  <2>7. UniqueEmails' /\ \A e : UserWithEmail(e)' = UserWithEmail(e)
    BY <1>emails, <2>1
  <2>8. EmailLocksInv'
    BY <1>inv, <1>pu, <2>5, <2>6, <2>7 DEF EmailLocksInv
  <2>9. \A q \in Requests : LinkReq(q)'
    BY <1>others, <2>1, <2>4
  <2> QED
    BY <1>k, <1>inv, <1>pu, <1>seed, <1>lk, <2>1, <2>7, <2>8, <2>9 DEF LinkInv
<1>12. ASSUME NEW r \in Requests, UpsertTx(r) PROVE LinkInv'
  <2>1. OthersKept(r) /\ UNCHANGED <<users, accounts, user, owner, outcome>>
    BY <1>12, <1>fun DEF UpsertTx, Advance, OthersKept
  <2>2. LinkReq(r)'
    BY <1>12, <1>fun, <1>inv, <1>link, <1>pu, <2>1 DEF UpsertTx, Advance, LinkReq
  <2>3. HoldsEmail(r)' => HoldsEmail(r)
    BY <1>12 DEF UpsertTx, HoldsEmail
  <2> QED
    BY <1>q, <1>lk, <2>1, <2>2, <2>3
<1>13. ASSUME NEW r \in Requests, Commit(r) PROVE LinkInv'
  <2>1. /\ OthersKept(r) /\ UNCHANGED <<user, owner>>
        /\ pc'[r] = "done"
        /\ accounts' = Upserted(Identity(r), r, r)
    BY <1>13, <1>fun DEF Commit, ReturnAfterWrite, Return, OthersKept
  <2>2. /\ r \notin DOMAIN users /\ user[r].id = r /\ user[r].email = Email(r)
        /\ Identity(r) \notin DOMAIN SeedLinks
    BY <1>13, <1>t, <1>inv DEF Commit, RowsInv, CopyInv, NewRowOK, LinkReq
  <2>3. /\ DOMAIN users' = DOMAIN users \cup {r}
        /\ users'[r].email = Email(r)
        /\ \A u \in DOMAIN users : users'[u] = users[u]
    BY <1>13, <2>2 DEF Commit
  <2>4. /\ UserWithEmail(Email(r)) = {}
        /\ \A q \in Requests \ {r} : HoldsEmail(q) => Email(q) # Email(r)
    BY <1>13, <1>inv DEF Commit, HoldsEmail, EmailLocksInv
  <2>5. UniqueEmails'
    BY <1>inv, <2>3, <2>4 DEF UniqueEmails, UserWithEmail
  <2>6. Identity(r) \notin DOMAIN accounts
    <3> SUFFICES ASSUME Identity(r) \in DOMAIN accounts PROVE FALSE
      OBVIOUS
    <3>1. users[accounts[Identity(r)].user].email = Email(r)
      BY <1>inv, <2>2 DEF LinksByEmail, Identity, Email
    <3>2. accounts[Identity(r)].user \in DOMAIN users
      BY <1>t DEF RowsInv
    <3> QED
      BY <2>4, <3>1, <3>2 DEF UserWithEmail
  <2>7. LinksByEmail' /\ LinkedTo(r, r)'
    BY <1>lu, <2>1, <2>3, <2>6
  <2>8. LinkReq(r)'
    BY <2>1, <2>2, <2>7 DEF LinkReq
  <2>9. \A q \in Requests : LinkReq(q)'
    BY <1>others, <2>1, <2>3, <2>8
  <2>10. EmailLocksInv'
    <3>1. ~HoldsEmail(r)' /\ \A q \in Requests \ {r} : HoldsEmail(q)' = HoldsEmail(q)
      BY <2>1 DEF HoldsEmail, OthersKept
    <3>2. \A q \in Requests \ {r} : HoldsEmail(q) => UserWithEmail(Email(q))' = {}
      BY <1>inv, <1>pu, <2>3, <2>4 DEF EmailLocksInv, UserWithEmail
    <3> QED
      BY <1>inv, <1>pu, <3>1, <3>2 DEF EmailLocksInv
  <2> QED
    BY <1>k, <1>inv, <1>pu, <1>seed, <2>5, <2>7, <2>9, <2>10 DEF LinkInv
<1>14. ASSUME NEW r \in Requests, DbError(r) PROVE LinkInv'
  <2>1. OthersKept(r) /\ UNCHANGED <<users, accounts, user, owner>> /\ pc'[r] = "done"
        /\ outcome'[r] = "dbError"
    BY <1>14, <1>fun DEF DbError, Return, OthersKept
  <2>2. LinkReq(r)'
    BY <1>inv, <1>link, <2>1 DEF LinkReq
  <2>3. HoldsEmail(r)' => HoldsEmail(r)
    BY <2>1 DEF HoldsEmail
  <2> QED
    BY <1>q, <1>lk, <2>1, <2>2, <2>3
<1> QED
  BY <1>1, <1>2, <1>3, <1>4, <1>5, <1>6, <1>7, <1>8, <1>9, <1>10, <1>11, <1>12, <1>13,
     <1>14 DEF Next, Step

(* If providers report one email per identity, a successful login returns    *)
(* the user its identity is linked to, in every interleaving of any number   *)
(* of logins.                                                                *)
THEOREM LoginsLinked == ASSUME StableEmails PROVE Spec => []ResolvedUserIsLinked
<1>1. LinkInv => ResolvedUserIsLinked
  BY DEF LinkInv, LinkReq, LinkedTo, ResolvedUserIsLinked
<1> QED
  BY <1>1, LinkInvInit, LinkInvNext, PTL DEF Spec

(* On the same condition no created user is left without a link. *)
THEOREM UsersLinked == ASSUME StableEmails PROVE Spec => []NoOrphanUsers
<1>1. LinkInv => NoOrphanUsers
  BY DEF LinkInv, RoleInv, TypeInv, TypeOK, LinkReq, LinkedTo, NoOrphanUsers
<1> QED
  BY <1>1, LinkInvInit, LinkInvNext, PTL DEF Spec

-------------------------------------------------------------------------------
(* How many administrators logins can make, whatever emails the providers    *)
(* report.  Two first logins on an empty database can both be promoted       *)
(* (OneFirstAdmin fails); nothing else multiplies administrators, because    *)
(* only one row can ever have the designated email.                          *)
EmailInv ==
    /\ RoleInv
    /\ UniqueEmails
    /\ EmailLocksInv
    /\ \A r \in Requests : pc[r] \in {"create", "upsertTx", "commit"} => user[r].email = Email(r)

PromotedByLogin(u) ==
    /\ users[u].role = "platform_admin"
    /\ ~(u \in SeedUsers /\ SeedRow[u].role = "platform_admin")

OneNewAdmin ==
    \A u, v \in DOMAIN users : PromotedByLogin(u) /\ PromotedByLogin(v) => u = v

LEMMA EmailInvNext == EmailInv /\ [Next]_vars => EmailInv'
<1> SUFFICES ASSUME EmailInv, [Next]_vars PROVE EmailInv'
  OBVIOUS
<1>k. RoleInv /\ RoleInv' /\ UsersKept
  BY RoleInvNext, TablesKept DEF EmailInv
<1>inv. /\ UniqueEmails /\ EmailLocksInv
        /\ \A r \in Requests :
              pc[r] \in {"create", "upsertTx", "commit"} => user[r].email = Email(r)
  BY DEF EmailInv
<1>fun. /\ pc \in [Requests -> Steps \cup {"idle", "done"}]
        /\ user \in [Requests -> SomeUser \cup {ZeroUser}]
  BY <1>k DEF RoleInv, TypeInv, TypeOK
<1>pu. \A r \in Requests : Email(r)' = Email(r)
  <2>1. pu' = pu
    BY DEF Next, Step, Start, FindByProvider, FindByID, UpsertTokens, UpgradeLinked,
           FindByEmail, UpgradeByEmail, UpsertLink, ResolveRole, Create, UpsertTx, Commit,
           DbError, AllReturned, vars
  <2> QED
    BY <2>1 DEF Email
<1>emails. ASSUME DOMAIN users' = DOMAIN users
           PROVE  UniqueEmails' /\ \A e : UserWithEmail(e)' = UserWithEmail(e)
  BY <1>k, <1>inv, <1>emails DEF UsersKept, UniqueEmails, UserWithEmail
(* A step that inserts no row and takes no lock. *)
<1>q. ASSUME NEW r \in Requests, DOMAIN users' = DOMAIN users,
             \A p \in Requests \ {r} : pc'[p] = pc[p] /\ user'[p] = user[p],
             HoldsEmail(r)' => HoldsEmail(r),
             pc'[r] \in {"create", "upsertTx", "commit"} => user'[r].email = Email(r)
      PROVE  EmailInv'
  <2>1. UniqueEmails' /\ \A e : UserWithEmail(e)' = UserWithEmail(e)
    BY <1>emails, <1>q
  <2>2. \A p \in Requests : HoldsEmail(p)' => HoldsEmail(p)
    BY <1>q DEF HoldsEmail
  <2>3. EmailLocksInv'
    BY <1>inv, <1>pu, <2>1, <2>2 DEF EmailLocksInv
  <2> QED
    BY <1>k, <1>inv, <1>pu, <1>q, <2>1, <2>3 DEF EmailInv
<1>1. ASSUME NEW r \in Requests,
             Start(r) \/ FindByProvider(r) \/ FindByID(r) \/ UpsertTokens(r) \/ FindByEmail(r)
                 \/ UpsertLink(r) \/ DbError(r)
      PROVE  EmailInv'
  <2>1. /\ users' = users
        /\ \A p \in Requests \ {r} : pc'[p] = pc[p] /\ user'[p] = user[p]
    BY <1>1, <1>fun
    DEF Start, FindByProvider, FindByID, UpsertTokens, FindByEmail, UpsertLink, DbError,
        AfterWrite, ReturnAfterWrite, Advance, Return
  <2>2. pc'[r] \notin {"create", "upsertTx", "commit"}
    BY <1>1, <1>fun
    DEF Start, FindByProvider, FindByID, UpsertTokens, FindByEmail, UpsertLink, DbError,
        AfterWrite, ReturnAfterWrite, Advance, Return
  <2> QED
    BY <1>q, <2>1, <2>2 DEF HoldsEmail
<1>2. ASSUME NEW r \in Requests, UpgradeLinked(r) \/ UpgradeByEmail(r) PROVE EmailInv'
  <2>1. Upgrade(r) /\ TypeOK
    BY <1>2, <1>k DEF UpgradeLinked, UpgradeByEmail, RoleInv, TypeInv
  <2>2. DOMAIN users' = DOMAIN users /\ \A p \in Requests \ {r} : user'[p] = user[p]
    BY <2>1, UpgradeRows
  <2>3. /\ \A p \in Requests \ {r} : pc'[p] = pc[p]
        /\ pc'[r] \in {"done", "upsertLink"}
    BY <1>2, <1>fun DEF UpgradeLinked, UpgradeByEmail, UpgradeFails, Advance, Return
  <2> QED
    BY <1>q, <2>2, <2>3 DEF HoldsEmail
<1>3. ASSUME NEW r \in Requests, ResolveRole(r) PROVE EmailInv'
  <2>1. /\ users' = users /\ pc'[r] = "create" /\ user'[r].email = Email(r)
        /\ \A p \in Requests \ {r} : pc'[p] = pc[p] /\ user'[p] = user[p]
    BY <1>3, <1>fun DEF ResolveRole, Advance
  <2> QED
    BY <1>q, <2>1 DEF HoldsEmail
<1>4. ASSUME NEW r \in Requests, Create(r) PROVE EmailInv'
  <2>1. /\ UNCHANGED <<users, user>>
        /\ \A p \in Requests \ {r} : pc'[p] = pc[p]
        /\ user[r].email = Email(r)
    BY <1>4, <1>fun, <1>inv DEF Create, Advance, Return
  <2>2. CASE UserWithEmail(Email(r)) # {}
    <3>1. pc'[r] = "done"
      BY <1>4, <1>fun, <2>2 DEF Create, Return
    <3> QED
      BY <1>q, <2>1, <3>1 DEF HoldsEmail
  <2>3. CASE UserWithEmail(Email(r)) = {}
    <3>1. pc'[r] = "upsertTx" /\ HoldsEmail(r)'
      BY <1>4, <1>fun, <2>3 DEF Create, Advance, HoldsEmail
    <3>2. \A p \in Requests \ {r} : HoldsEmail(p) => Email(p) # Email(r)
      BY <1>4 DEF Create, EmailLocked
    <3>3. \A p \in Requests \ {r} : HoldsEmail(p)' = HoldsEmail(p)
      BY <2>1 DEF HoldsEmail
    <3>4. UniqueEmails' /\ \A e : UserWithEmail(e)' = UserWithEmail(e)
      BY <1>emails, <2>1
    <3>5. EmailLocksInv'
      BY <1>inv, <1>pu, <2>3, <3>1, <3>2, <3>3, <3>4 DEF EmailLocksInv
    <3> QED
      BY <1>k, <1>inv, <1>pu, <2>1, <3>4, <3>5 DEF EmailInv
  <2> QED
    BY <2>2, <2>3
<1>5. ASSUME NEW r \in Requests, UpsertTx(r) PROVE EmailInv'
  <2>1. /\ UNCHANGED <<users, user>> /\ pc[r] = "upsertTx" /\ pc'[r] = "commit"
        /\ \A p \in Requests \ {r} : pc'[p] = pc[p]
    BY <1>5, <1>fun DEF UpsertTx, Advance
  <2> QED
    BY <1>q, <1>inv, <2>1 DEF HoldsEmail
<1>6. ASSUME NEW r \in Requests, Commit(r) PROVE EmailInv'
  <2>1. /\ UNCHANGED user /\ pc[r] = "commit" /\ pc'[r] = "done"
        /\ \A p \in Requests \ {r} : pc'[p] = pc[p]
    BY <1>6, <1>fun DEF Commit, ReturnAfterWrite, Return
  <2>2. user[r].email = Email(r) /\ r \notin DOMAIN users
    BY <1>k, <1>inv, <2>1 DEF RoleInv, RowsInv
  <2>3. /\ DOMAIN users' = DOMAIN users \cup {r}
        /\ users'[r].email = Email(r)
        /\ \A u \in DOMAIN users : users'[u] = users[u]
    BY <1>6, <2>2 DEF Commit
  <2>4. /\ UserWithEmail(Email(r)) = {}
        /\ \A p \in Requests \ {r} : HoldsEmail(p) => Email(p) # Email(r)
    BY <1>inv, <2>1 DEF HoldsEmail, EmailLocksInv
  <2>5. UniqueEmails'
    BY <1>inv, <2>3, <2>4 DEF UniqueEmails, UserWithEmail
  <2>6. ~HoldsEmail(r)' /\ \A p \in Requests \ {r} : HoldsEmail(p)' = HoldsEmail(p)
    BY <2>1 DEF HoldsEmail
  <2>7. \A p \in Requests \ {r} : HoldsEmail(p) => UserWithEmail(Email(p))' = {}
    BY <1>inv, <1>pu, <2>3, <2>4 DEF EmailLocksInv, UserWithEmail
  <2>8. EmailLocksInv'
    BY <1>inv, <1>pu, <2>6, <2>7 DEF EmailLocksInv
  <2> QED
    BY <1>k, <1>inv, <1>pu, <2>1, <2>5, <2>8 DEF EmailInv
<1>7. CASE AllReturned \/ UNCHANGED vars
  BY <1>7, <1>k, <1>inv, <1>pu
  DEF AllReturned, vars, EmailInv, UniqueEmails, EmailLocksInv, HoldsEmail, UserWithEmail
<1> QED
  BY <1>1, <1>2, <1>3, <1>4, <1>5, <1>6, <1>7 DEF Next, Step

(* Unless the database was empty and the fallback enabled, all logins        *)
(* together make at most one administrator, however they race and whatever   *)
(* emails the providers report (resolve_user.go:118-136, 145-185).           *)
THEOREM AtMostOneNewAdmin ==
    ASSUME SeedUsers # {} \/ ~DevFallbackEnabled PROVE Spec => []OneNewAdmin
<1>1. Init => EmailInv
  BY RoleInvInit, SeedAssumption DEF Init, EmailInv, UniqueEmails, EmailLocksInv, HoldsEmail
<1>2. EmailInv => OneNewAdmin
  BY DEF EmailInv, RoleInv, AdminsAreBootstrapped, UniqueEmails, PromotedByLogin, OneNewAdmin
<1> QED
  BY <1>1, <1>2, EmailInvNext, PTL DEF Spec

-------------------------------------------------------------------------------
(* As the program is wired: the postgres repositories answer a miss with a   *)
(* pointer to a zero struct, so the resolver takes every unknown identity    *)
(* for a linked one.                                                         *)

(* The database has the users and links it had before the first request, and *)
(* only an identity that was linked then gets in.                            *)
NobodyJoins ==
    /\ DOMAIN users = DOMAIN SeedRow
    /\ DOMAIN accounts = DOMAIN SeedLinks
    /\ \A r \in Requests : outcome[r] = "ok" => Identity(r) \in DOMAIN SeedLinks

(* No request leaves case 1. *)
CaseOneInv ==
    \A r \in Requests :
        /\ pc[r] \in {"idle", "findByProvider", "findByID", "upsertTokens", "upgradeLinked", "done"}
        /\ pc[r] \in {"upsertTokens", "upgradeLinked"} => Identity(r) \in DOMAIN SeedLinks
        /\ pc[r] = "findByID" /\ owner[r] # NilUUID => Identity(r) \in DOMAIN SeedLinks

LEMMA CaseOneNext ==
  ASSUME ~NilOnMiss
  PROVE  TypeInv /\ NobodyJoins /\ CaseOneInv /\ [Next]_vars => NobodyJoins' /\ CaseOneInv'
<1> SUFFICES ASSUME TypeInv, NobodyJoins, CaseOneInv, [Next]_vars
             PROVE  NobodyJoins' /\ CaseOneInv'
  OBVIOUS
<1>t. TypeOK
  BY DEF TypeInv
<1>p. /\ pc \in [Requests -> Steps \cup {"idle", "done"}]
      /\ outcome \in [Requests -> Outcomes]
      /\ owner \in [Requests -> UserIds \cup {NilUUID}]
  BY <1>t DEF TypeOK
<1>n. NilUUID \notin DOMAIN users
  BY <1>t, NamesAssumption DEF TypeOK
<1>i. pu' = pu => \A r \in Requests : Identity(r)' = Identity(r)
  BY DEF Identity
(* It is enough to look at the domains and at the acting request. *)
<1>k. ASSUME NEW r \in Requests,
             DOMAIN users' = DOMAIN users, DOMAIN accounts' = DOMAIN accounts,
             UNCHANGED pu,
             \A q \in Requests \ {r} :
                 pc'[q] = pc[q] /\ outcome'[q] = outcome[q] /\ owner'[q] = owner[q],
             pc'[r] \in {"findByProvider", "findByID", "upsertTokens", "upgradeLinked", "done"},
             pc'[r] \in {"upsertTokens", "upgradeLinked"} => Identity(r) \in DOMAIN SeedLinks,
             pc'[r] = "findByID" /\ owner'[r] # NilUUID => Identity(r) \in DOMAIN SeedLinks,
             outcome'[r] = "ok" => outcome[r] = "ok" \/ Identity(r) \in DOMAIN SeedLinks
      PROVE  NobodyJoins' /\ CaseOneInv'
  BY <1>k, <1>i DEF NobodyJoins, CaseOneInv
<1>1. ASSUME NEW r \in Requests, Start(r) PROVE NobodyJoins' /\ CaseOneInv'
  BY <1>1, <1>p, <1>k DEF Start, Advance, Return
<1>2. ASSUME NEW r \in Requests, FindByProvider(r) PROVE NobodyJoins' /\ CaseOneInv'
  <2>1. pc'[r] = "findByID" /\ outcome' = outcome /\ UNCHANGED <<users, accounts, pu>>
    BY <1>2, <1>p DEF FindByProvider, Advance
  <2>2. owner'[r] # NilUUID => Identity(r) \in DOMAIN accounts
    BY <1>2, <1>p DEF FindByProvider
  <2>3. \A q \in Requests \ {r} : pc'[q] = pc[q] /\ owner'[q] = owner[q]
    BY <1>2, <1>p DEF FindByProvider, Advance
  <2> QED
    BY <1>k, <2>1, <2>2, <2>3 DEF NobodyJoins
<1>3. ASSUME NEW r \in Requests, FindByID(r) PROVE NobodyJoins' /\ CaseOneInv'
  <2>1. /\ UNCHANGED <<users, accounts, pu, owner>>
        /\ \/ owner[r] \in DOMAIN users /\ pc'[r] = "upsertTokens" /\ outcome'[r] = outcome[r]
           \/ pc'[r] = "done" /\ outcome'[r] = "userNotFound"
        /\ \A q \in Requests \ {r} : pc'[q] = pc[q] /\ outcome'[q] = outcome[q]
    BY <1>3, <1>p DEF FindByID, Advance, Return
  <2>2. owner[r] \in DOMAIN users => Identity(r) \in DOMAIN SeedLinks
    BY <1>3, <1>n DEF FindByID, CaseOneInv
  <2> QED
    BY <1>k, <2>1, <2>2
<1>4. ASSUME NEW r \in Requests, UpsertTokens(r) PROVE NobodyJoins' /\ CaseOneInv'
  <2>1. Identity(r) \in DOMAIN SeedLinks
    BY <1>4 DEF UpsertTokens, CaseOneInv
  <2>2. DOMAIN accounts' = DOMAIN accounts
    BY <1>4, <2>1 DEF UpsertTokens, Upserted, NobodyJoins
  <2>3. /\ pc'[r] \in {"upgradeLinked", "done"}
        /\ \A q \in Requests \ {r} : pc'[q] = pc[q] /\ outcome'[q] = outcome[q]
        /\ UNCHANGED <<users, pu, owner>>
    BY <1>4, <1>p DEF UpsertTokens, AfterWrite, Advance, Return
  <2> QED
    BY <1>k, <2>1, <2>2, <2>3
<1>5. ASSUME NEW r \in Requests, UpgradeLinked(r) PROVE NobodyJoins' /\ CaseOneInv'
  <2>1. Identity(r) \in DOMAIN SeedLinks
    BY <1>5 DEF UpgradeLinked, CaseOneInv
  <2>2. DOMAIN users' = DOMAIN users
    BY <1>5, <1>t, UpgradeRows DEF UpgradeLinked
  <2>3. /\ pc'[r] = "done" /\ UNCHANGED <<accounts, pu, owner>>
        /\ \A q \in Requests \ {r} : pc'[q] = pc[q] /\ outcome'[q] = outcome[q]
    BY <1>5, <1>p DEF UpgradeLinked, UpgradeFails, Return
  <2> QED
    BY <1>k, <2>1, <2>2, <2>3
<1>6. ASSUME NEW r \in Requests,
             FindByEmail(r) \/ UpgradeByEmail(r) \/ UpsertLink(r) \/ ResolveRole(r)
                 \/ Create(r) \/ UpsertTx(r) \/ Commit(r)
      PROVE  FALSE
  BY <1>6
  DEF FindByEmail, UpgradeByEmail, UpsertLink, ResolveRole, Create, UpsertTx, Commit, CaseOneInv
<1>7. ASSUME NEW r \in Requests, DbError(r) PROVE NobodyJoins' /\ CaseOneInv'
  BY <1>7, <1>p, <1>k DEF DbError, Return
<1>8. CASE AllReturned \/ UNCHANGED vars
  BY <1>8, <1>i DEF AllReturned, vars, NobodyJoins, CaseOneInv
<1> QED
  BY <1>1, <1>2, <1>3, <1>4, <1>5, <1>6, <1>7, <1>8 DEF Next, Step

(* With the repositories the program is wired with, no login ever creates a  *)
(* user or a link, and nobody but the owners of earlier links logs in        *)
(* (resolve_user.go:67-91).                                                  *)
THEOREM OnlyLinkedIdentities == ASSUME ~NilOnMiss PROVE Spec => []NobodyJoins
<1>1. Init => NobodyJoins /\ CaseOneInv
  BY DEF Init, NobodyJoins, CaseOneInv
<1> QED
  BY <1>1, CaseOneNext, TypeInvInit, TypeInvNext, PTL DEF Spec

-------------------------------------------------------------------------------
(* The part of LoginsReturn that is not about fairness.                    *)

(* The statement of r waits for a lock of another transaction. *)
Waits(r) ==
    \/ pc[r] = "create" /\ EmailLocked(r)
    \/ pc[r] \in {"upsertTokens", "upsertLink", "upsertTx"} /\ IdentityLocked(r)

(* Whenever logins are at work, one of them does not wait. *)
SomebodyCanGo ==
    (\E r \in Requests : pc[r] \in Steps) => \E r \in Requests : pc[r] \in Steps /\ ~Waits(r)

(* The statements in the order in which a login may execute them. *)
Rank ==
    [idle |-> 0, findByProvider |-> 1, findByID |-> 2, upsertTokens |-> 3, upgradeLinked |-> 4,
     findByEmail |-> 5, upgradeByEmail |-> 6, upsertLink |-> 7, resolveRole |-> 8, create |-> 9,
     upsertTx |-> 10, commit |-> 11, done |-> 12]

(* A login only moves forward, so it executes each statement at most once. *)
MovesForward ==
    \A r \in Requests : pc'[r] # pc[r] => Rank[pc[r]] < Rank[pc'[r]]

LEMMA StepForward ==
  ASSUME TypeOK, NEW r \in Requests, Start(r) \/ Step(r) \/ DbError(r)
  PROVE  /\ \A q \in Requests \ {r} : pc'[q] = pc[q]
         /\ Rank[pc[r]] < Rank[pc'[r]]
<1>p. pc \in [Requests -> Steps \cup {"idle", "done"}]
  BY DEF TypeOK
<1>d. ASSUME NEW next, pc' = [pc EXCEPT ![r] = next]
      PROVE  pc'[r] = next /\ \A q \in Requests \ {r} : pc'[q] = pc[q]
  BY <1>p, <1>d
<1>r. \A s \in Steps \cup {"idle"} : Rank[s] < Rank["done"]
  BY DEF Steps, Rank
<1>1. CASE \E o \in Outcomes : Return(r, o) /\ pc[r] # "done"
  BY <1>1, <1>p, <1>d, <1>r DEF Return
<1>2. CASE \E next \in Steps : Advance(r, next) /\ Rank[pc[r]] < Rank[next]
  BY <1>2, <1>d DEF Advance
<1>3. Start(r) => \/ \E o \in Outcomes : Return(r, o) /\ pc[r] # "done"
                  \/ \E next \in Steps : Advance(r, next) /\ Rank[pc[r]] < Rank[next]
  BY DEF Start, Outcomes, Steps, Rank
<1>4. FindByProvider(r) =>
         \E next \in Steps : Advance(r, next) /\ Rank[pc[r]] < Rank[next]
  BY DEF FindByProvider, Steps, Rank
<1>5. FindByID(r) \/ UpsertTokens(r) \/ UpgradeLinked(r) =>
         \/ \E o \in Outcomes : Return(r, o) /\ pc[r] # "done"
         \/ \E next \in Steps : Advance(r, next) /\ Rank[pc[r]] < Rank[next]
  BY DEF FindByID, UpsertTokens, UpgradeLinked, UpgradeFails, AfterWrite, Outcomes, Steps, Rank
<1>6. FindByEmail(r) \/ UpgradeByEmail(r) \/ UpsertLink(r) =>
         \/ \E o \in Outcomes : Return(r, o) /\ pc[r] # "done"
         \/ \E next \in Steps : Advance(r, next) /\ Rank[pc[r]] < Rank[next]
  BY DEF FindByEmail, UpgradeByEmail, UpsertLink, UpgradeFails, ReturnAfterWrite, Outcomes, Steps,
         Rank
<1>7. ResolveRole(r) \/ Create(r) \/ UpsertTx(r) \/ Commit(r) \/ DbError(r) =>
         \/ \E o \in Outcomes : Return(r, o) /\ pc[r] # "done"
         \/ \E next \in Steps : Advance(r, next) /\ Rank[pc[r]] < Rank[next]
  BY DEF ResolveRole, Create, UpsertTx, Commit, DbError, ReturnAfterWrite, Outcomes, Steps, Rank
<1> QED
  BY <1>1, <1>2, <1>3, <1>4, <1>5, <1>6, <1>7 DEF Step

(* The locks of case 3 are taken in one order, email before identity, and a  *)
(* transaction that holds both waits for nobody: logins never wait for each  *)
(* other in a circle, and each of their steps brings them closer to their    *)
(* end (resolve_user.go:118-136).                                            *)
THEOREM LoginsNeverDeadlock == Spec => []SomebodyCanGo /\ [][MovesForward]_vars
<1>1. SomebodyCanGo
  <2> SUFFICES ASSUME NEW r \in Requests, pc[r] \in Steps
               PROVE  \E q \in Requests : pc[q] \in Steps /\ ~Waits(q)
    BY DEF SomebodyCanGo
  <2>1. ASSUME NEW q \in Requests, pc[q] = "commit" PROVE pc[q] \in Steps /\ ~Waits(q)
    BY <2>1 DEF Waits, Steps
  <2>2. ASSUME \A q \in Requests : pc[q] # "commit", NEW q \in Requests, pc[q] = "upsertTx"
        PROVE  pc[q] \in Steps /\ ~Waits(q)
    BY <2>2 DEF Waits, IdentityLocked, HoldsIdentity, Steps
  <2>3. ASSUME \A q \in Requests : pc[q] # "commit" /\ pc[q] # "upsertTx" PROVE ~Waits(r)
    BY <2>3 DEF Waits, IdentityLocked, HoldsIdentity, EmailLocked, HoldsEmail
  <2> QED
    BY <2>1, <2>2, <2>3
<1>2. TypeInv /\ [Next]_vars => MovesForward
  <2> SUFFICES ASSUME TypeInv, [Next]_vars PROVE MovesForward
    OBVIOUS
  <2>1. TypeOK
    BY DEF TypeInv
  <2>2. ASSUME NEW r \in Requests, Start(r) \/ Step(r) \/ DbError(r) PROVE MovesForward
    BY <2>1, <2>2, StepForward DEF MovesForward
  <2>3. CASE AllReturned \/ UNCHANGED vars
    BY <2>3 DEF AllReturned, vars, MovesForward
  <2> QED
    BY <2>2, <2>3 DEF Next
<1> QED
  BY <1>1, <1>2, TypeInvInit, TypeInvNext, PTL DEF Spec
===============================================================================
