-------------------------- MODULE Credentials_proofs --------------------------
(***************************************************************************)
(* Safety of auth.json for any number of CLI commands, any lengths of      *)
(* files, and any crashes, overlaps and failures of the API.  A Save that  *)
(* nobody has disturbed writes a live token into an empty file (SaveInv),  *)
(* whoever else is at work; a command that is still in solo is the only    *)
(* one at work (SoloInv), so nobody disturbs it (QuietInv); SequentialInv  *)
(* follows the file through the commands of a user who runs them one after *)
(* the other.                                                              *)
(***************************************************************************)
EXTENDS Credentials, TLAPS

(* What a process holds at each call. *)
LocalsInv ==
    \A p \in Procs :
        /\ pc[p] \in {"open", "write"} => af[p] = p
        /\ pc[p] = "write" <=> writing[p] # "nothing"

SoloInv ==
    \A p \in solo :
        /\ pc[p] # "idle"
        /\ pc[p] \in Busy => \A q \in Procs : pc[q] \in Busy => q = p

(* From the answer of the API to the end of Save. *)
Saving == {"answered", "open", "write"}

QuietInv == \A p \in solo : pc[p] \in Saving => p \in undisturbed

SaveInv ==
    \A p \in undisturbed :
        /\ pc[p] \in Saving => state[p] = "live"
        /\ pc[p] = "write" => file = Empty /\ writing[p] = "path"

(* The API is abandoned only by a fault. *)
AbandonInv == abandoned # {} => "api" \in faults

Sequential == faults = {} /\ \A p \in Procs : pc[p] # "idle" => p \in solo

Sound == file = Absent \/ (Parses(file) /\ state[file.top] = "live")

(* Calls between which tokens or file are in transition. *)
Midway == {"mint", "answered", "open", "write", "revoked", "delete"}

SequentialInv == Sequential /\ (\A p \in Procs : pc[p] \notin Midway) => Sound

TypeInv == TypeOK /\ LocalsInv
Inv == TypeInv /\ SoloInv /\ QuietInv /\ SaveInv /\ EmptyOnlyByCrash /\ AbandonInv /\ SequentialInv

-------------------------------------------------------------------------------
LEMMA InvInit == Init => Inv
<1> SUFFICES ASSUME Init PROVE Inv
  OBVIOUS
<1>1. TypeInv
  BY CredentialsAssumption
  DEF Init, TypeInv, TypeOK, LocalsInv, Ledger!Init
<1>2. SoloInv /\ QuietInv /\ SaveInv /\ AbandonInv
  BY DEF Init, SoloInv, QuietInv, SaveInv, AbandonInv
<1>3. EmptyOnlyByCrash /\ SequentialInv
  BY DEF Init, EmptyOnlyByCrash, SequentialInv, Sound, Absent, Empty
<1> QED
  BY <1>1, <1>2, <1>3 DEF Inv

(* Where a step takes the process that makes it. *)
LEMMA GotoEffect ==
  ASSUME TypeOK, NEW p \in Procs, NEW next, Goto(p, next)
  PROVE  /\ pc'[p] = next
         /\ \A q \in Procs \ {p} : pc'[q] = pc[q]
  BY DEF TypeOK, Goto

(* The write at offset 0 leaves a file that is not empty, and exactly the    *)
(* AuthFile if the file was empty before.                                    *)
LEMMA WrittenFile ==
  ASSUME TypeOK, NEW p \in Procs
  PROVE  /\ Written(p) \in [top : Procs, len : Sizes]
         /\ Written(p).top = p
         /\ Written(p) # Empty
         /\ file = Empty => Parses(Written(p))
<1>1. Size[p] \in Nat \ {0} /\ Size[p] \in Sizes /\ p # NoToken
  BY CredentialsAssumption DEF Sizes
<1>2. file.len \in {-1, 0} \cup Sizes
  BY DEF TypeOK, Absent, Empty
<1>3. Sizes \subseteq Nat \ {0}
  BY CredentialsAssumption DEF Sizes
<1>4. (IF Size[p] > file.len THEN Size[p] ELSE file.len) \in Sizes
  BY <1>1, <1>2, <1>3
<1>5. file = Empty => file.len = 0
  BY DEF Empty
<1> QED
  BY <1>1, <1>4, <1>5 DEF Written, Empty, Parses

(* The calls of the commands keep the types and what a process holds. *)
LEMMA TypeNext == TypeInv /\ [Next]_vars => TypeInv'
<1> SUFFICES ASSUME TypeInv, [Next]_vars PROVE TypeInv'
  OBVIOUS
<1>t. TypeOK /\ LocalsInv
  BY DEF TypeInv
<1> DEFINE Places == Busy \cup {"idle", "done", "crashed"}
<1>p. ASSUME NEW p \in Procs, NEW next \in Places, Goto(p, next)
      PROVE  pc' \in [Procs -> Places]
  BY <1>t, <1>p DEF TypeOK, Goto
(* A step that leaves the file alone, and the process that makes it outside  *)
(* of Save, or at its beginning with the AuthFile it has obtained.           *)
<1>k. ASSUME NEW p \in Procs, NEW next \in Places \ {"write"}, Goto(p, next),
             pc[p] # "write", next = "open" => af'[p] = p,
             \A q \in Procs \ {p} : af'[q] = af[q],
             UNCHANGED writing
      PROVE  LocalsInv'
  BY <1>t, <1>k, GotoEffect DEF LocalsInv
<1>a. ASSUME NEW p \in Procs, Run(p) PROVE TypeInv'
  <2>1. PICK first \in {"issue", "load", "loadLogout"} : Goto(p, first)
    BY <1>a DEF Run
  <2>2. first \in Places \ {"write", "open"}
    BY DEF Busy, AtApi
  <2>3. LocalsInv'
    BY <1>a, <1>k, <2>1, <2>2 DEF Run
  <2>4. pc' \in [Procs -> Places]
    BY <1>p, <2>1, <2>2
  <2>5. TypeOK'
    BY <1>t, <1>a, <2>4 DEF Run, TypeOK, ledger, InFlight
  <2> QED
    BY <2>3, <2>5 DEF TypeInv
<1>b. ASSUME NEW p \in Procs, Load(p) PROVE TypeInv'
  <2>1. PICK next \in {"revoke", "find", "done"} : Goto(p, next)
    BY <1>b DEF Load
  <2>2. next \in Places \ {"write", "open"}
    BY DEF Busy, AtApi
  <2>3. Parses(file) => file.top \in Procs
    BY <1>t DEF Parses, TypeOK, Absent, Empty
  <2>4. af' \in [Procs -> Procs \cup {NoToken}] /\ \A q \in Procs \ {p} : af'[q] = af[q]
    BY <1>t, <1>b, <2>3 DEF Load, TypeOK
  <2>5. LocalsInv'
    BY <1>b, <1>k, <2>1, <2>2, <2>4 DEF Load
  <2>6. TypeOK'
    BY <1>t, <1>b, <1>p, <2>1, <2>2, <2>4 DEF Load, TypeOK, ledger
  <2> QED
    BY <2>5, <2>6 DEF TypeInv
<1>c. ASSUME NEW p \in Procs, FindToken(p) PROVE TypeInv'
  <2>1. PICK next \in {"rotate", "done"} : Goto(p, next)
    BY <1>c DEF FindToken
  <2>2. next \in Places \ {"write", "open"}
    BY DEF Busy, AtApi
  <2>3. LocalsInv'
    BY <1>c, <1>k, <2>1, <2>2 DEF FindToken
  <2>4. TypeOK'
    BY <1>t, <1>c, <1>p, <2>1, <2>2 DEF FindToken, TypeOK, ledger
  <2> QED
    BY <2>3, <2>4 DEF TypeInv
<1>r. ASSUME DeleteByUserID
      PROVE  /\ state' \in [Procs -> {"unborn", "live", "dead"}]
             /\ holder' \in [Procs -> {User, NoUser}]
             /\ undisturbed' \subseteq Procs
  BY <1>t, <1>r DEF DeleteByUserID, Ledger!Retire, TypeOK
<1>d. ASSUME NEW p \in Procs, Rotate(p) PROVE TypeInv'
  <2>1. Goto(p, "mint") /\ "mint" \in Places \ {"write", "open"}
    BY <1>d DEF Rotate, Busy, AtApi
  <2>2. LocalsInv'
    BY <1>d, <1>k, <2>1 DEF Rotate
  <2>3. TypeOK'
    BY <1>t, <1>d, <1>p, <1>r, <2>1 DEF Rotate, TypeOK
  <2> QED
    BY <2>2, <2>3 DEF TypeInv
<1>e. ASSUME NEW p \in Procs, Issue(p) PROVE TypeInv'
  <2>1. Goto(p, "answered") /\ "answered" \in Places \ {"write", "open"}
    BY <1>e DEF Issue, Busy, AtApi
  <2>2. LocalsInv'
    BY <1>e, <1>k, <2>1 DEF Issue
  <2>3. /\ state' \in [Procs -> {"unborn", "live", "dead"}]
        /\ holder' \in [Procs -> {User, NoUser}]
    BY <1>t, <1>e DEF Issue, Ledger!Mint, TypeOK
  <2>4. clock + JwtTTL \in 0 .. MaxClock + JwtTTL
    BY <1>t, CredentialsAssumption DEF TypeOK
  <2>5. expires' \in [Procs -> 0 .. MaxClock + JwtTTL]
    BY <1>t, <1>e, <2>4 DEF Issue, TypeOK
  <2>6. TypeOK'
    BY <1>t, <1>e, <1>p, <2>1, <2>3, <2>5 DEF Issue, TypeOK
  <2> QED
    BY <2>2, <2>6 DEF TypeInv
<1>f. ASSUME NEW p \in Procs, Receive(p) PROVE TypeInv'
  <2>1. PICK next \in {"done", "open"} : Goto(p, next) /\ (next = "open" => af'[p] = p)
    BY <1>t, <1>f DEF Receive, TypeOK
  <2>2. next \in Places \ {"write"}
    BY DEF Busy, AtApi
  <2>3. af' \in [Procs -> Procs \cup {NoToken}] /\ \A q \in Procs \ {p} : af'[q] = af[q]
    BY <1>t, <1>f DEF Receive, TypeOK
  <2>4. LocalsInv'
    BY <1>f, <1>k, <2>1, <2>2, <2>3 DEF Receive
  <2>5. TypeOK'
    BY <1>t, <1>f, <1>p, <2>1, <2>2, <2>3 DEF Receive, TypeOK, ledger
  <2> QED
    BY <2>4, <2>5 DEF TypeInv
<1>g. ASSUME NEW p \in Procs, Logout(p) PROVE TypeInv'
  <2>1. PICK next \in {"revoked", "delete", "done"} : Goto(p, next)
    BY <1>g DEF Logout
  <2>2. next \in Places \ {"write", "open"}
    BY DEF Busy, AtApi
  <2>3. LocalsInv'
    BY <1>g, <1>k, <2>1, <2>2 DEF Logout
  <2>4. TypeOK'
    BY <1>t, <1>g, <1>p, <1>r, <2>1, <2>2 DEF Logout, TypeOK, ledger
  <2> QED
    BY <2>3, <2>4 DEF TypeInv
<1>h. ASSUME NEW p \in Procs, LoggedOut(p) PROVE TypeInv'
  <2>1. PICK next \in {"delete", "done"} : Goto(p, next)
    BY <1>h DEF LoggedOut
  <2>2. next \in Places \ {"write", "open"}
    BY DEF Busy, AtApi
  <2>3. LocalsInv'
    BY <1>h, <1>k, <2>1, <2>2 DEF LoggedOut
  <2>4. TypeOK'
    BY <1>t, <1>h, <1>p, <2>1, <2>2 DEF LoggedOut, TypeOK, ledger
  <2> QED
    BY <2>3, <2>4 DEF TypeInv
<1>i. ASSUME NEW p \in Procs, Delete(p) PROVE TypeInv'
  <2>1. Goto(p, "done") /\ "done" \in Places
    BY <1>i DEF Delete
  <2>2. LocalsInv'
    BY <1>t, <1>i, <2>1, GotoEffect DEF Delete, LocalsInv, TypeOK
  <2>3. TypeOK'
    BY <1>t, <1>i, <1>p, <2>1 DEF Delete, TypeOK, ledger
  <2> QED
    BY <2>2, <2>3 DEF TypeInv
<1>j. ASSUME NEW p \in Procs, Open(p) PROVE TypeInv'
  <2>1. Goto(p, "write") /\ "write" \in Places
    BY <1>j DEF Open, Busy
  <2>2. LocalsInv'
    BY <1>t, <1>j, <2>1, GotoEffect DEF Open, LocalsInv, TypeOK
  <2>3. TypeOK'
    BY <1>t, <1>j, <1>p, <2>1 DEF Open, TypeOK, ledger, Truncated
  <2> QED
    BY <2>2, <2>3 DEF TypeInv
<1>l. ASSUME NEW p \in Procs, Write(p) PROVE TypeInv'
  <2>1. Goto(p, "done") /\ "done" \in Places /\ af[p] = p
    BY <1>t, <1>l DEF Write, LocalsInv
  <2>2. LocalsInv'
    BY <1>t, <1>l, <2>1, GotoEffect DEF Write, LocalsInv, TypeOK
  <2>3. file' = file \/ file' \in [top : Procs, len : Sizes]
    BY <1>t, <1>l, <2>1, WrittenFile DEF Write
  <2>4. TypeOK'
    BY <1>t, <1>l, <1>p, <2>1, <2>3 DEF Write, TypeOK, ledger
  <2> QED
    BY <2>2, <2>4 DEF TypeInv
<1>m. ASSUME NEW p \in Procs, ApiFails(p) PROVE TypeInv'
  <2>1. Goto(p, "done") /\ "done" \in Places
    BY <1>m DEF ApiFails
  <2>2. LocalsInv'
    BY <1>m, <1>k, <2>1 DEF ApiFails, AtApi
  <2>3. TypeOK'
    BY <1>t, <1>m, <1>p, <2>1 DEF ApiFails, TypeOK, ledger
  <2> QED
    BY <2>2, <2>3 DEF TypeInv
<1>n. ASSUME NEW p \in Procs, Abandon(p) PROVE TypeInv'
  BY <1>t, <1>n DEF Abandon, TypeInv, TypeOK, LocalsInv, ledger
<1>o. ASSUME NEW p \in Procs, Crash(p) PROVE TypeInv'
  <2>1. Goto(p, "crashed") /\ "crashed" \in Places
    BY <1>o DEF Crash
  <2>2. LocalsInv'
    BY <1>t, <1>o, <2>1, GotoEffect DEF Crash, LocalsInv, TypeOK
  <2>3. TypeOK'
    BY <1>t, <1>o, <1>p, <2>1 DEF Crash, TypeOK, ledger
  <2> QED
    BY <2>2, <2>3 DEF TypeInv
<1>q. CASE Tick
  BY <1>t, <1>q, CredentialsAssumption DEF Tick, TypeInv, TypeOK, LocalsInv, ledger
<1>u. CASE Over \/ UNCHANGED vars
  BY <1>t, <1>u DEF Over, vars, TypeInv, TypeOK, LocalsInv, ledger
<1> QED
  BY <1>a, <1>b, <1>c, <1>d, <1>e, <1>f, <1>g, <1>h, <1>i, <1>j, <1>l, <1>m, <1>n, <1>o,
     <1>q, <1>u DEF Next, Step

-------------------------------------------------------------------------------
(* No step but Run changes who is alone or who has begun. *)
LEMMA StepMoves ==
  ASSUME TypeInv, NEW p \in Procs,
         Step(p) \/ ApiFails(p) \/ Abandon(p) \/ Crash(p)
  PROVE  /\ pc[p] \in Busy
         /\ pc'[p] # "idle"
         /\ \A q \in Procs \ {p} : pc'[q] = pc[q]
         /\ solo' = solo
<1>t. TypeOK
  BY DEF TypeInv
<1>1. pc[p] \in Busy /\ solo' = solo
  BY DEF Step, Load, FindToken, Rotate, Issue, Receive, Logout, LoggedOut, Delete, Open,
         Write, ApiFails, Abandon, Crash, Busy, AtApi
<1>2. \/ pc' = pc
      \/ \E next \in (Busy \cup {"done", "crashed"}) : Goto(p, next)
  BY DEF Step, Load, FindToken, Rotate, Issue, Receive, Logout, LoggedOut, Delete, Open,
         Write, ApiFails, Abandon, Crash, Busy, AtApi
<1>3. pc[p] # "idle"
  BY <1>1 DEF Busy, AtApi
<1>4. "idle" \notin Busy \cup {"done", "crashed"}
  BY DEF Busy, AtApi
<1> QED
  BY <1>t, <1>1, <1>2, <1>3, <1>4, GotoEffect

(* A command is alone until another one begins beside it. *)
LEMMA SoloNext == TypeInv /\ SoloInv /\ [Next]_vars => SoloInv'
<1> SUFFICES ASSUME TypeInv, SoloInv, [Next]_vars PROVE SoloInv'
  OBVIOUS
<1>t. TypeOK
  BY DEF TypeInv
<1>a. ASSUME NEW p \in Procs, Run(p) PROVE SoloInv'
  <2>1. PICK first \in {"issue", "load", "loadLogout"} : Goto(p, first)
    BY <1>a DEF Run
  <2>2. /\ pc'[p] = first /\ first \in Busy /\ first # "idle"
        /\ \A q \in Procs \ {p} : pc'[q] = pc[q]
    BY <1>t, <2>1, GotoEffect DEF Busy, AtApi
  <2>3. CASE InFlight = {}
    BY <1>t, <1>a, <2>2, <2>3 DEF Run, SoloInv, InFlight, TypeOK
  <2>4. CASE InFlight # {}
    <3>1. solo' = solo \ InFlight /\ p \notin solo
      BY <1>a, <2>4 DEF Run, SoloInv
    <3> QED
      BY <1>t, <2>2, <3>1 DEF SoloInv, InFlight, TypeOK
  <2> QED
    BY <2>3, <2>4
<1>b. ASSUME NEW p \in Procs, Step(p) \/ ApiFails(p) \/ Abandon(p) \/ Crash(p)
      PROVE  SoloInv'
  <2>1. /\ pc[p] \in Busy /\ pc'[p] # "idle" /\ solo' = solo
        /\ \A q \in Procs \ {p} : pc'[q] = pc[q]
    BY <1>b, StepMoves
  <2>2. solo \subseteq Procs
    BY <1>t DEF TypeOK
  <2> QED
    BY <2>1, <2>2 DEF SoloInv
<1>c. CASE Tick \/ Over \/ UNCHANGED vars
  BY <1>c DEF Tick, Over, vars, SoloInv
<1> QED
  BY <1>a, <1>b, <1>c DEF Next

(* What a command that is alone has obtained stays its own. *)
LEMMA QuietNext == TypeInv /\ SoloInv /\ QuietInv /\ [Next]_vars => QuietInv'
<1> SUFFICES ASSUME TypeInv, SoloInv, QuietInv, [Next]_vars PROVE QuietInv'
  OBVIOUS
<1>t. TypeOK /\ solo \subseteq Procs
  BY DEF TypeInv, TypeOK
<1>z. Saving \subseteq Busy
  BY DEF Saving, Busy, AtApi
<1>a. ASSUME NEW p \in Procs, Run(p) PROVE QuietInv'
  <2>1. PICK first \in {"issue", "load", "loadLogout"} : Goto(p, first)
    BY <1>a DEF Run
  <2>2. pc'[p] \notin Saving /\ \A q \in Procs \ {p} : pc'[q] = pc[q]
    BY <1>t, <2>1, GotoEffect DEF Saving
  <2>3. undisturbed' = undisturbed /\ solo' \subseteq solo \cup {p}
    BY <1>a DEF Run
  <2> QED
    BY <1>t, <2>2, <2>3 DEF QuietInv
(* While one that is alone saves, only its own steps are taken. *)
<1>b. ASSUME NEW p \in Procs, Step(p) \/ ApiFails(p) \/ Abandon(p) \/ Crash(p),
             p \in solo /\ pc'[p] \in Saving => p \in undisturbed'
      PROVE  QuietInv'
  <2>1. /\ pc[p] \in Busy /\ solo' = solo
        /\ \A q \in Procs \ {p} : pc'[q] = pc[q]
    BY <1>b, StepMoves
  <2>2. \A q \in solo : pc'[q] \in Saving => q = p
    BY <1>t, <1>z, <2>1 DEF SoloInv
  <2> QED
    BY <1>b, <2>1, <2>2 DEF QuietInv
<1>c. ASSUME NEW p \in Procs,
             Load(p) \/ FindToken(p) \/ Rotate(p) \/ Logout(p) \/ LoggedOut(p) \/ Delete(p)
                 \/ Write(p) \/ ApiFails(p) \/ Crash(p)
      PROVE  QuietInv'
  <2>1. PICK next \in {"revoke", "find", "rotate", "mint", "revoked", "delete", "done", "crashed"} :
            Goto(p, next)
    BY <1>c DEF Load, FindToken, Rotate, Logout, LoggedOut, Delete, Write, ApiFails, Crash
  <2>2. pc'[p] \notin Saving
    BY <1>t, <2>1, GotoEffect DEF Saving
  <2> QED
    BY <1>b, <1>c, <2>2 DEF Step
<1>d. ASSUME NEW p \in Procs, Issue(p) PROVE QuietInv'
  BY <1>b, <1>d DEF Step, Issue
<1>e. ASSUME NEW p \in Procs, Receive(p) \/ Open(p) \/ Abandon(p) PROVE QuietInv'
  <2>1. undisturbed' = undisturbed /\ (pc[p] \in Saving \/ pc'[p] = pc[p])
    BY <1>e DEF Receive, Open, Abandon, Saving
  <2> QED
    BY <1>b, <1>e, <2>1 DEF Step, QuietInv
<1>f. CASE Tick \/ Over \/ UNCHANGED vars
  BY <1>f DEF Tick, Over, vars, QuietInv
<1> QED
  BY <1>a, <1>c, <1>d, <1>e, <1>f DEF Next, Step

(* A Save that nobody has disturbed writes a live token into an empty file,  *)
(* although other commands may be at work.                                   *)
LEMMA SaveNext == TypeInv /\ SaveInv /\ [Next]_vars => SaveInv'
<1> SUFFICES ASSUME TypeInv, SaveInv, [Next]_vars PROVE SaveInv'
  OBVIOUS
<1>t. TypeOK /\ LocalsInv
  BY DEF TypeInv
<1>s. undisturbed \subseteq Procs
  BY <1>t DEF TypeOK
(* The step of a process that is not saving, or does not come to save. *)
<1>b. ASSUME NEW p \in Procs, \A q \in Procs \ {p} : pc'[q] = pc[q],
             undisturbed' \subseteq undisturbed \cup {p},
             p \in undisturbed' /\ pc'[p] \in Saving => state'[p] = "live",
             p \in undisturbed' /\ pc'[p] = "write" => file' = Empty /\ writing'[p] = "path",
             \A q \in undisturbed' \ {p} :
                 /\ state[q] = "live" => state'[q] = "live"
                 /\ pc[q] = "write" /\ file = Empty => file' = Empty
                 /\ pc[q] = "write" /\ writing[q] = "path" => writing'[q] = "path"
      PROVE  SaveInv'
  <2>1. \A q \in undisturbed' \ {p} : q \in Procs /\ q \in undisturbed /\ pc'[q] = pc[q]
    BY <1>s, <1>b
  <2> QED
    BY <1>b, <2>1 DEF SaveInv
<1>c. ASSUME NEW p \in Procs,
             Run(p) \/ Load(p) \/ FindToken(p) \/ LoggedOut(p) \/ ApiFails(p)
      PROVE  SaveInv'
  <2>1. PICK next \in {"issue", "load", "loadLogout", "revoke", "find", "rotate", "delete", "done"} :
            Goto(p, next)
    BY <1>c DEF Run, Load, FindToken, LoggedOut, ApiFails
  <2>2. pc'[p] \notin Saving /\ pc'[p] # "write" /\ \A q \in Procs \ {p} : pc'[q] = pc[q]
    BY <1>t, <2>1, GotoEffect DEF Saving
  <2>3. UNCHANGED <<file, writing, state, undisturbed>>
    BY <1>c DEF Run, Load, FindToken, LoggedOut, ApiFails, ledger
  <2> QED
    BY <1>b, <2>2, <2>3
<1>d. ASSUME NEW p \in Procs, Rotate(p) \/ Logout(p) PROVE SaveInv'
  <2>1. CASE DeleteByUserID
    BY <2>1 DEF DeleteByUserID, SaveInv
  <2>2. CASE Logout(p) /\ UNCHANGED <<ledger, undisturbed>>
    <3>1. PICK next \in {"revoked", "delete", "done"} : Goto(p, next)
      BY <2>2 DEF Logout
    <3>2. pc'[p] \notin Saving /\ pc'[p] # "write" /\ \A q \in Procs \ {p} : pc'[q] = pc[q]
      BY <1>t, <3>1, GotoEffect DEF Saving
    <3>3. UNCHANGED <<file, writing, state, undisturbed>>
      BY <2>2 DEF Logout, ledger
    <3> QED
      BY <1>b, <3>2, <3>3
  <2> QED
    BY <1>d, <2>1, <2>2 DEF Rotate, Logout
<1>e. ASSUME NEW p \in Procs, Issue(p) PROVE SaveInv'
  <2>1. /\ pc'[p] = "answered" /\ state'[p] = "live"
        /\ \A q \in Procs \ {p} : pc'[q] = pc[q] /\ state'[q] = state[q]
    BY <1>t, <1>e, GotoEffect DEF Issue, Ledger!Mint, TypeOK
  <2>2. UNCHANGED <<file, writing>> /\ undisturbed' = undisturbed \cup {p}
    BY <1>e DEF Issue
  <2> QED
    BY <1>b, <1>s, <2>1, <2>2
<1>f. ASSUME NEW p \in Procs, Receive(p) PROVE SaveInv'
  <2>1. /\ pc[p] = "answered" /\ pc'[p] \in {"open", "done"}
        /\ \A q \in Procs \ {p} : pc'[q] = pc[q]
    BY <1>t, <1>f, GotoEffect DEF Receive
  <2>2. UNCHANGED <<file, writing, state, undisturbed>>
    BY <1>f DEF Receive, ledger
  <2>3. p \in undisturbed => state[p] = "live"
    BY <2>1 DEF SaveInv, Saving
  <2> QED
    BY <1>b, <2>1, <2>2, <2>3
<1>g. ASSUME NEW p \in Procs, Open(p) PROVE SaveInv'
  <2>1. /\ pc[p] = "open" /\ \A q \in Procs \ {p} : pc'[q] = pc[q] /\ writing'[q] = writing[q]
        /\ file' = Empty /\ writing'[p] = "path" /\ UNCHANGED <<state, undisturbed>>
    BY <1>t, <1>g, GotoEffect DEF Open, ledger, Truncated, TypeOK
  <2>2. p \in undisturbed => state[p] = "live"
    BY <2>1 DEF SaveInv, Saving
  <2> QED
    BY <1>b, <1>s, <2>1, <2>2
<1>h. ASSUME NEW p \in Procs, Delete(p) \/ (Write(p) /\ writing[p] = "path") PROVE SaveInv'
  <2>1. /\ pc'[p] = "done" /\ \A q \in Procs \ {p} : pc'[q] = pc[q]
        /\ state' = state /\ undisturbed' = undisturbed \ Writers(p)
    BY <1>t, <1>h, GotoEffect DEF Delete, Write, ledger
  <2>2. \A q \in undisturbed' \ {p} : pc[q] # "write"
    BY <1>s, <2>1 DEF Writers
  <2> QED
    BY <1>b, <2>1, <2>2 DEF Saving
<1>i. ASSUME NEW p \in Procs, (Write(p) /\ writing[p] # "path") \/ Crash(p) PROVE SaveInv'
  <2>1. /\ pc'[p] \in {"done", "crashed"}
        /\ \A q \in Procs \ {p} : pc'[q] = pc[q] /\ writing'[q] = writing[q]
        /\ UNCHANGED <<file, state, undisturbed>>
    BY <1>t, <1>i, GotoEffect DEF Write, Crash, ledger, TypeOK
  <2> QED
    BY <1>b, <1>s, <2>1 DEF Saving
<1>j. CASE Tick \/ Over \/ (\E p \in Procs : Abandon(p)) \/ UNCHANGED vars
  BY <1>j DEF Tick, Over, Abandon, vars, ledger, SaveInv
<1> QED
  BY <1>c, <1>d, <1>e, <1>f, <1>g, <1>h, <1>i, <1>j DEF Next, Step

(* What a Save that nobody has disturbed leaves. *)
LEMMA QuietWrite ==
  ASSUME TypeInv, QuietInv, SaveInv, NEW p \in Procs, p \in solo \cup undisturbed, Write(p)
  PROVE  Parses(file') /\ file'.top = p /\ state'[p] = "live"
<1>1. pc[p] = "write" /\ af[p] = p /\ TypeOK /\ p \in undisturbed
  BY DEF Write, TypeInv, LocalsInv, QuietInv, Saving
<1>2. file = Empty /\ writing[p] = "path" /\ state[p] = "live"
  BY <1>1 DEF SaveInv, Saving
<1>3. file' = Written(p) /\ state' = state
  BY <1>1, <1>2 DEF Write, ledger
<1>4. Parses(Written(p)) /\ Written(p).top = p
  BY <1>1, <1>2, WrittenFile
<1> QED
  BY <1>2, <1>3, <1>4

(* The file is never left empty but by a crash: a writer that is overtaken   *)
(* by a Delete leaves no file, one that is overtaken by another Save leaves  *)
(* that one's descriptor open.                                               *)
LEMMA EmptyNext == TypeInv /\ EmptyOnlyByCrash /\ [Next]_vars => EmptyOnlyByCrash'
<1> SUFFICES ASSUME TypeInv, EmptyOnlyByCrash, [Next]_vars, file' = Empty
             PROVE  "crash" \in faults' \/ \E q \in Procs : writing'[q] = "path"
  BY DEF EmptyOnlyByCrash
<1>t. TypeOK /\ LocalsInv
  BY DEF TypeInv
<1>a. ASSUME NEW p \in Procs, Delete(p) PROVE FALSE
  BY <1>a DEF Delete, Absent, Empty
<1>b. ASSUME NEW p \in Procs, Open(p) PROVE writing'[p] = "path"
  BY <1>t, <1>b DEF Open, TypeOK
<1>c. ASSUME NEW p \in Procs, Write(p)
      PROVE  "crash" \in faults' \/ \E q \in Procs : writing'[q] = "path"
  <2>1. af[p] = p
    BY <1>t, <1>c DEF Write, LocalsInv
  <2>2. writing[p] # "path" /\ file = Empty
    BY <1>t, <1>c, <2>1, WrittenFile DEF Write
  <2>3. \A q \in Procs : writing[q] = "path" => writing'[q] = "path"
    BY <1>t, <1>c, <2>2 DEF Write, TypeOK
  <2> QED
    BY <1>c, <2>2, <2>3 DEF Write, EmptyOnlyByCrash
<1>d. ASSUME NEW p \in Procs, Crash(p) PROVE "crash" \in faults'
  BY <1>d DEF Crash
<1>e. ASSUME UNCHANGED <<file, writing>>, faults \subseteq faults'
      PROVE  "crash" \in faults' \/ \E q \in Procs : writing'[q] = "path"
  BY <1>e DEF EmptyOnlyByCrash
<1>f. ASSUME NEW p \in Procs,
             Run(p) \/ Load(p) \/ FindToken(p) \/ Rotate(p) \/ Issue(p) \/ Receive(p) \/ Logout(p)
                 \/ LoggedOut(p) \/ ApiFails(p) \/ Abandon(p)
      PROVE  UNCHANGED <<file, writing>> /\ faults \subseteq faults'
  BY <1>f DEF Run, Load, FindToken, Rotate, Issue, Receive, Logout, LoggedOut, ApiFails, Abandon
<1>g. CASE Tick \/ Over \/ UNCHANGED vars
  BY <1>e, <1>g DEF Tick, Over, vars
<1> QED
  BY <1>a, <1>b, <1>c, <1>d, <1>e, <1>f, <1>g DEF Next, Step

LEMMA AbandonNext == AbandonInv /\ [Next]_vars => AbandonInv'
<1> SUFFICES ASSUME AbandonInv, [Next]_vars PROVE AbandonInv'
  OBVIOUS
<1>1. \/ abandoned' = abandoned /\ faults \subseteq faults'
      \/ "api" \in faults'
  BY DEF Next, Step, Run, Load, FindToken, Rotate, Issue, Receive, Logout, LoggedOut, Delete,
         Open, Write, ApiFails, Abandon, Crash, Tick, Over, vars
<1> QED
  BY <1>1 DEF AbandonInv

-------------------------------------------------------------------------------
(* A user who runs one command after the other has done so until now. *)
LEMMA SequentialPast == TypeInv /\ [Next]_vars /\ Sequential' => Sequential
<1> SUFFICES ASSUME TypeInv, [Next]_vars, Sequential' PROVE Sequential
  OBVIOUS
<1>t. TypeOK
  BY DEF TypeInv
<1>1. faults \subseteq faults'
  BY DEF Next, Step, Run, Load, FindToken, Rotate, Issue, Receive, Logout, LoggedOut, Delete,
         Open, Write, ApiFails, Abandon, Crash, Tick, Over, vars
<1>2. ASSUME NEW p \in Procs, Run(p) PROVE Sequential
  <2>1. pc[p] = "idle" /\ (\A q \in Procs \ {p} : pc'[q] = pc[q]) /\ solo' \subseteq solo \cup {p}
    BY <1>t, <1>2, GotoEffect DEF Run
  <2> QED
    BY <1>1, <2>1 DEF Sequential
<1>3. ASSUME NEW p \in Procs, Step(p) \/ ApiFails(p) \/ Abandon(p) \/ Crash(p)
      PROVE  Sequential
  BY <1>1, <1>3, StepMoves DEF Sequential
<1>4. CASE Tick \/ Over \/ UNCHANGED vars
  BY <1>4 DEF Tick, Over, vars, Sequential
<1> QED
  BY <1>2, <1>3, <1>4 DEF Next

(* The file is sound at every call at which it is not being replaced. *)
LEMMA SequentialNext ==
  TypeInv /\ QuietInv /\ SaveInv /\ AbandonInv /\ SequentialInv /\ [Next]_vars
      => SequentialInv'
<1> SUFFICES ASSUME TypeInv, QuietInv, SaveInv, AbandonInv, SequentialInv, [Next]_vars,
                    Sequential', \A q \in Procs : pc'[q] \notin Midway
             PROVE  Sound'
  BY DEF SequentialInv
<1>t. TypeOK
  BY DEF TypeInv
<1>s. Sequential /\ faults = {} /\ faults' = {} /\ abandoned = {}
  BY SequentialPast DEF Sequential, AbandonInv
(* Nothing is replaced by this step. *)
<1>k. ASSUME NEW p \in Procs, pc[p] \notin Midway,
             \A q \in Procs \ {p} : pc'[q] = pc[q], UNCHANGED <<file, state>>
      PROVE  Sound'
  <2>1. \A q \in Procs : pc[q] \notin Midway
    BY <1>k
  <2> QED
    BY <1>s, <1>k, <2>1 DEF SequentialInv, Sound, Parses
<1>a. ASSUME NEW p \in Procs, Run(p) PROVE Sound'
  <2>1. pc[p] \notin Midway /\ \A q \in Procs \ {p} : pc'[q] = pc[q]
    BY <1>t, <1>a, GotoEffect DEF Run, Midway
  <2> QED
    BY <1>a, <1>k, <2>1 DEF Run, ledger
<1>b. ASSUME NEW p \in Procs, Load(p) \/ FindToken(p) PROVE Sound'
  <2>1. pc[p] \notin Midway /\ \A q \in Procs \ {p} : pc'[q] = pc[q]
    BY <1>t, <1>b, StepMoves DEF Step, Load, FindToken, Midway
  <2> QED
    BY <1>b, <1>k, <2>1 DEF Load, FindToken, ledger
<1>c. ASSUME NEW p \in Procs, Rotate(p) \/ Issue(p) \/ Open(p) PROVE FALSE
  <2>1. PICK next \in {"mint", "answered", "write"} : Goto(p, next)
    BY <1>c DEF Rotate, Issue, Open
  <2> QED
    BY <1>t, <2>1, GotoEffect DEF Midway
(* Nobody has given up waiting, so the answers arrive. *)
<1>d. ASSUME NEW p \in Procs, Receive(p) \/ LoggedOut(p) PROVE FALSE
  <2>1. PICK next \in {"open", "delete"} : Goto(p, next)
    BY <1>s, <1>d DEF Receive, LoggedOut
  <2> QED
    BY <1>t, <2>1, GotoEffect DEF Midway
<1>e. ASSUME NEW p \in Procs, Logout(p) PROVE Sound'
  <2>1. CASE Goto(p, "revoked") \/ Goto(p, "delete")
    BY <1>t, <2>1, GotoEffect DEF Midway
  <2>2. CASE Goto(p, "done") /\ UNCHANGED ledger
    <3>1. pc[p] \notin Midway /\ \A q \in Procs \ {p} : pc'[q] = pc[q]
      BY <1>t, <1>e, <2>2, GotoEffect DEF Logout, Midway
    <3> QED
      BY <1>e, <1>k, <2>2, <3>1 DEF Logout, ledger
  <2> QED
    BY <1>e, <2>1, <2>2 DEF Logout
<1>f. ASSUME NEW p \in Procs, Delete(p) PROVE Sound'
  BY <1>f DEF Delete, Sound, Absent
<1>g. ASSUME NEW p \in Procs, Write(p) PROVE Sound'
  <2>1. p \in solo
    BY <1>s, <1>g DEF Write, Sequential
  <2>2. Parses(file') /\ file'.top = p /\ state'[p] = "live"
    BY <1>g, <2>1, QuietWrite
  <2> QED
    BY <2>2 DEF Sound, Parses
<1>h. ASSUME NEW p \in Procs, ApiFails(p) \/ Abandon(p) \/ Crash(p) PROVE FALSE
  BY <1>s, <1>h DEF ApiFails, Abandon, Crash
<1>i. CASE Tick \/ Over \/ UNCHANGED vars
  <2>1. UNCHANGED <<pc, file, state>>
    BY <1>i DEF Tick, Over, vars, ledger
  <2> QED
    BY <1>s, <2>1 DEF SequentialInv, Sound, Parses
<1> QED
  BY <1>a, <1>b, <1>c, <1>d, <1>e, <1>f, <1>g, <1>h, <1>i DEF Next, Step

LEMMA InvNext == Inv /\ [Next]_vars => Inv'
  BY TypeNext, SoloNext, QuietNext, SaveNext, EmptyNext, AbandonNext, SequentialNext DEF Inv

-------------------------------------------------------------------------------
(* The variables of the commands and of the file keep their types. *)
THEOREM TypeCorrect == Spec => []TypeOK
<1>1. Inv => TypeOK
  BY DEF Inv, TypeInv
<1> QED
  BY <1>1, InvInit, InvNext, PTL DEF Spec

(* Commands run one after the other, without faults, leave a file whose      *)
(* token is live, or none (credentials.go:57-87).                            *)
THEOREM OneAfterTheOther == Spec => []SequentialUseIsSound
<1>1. Inv => SequentialUseIsSound
  <2>1. Midway \subseteq Busy
    BY DEF Midway, Busy, AtApi
  <2> QED
    BY <2>1 DEF Inv, SequentialInv, SequentialUseIsSound, Sequential, Sound, InFlight
<1> QED
  BY <1>1, InvInit, InvNext, PTL DEF Spec

(* An empty auth.json is a Save in progress or one that crashed, however     *)
(* many commands overlap (credentials.go:71).                                *)
THEOREM EmptyFileMeansCrash == Spec => []EmptyOnlyByCrash
<1>1. Inv => EmptyOnlyByCrash
  BY DEF Inv
<1> QED
  BY <1>1, InvInit, InvNext, PTL DEF Spec

(* A Save that nobody disturbs repairs auth.json, whatever has happened to   *)
(* the file and the tokens before and whoever else is at work; with no other *)
(* command beside it nobody does (credentials.go:57-73).                     *)
THEOREM LoginRepairs == Spec => SaveRepairs
<1>1. Inv /\ [Next]_vars =>
          [\A p \in Procs : p \in solo \cup undisturbed /\ Write(p) =>
               Parses(file') /\ file'.top = p /\ state'[p] = "live"]_vars
  BY QuietWrite DEF Inv
<1> QED
  BY <1>1, InvInit, InvNext, PTL DEF Spec, SaveRepairs

(* The calls of the CLI drive the ledger that the API's refresh_tokens table *)
(* implements: a file never holds a token that was revived or minted twice.  *)
THEOREM CallsFollowLedger == Spec => Ledger!Spec
<1>1. Init => Ledger!Init
  BY DEF Init
<1>2. [Next]_vars => [Ledger!Next]_Ledger!vars
  <2> SUFFICES ASSUME [Next]_vars PROVE [Ledger!Next]_Ledger!vars
    OBVIOUS
  <2>1. ASSUME NEW p \in Procs, Rotate(p) \/ Logout(p) \/ Issue(p)
        PROVE  Ledger!Next \/ UNCHANGED ledger
    BY <2>1 DEF Rotate, Logout, Issue, DeleteByUserID, Ledger!Next
  <2>2. (\E p \in Procs : Rotate(p) \/ Logout(p) \/ Issue(p)) \/ UNCHANGED ledger
    BY DEF Next, Step, Run, Load, FindToken, Receive, LoggedOut, Delete, Open, Write, ApiFails,
           Abandon, Crash, Tick, Over, vars
  <2> QED
    BY <2>1, <2>2 DEF ledger, Ledger!vars
<1> QED
  BY <1>1, <1>2, PTL DEF Spec, Ledger!Spec
===============================================================================
