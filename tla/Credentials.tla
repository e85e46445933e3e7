------------------------------ MODULE Credentials ------------------------------
(***************************************************************************)
(* ~/.postulate/auth.json (cli/internal/credentials/credentials.go) used by*)
(* several CLI processes of one user, with the calls they make to the API  *)
(* (cli/internal/apiclient/apiclient.go) and, for the tokens, the promise  *)
(* of the API's refresh_tokens table (TokenLedger, which TokenIssuer       *)
(* implements).                                                            *)
(*                                                                         *)
(* A process runs one command: it logs in and saves what the callback      *)
(* brought; or it loads the file, refreshes the tokens if they are about   *)
(* to expire and saves the new ones; or it loads the file, logs out and    *)
(* deletes it.  The commands themselves are not part of the repository     *)
(* yet: what they do with the results of the two packages is external.     *)
(*                                                                         *)
(* os.WriteFile opens the file with O_TRUNC and writes in a second system  *)
(* call at offset 0.  A file is [top, len]: the data written last and the  *)
(* length of the file, which is more than the data's if a writer before it *)
(* had more to say; then bytes of the older data follow the closing brace  *)
(* and json.Unmarshal fails.  An AuthFile is named by its refresh token,   *)
(* and that by the process that obtained it.                               *)
(***************************************************************************)
EXTENDS Integers

CONSTANTS
    Procs,      \* CLI processes
    NoToken,    \* no AuthFile
    Size,       \* the length of the JSON of each AuthFile
    User,       \* the user all of them work for
    NoUser,
    JwtTTL,     \* time from the issue of a JWT to its expiry
    Window,     \* NeedsRefresh's 30 minutes
    MaxClock    \* bound on the clock

ASSUME CredentialsAssumption ==
    /\ NoToken \notin Procs
    /\ Size \in [Procs -> Nat \ {0}]
    /\ JwtTTL \in Nat /\ Window \in Nat /\ MaxClock \in Nat
    /\ User # NoUser

VARIABLES
    file,       \* auth.json
    writing,    \* process -> what its open descriptor refers to
    pc,         \* process -> the call it is in
    af,         \* process -> the AuthFile it has loaded or obtained
    state,      \* the ledger: refresh token -> "unborn", "live" or "dead" ...
    holder,     \* ... and the user it was minted for
    expires,    \* AuthFile -> ExpiresAt
    clock,
    abandoned,  \* processes that no longer wait for the API, which does not know
    solo,       \* history: commands that ran without another beside them
    undisturbed,\* history: commands nobody interfered with since they got a token
    faults      \* history: what has gone wrong

Ledger == INSTANCE TokenLedger WITH Tokens <- Procs, Users <- {User}

ledger == <<state, holder>>
vars ==
    <<file, writing, pc, af, ledger, expires, clock, abandoned, solo, undisturbed, faults>>

Absent == [top |-> NoToken, len |-> -1]
Empty  == [top |-> NoToken, len |-> 0]
Sizes  == {Size[p] : p \in Procs}

AtApi == {"issue", "find", "rotate", "mint", "answered", "revoke", "revoked"}
Busy  == AtApi \cup {"load", "loadLogout", "open", "write", "delete"}

TypeOK ==
    /\ file \in {Absent, Empty} \cup [top : Procs, len : Sizes]
    /\ writing \in [Procs -> {"nothing", "path", "unlinked"}]
    /\ pc \in [Procs -> Busy \cup {"idle", "done", "crashed"}]
    /\ af \in [Procs -> Procs \cup {NoToken}]
    /\ state \in [Procs -> {"unborn", "live", "dead"}]
    /\ holder \in [Procs -> {User, NoUser}]
    /\ expires \in [Procs -> 0 .. MaxClock + JwtTTL]
    /\ clock \in 0 .. MaxClock
    /\ abandoned \subseteq Procs
    /\ solo \subseteq Procs /\ undisturbed \subseteq Procs
    /\ faults \subseteq {"crash", "api"}

Init ==
    /\ file = Absent
    /\ writing = [p \in Procs |-> "nothing"]
    /\ pc = [p \in Procs |-> "idle"]
    /\ af = [p \in Procs |-> NoToken]
    /\ Ledger!Init
    /\ expires = [p \in Procs |-> 0]
    /\ clock = 0
    /\ abandoned = {}
    /\ solo = {} /\ undisturbed = {}
    /\ faults = {}

InFlight == {p \in Procs : pc[p] \in Busy}

Goto(p, next) == pc' = [pc EXCEPT ![p] = next]

-------------------------------------------------------------------------------
(* A command begins. *)
Run(p) ==
    /\ pc[p] = "idle"
    /\ \E first \in {"issue", "load", "loadLogout"} : Goto(p, first)
    /\ solo' = IF InFlight = {} THEN solo \cup {p} ELSE solo \ InFlight
    /\ UNCHANGED <<file, writing, af, ledger, expires, clock, abandoned, undisturbed, faults>>

(* What json.Unmarshal accepts. *)
Parses(f) == f.top # NoToken /\ f.len = Size[f.top]

(* NeedsRefresh; the API always sends an expiry that parses. *)
NeedsRefresh(t) == expires[t] < clock + Window

(* Load: ErrNotFound, a parse error (the file is truncated or has bytes of   *)
(* two writers), or the AuthFile.                                            *)
Load(p) ==
    /\ pc[p] \in {"load", "loadLogout"}
    /\ IF Parses(file)
       THEN /\ af' = [af EXCEPT ![p] = file.top]
            /\ Goto(p, IF pc[p] = "loadLogout" THEN "revoke"
                       ELSE IF NeedsRefresh(file.top) THEN "find" ELSE "done")
       ELSE UNCHANGED af /\ Goto(p, "done")
    /\ UNCHANGED <<file, writing, ledger, expires, clock, abandoned, solo, undisturbed, faults>>

-------------------------------------------------------------------------------
(* Refresh: POST /v1/auth/token/refresh, as RefreshSession carries it out;   *)
(* that a refresh token expires is left to TokenIssuer.                      *)

(* RefreshTokenRepo.DeleteByUserID; whoever has a token loses it. *)
DeleteByUserID ==
    /\ Ledger!Retire(Ledger!Live(User))
    /\ undisturbed' = {}

FindToken(p) ==
    /\ pc[p] = "find"
    /\ Goto(p, IF state[af[p]] = "live" THEN "rotate" ELSE "done")
    /\ UNCHANGED <<file, writing, af, ledger, expires, clock, abandoned, solo, undisturbed, faults>>

Rotate(p) ==
    /\ pc[p] = "rotate"
    /\ DeleteByUserID
    /\ Goto(p, "mint")
    /\ UNCHANGED <<file, writing, af, expires, clock, abandoned, solo, faults>>

(* The new pair: after a refresh, or at the end of the OAuth login. *)
Issue(p) ==
    /\ pc[p] \in {"mint", "issue"}
    /\ Ledger!Mint(p, User)
    /\ expires' = [expires EXCEPT ![p] = clock + JwtTTL]
    /\ undisturbed' = undisturbed \cup {p}
    /\ Goto(p, "answered")
    /\ UNCHANGED <<file, writing, af, clock, abandoned, solo, faults>>

(* The answer reaches the CLI, as the body of Refresh's response or through  *)
(* the callback listener, unless nobody waits for it any more.               *)
Receive(p) ==
    /\ pc[p] = "answered"
    /\ IF p \in abandoned THEN UNCHANGED af /\ Goto(p, "done")
                           ELSE af' = [af EXCEPT ![p] = p] /\ Goto(p, "open")
    /\ UNCHANGED <<file, writing, ledger, expires, clock, abandoned, solo, undisturbed, faults>>

(* A statement of the API fails before it takes effect, or its answer is     *)
(* not the expected one; the client returns an error.                        *)
ApiFails(p) ==
    /\ pc[p] \in AtApi
    /\ Goto(p, "done")
    /\ faults' = faults \cup {"api"}
    /\ UNCHANGED <<file, writing, af, ledger, expires, clock, abandoned, solo, undisturbed>>

(* The CLI is killed or loses the connection while it waits: the API may     *)
(* still carry out the request, later than what the user does next.          *)
Abandon(p) ==
    /\ pc[p] \in AtApi
    /\ abandoned' = abandoned \cup {p}
    /\ faults' = faults \cup {"api"}
    /\ UNCHANGED <<file, writing, pc, af, ledger, expires, clock, solo, undisturbed>>

-------------------------------------------------------------------------------
(* Logout: DELETE /v1/auth/token.  It is refused for an expired JWT, the     *)
(* leeway of AuthRequired being less than a tick, and, as the router is, for *)
(* every one (see RevokeRouted in TokenIssuer).  Logout returns the status:  *)
(* what a command then does with the file is its own choice.                 *)
Logout(p) ==
    /\ pc[p] = "revoke"
    /\ \/ expires[af[p]] >= clock /\ DeleteByUserID /\ Goto(p, "revoked")
       \/ /\ Goto(p, "done") \/ (p \notin abandoned /\ Goto(p, "delete"))
          /\ UNCHANGED <<ledger, undisturbed>>
    /\ UNCHANGED <<file, writing, af, expires, clock, abandoned, solo, faults>>

(* Status 204. *)
LoggedOut(p) ==
    /\ pc[p] = "revoked"
    /\ Goto(p, IF p \in abandoned THEN "done" ELSE "delete")
    /\ UNCHANGED <<file, writing, af, ledger, expires, clock, abandoned, solo, undisturbed, faults>>

(* Mutated form of Delete: an error of os.Remove is taken for ErrNotExist. *)
DeleteFails(p) ==
    /\ pc[p] = "delete"
    /\ Goto(p, "done")
    /\ UNCHANGED <<file, writing, af, ledger, expires, clock, abandoned, solo, undisturbed, faults>>

(* The other Saves that are between their open and their write. *)
Writers(p) == {q \in Procs \ {p} : pc[q] = "write"}

(* Delete: os.Remove; descriptors that are open on the file keep it alive,   *)
(* without a name.                                                           *)
Delete(p) ==
    /\ pc[p] = "delete"
    /\ file' = Absent
    /\ writing' = [q \in Procs |-> IF writing[q] = "path" THEN "unlinked" ELSE writing[q]]
    /\ undisturbed' = undisturbed \ Writers(p)
    /\ Goto(p, "done")
    /\ UNCHANGED <<af, ledger, expires, clock, abandoned, solo, faults>>

-------------------------------------------------------------------------------
(* Mutated form of Truncated: os.OpenFile without O_TRUNC. *)
Untruncated == IF file = Absent THEN Empty ELSE file

(* The file os.WriteFile has opened, created if need be. *)
Truncated == Empty

(* Save, as far as the open. *)
Open(p) ==
    /\ pc[p] = "open"
    /\ file' = Truncated
    /\ writing' = [writing EXCEPT ![p] = "path"]
    /\ Goto(p, "write")
    /\ UNCHANGED <<af, ledger, expires, clock, abandoned, solo, undisturbed, faults>>

(* Mutated form of Written: nothing is written. *)
NotWritten(t) == file

(* Mutated form of Written: os.OpenFile with O_APPEND. *)
Appended(t) == [top |-> t, len |-> Size[t] + file.len]

(* The file after a write at offset 0. *)
Written(t) == [top |-> t, len |-> IF Size[t] > file.len THEN Size[t] ELSE file.len]

(* The write, the close, and the return of Save. *)
Write(p) ==
    /\ pc[p] = "write"
    /\ file' = IF writing[p] = "path" THEN Written(af[p]) ELSE file
    /\ writing' = [writing EXCEPT ![p] = "nothing"]
    /\ undisturbed' = IF writing[p] = "path" THEN undisturbed \ Writers(p) ELSE undisturbed
    /\ Goto(p, "done")
    /\ UNCHANGED <<af, ledger, expires, clock, abandoned, solo, faults>>

(* The process is killed at work on the file, or its write fails. *)
Crash(p) ==
    /\ pc[p] \in Busy \ AtApi
    /\ writing' = [writing EXCEPT ![p] = "nothing"]
    /\ Goto(p, "crashed")
    /\ faults' = faults \cup {"crash"}
    /\ UNCHANGED <<file, af, ledger, expires, clock, abandoned, solo, undisturbed>>

Tick ==
    /\ clock < MaxClock
    /\ clock' = clock + 1
    /\ UNCHANGED <<file, writing, pc, af, ledger, expires, abandoned, solo, undisturbed, faults>>

Step(p) ==
    \/ Load(p) \/ FindToken(p) \/ Rotate(p) \/ Issue(p) \/ Receive(p)
    \/ Logout(p) \/ LoggedOut(p) \/ Delete(p) \/ Open(p) \/ Write(p)

(* Every command has been run. *)
Over == (\A p \in Procs : pc[p] \in {"done", "crashed"}) /\ UNCHANGED vars

Next ==
    \/ \E p \in Procs : Run(p) \/ Step(p) \/ ApiFails(p) \/ Abandon(p) \/ Crash(p)
    \/ Tick
    \/ Over

(* Nothing is fair: a CLI may be interrupted, and its HTTP client waits for  *)
(* the API without a timeout.                                                *)
Spec == Init /\ [][Next]_vars

-------------------------------------------------------------------------------
(* Commands run one after the other, without faults, leave a file whose      *)
(* refresh token is live, or none: a refresh leaves the token it obtained    *)
(* and not the one it spent, a logout no file (credentials.go:57-87).        *)
SequentialUseIsSound ==
    InFlight = {} /\ faults = {} /\ (\A p \in Procs : pc[p] # "idle" => p \in solo) =>
        file = Absent \/ (Parses(file) /\ state[file.top] = "live")

(* A file without contents is a Save in progress, or one that crashed: it    *)
(* does not come from commands that overlap (credentials.go:71).             *)
EmptyOnlyByCrash ==
    file = Empty => "crash" \in faults \/ \E p \in Procs : writing[p] = "path"

(* However the file and the tokens were left, by crashes, overlapping        *)
(* commands or requests the API carried out late, a Save leaves a whole file *)
(* with its own, live token unless, since that token was issued, another     *)
(* request has retired it or, since the file was opened, another command has *)
(* written or deleted it.  So a command with no other beside it, above all a *)
(* new login, always repairs auth.json; and of two refreshes with one token, *)
(* or a refresh and a logout, at most the one overtaken saves a dead token.  *)
SaveRepairs ==
    [][\A p \in Procs : p \in solo \cup undisturbed /\ Write(p) =>
           Parses(file') /\ file'.top = p /\ state'[p] = "live"]_vars
===============================================================================
