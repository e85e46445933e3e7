------------------------------ MODULE OAuthLogin ------------------------------
(***************************************************************************)
(* The OAuth handlers (api/internal/handler/oauth_handler.go) over the     *)
(* state store.  A login is named by the state value it is begun with.  A  *)
(* callback is one HTTP request to the callback URL: what the provider     *)
(* sends the browser to, the same URL loaded again, or any other request.  *)
(* Each call of the handler that touches something shared is a step, and   *)
(* the early returns in between are the steps that write an answer.        *)
(*                                                                         *)
(* The user resolver and the token issuer are UserResolver and TokenIssuer;*)
(* here a call of theirs either succeeds, or returns an error before or    *)
(* after its statements have taken effect.                                 *)
(***************************************************************************)
EXTENDS StateStore, Sequences, FiniteSets

CONSTANTS
    Callbacks,  \* requests to the callback URLs
    CliLogins   \* the state values drawn for requests with a redirect_uri

ASSUME CliAssumption == CliLogins \subseteq States

VARIABLES
    query,      \* the query parameters of a callback
    step,       \* where its handler is
    answer,     \* the statuses its handler has written
    resolved,   \* history: callbacks that made the users and oauth_accounts rows
    stored      \* history: callbacks that made a refresh_tokens row

loginVars == <<query, step, answer, resolved, stored>>
allVars   == <<vars, loginVars>>

(* redirect is the redirect_uri parameter: absent, parsed by url.Parse, or   *)
(* not.  The URL registered with the providers (auth/providers.go) has none, *)
(* so only a request that does not come from a provider has one.             *)
Queries == [state : States, error : BOOLEAN, redirect : {"none", "url", "garbage"}]

Running == {"state", "error", "complete", "resolve", "issue", "respond"}
Success == {"200", "302"}
Refused == {"400", "401", "422"}
Status  == Success \cup Refused \cup {"500"}

LoginTypeOK ==
    /\ TypeOK
    /\ DOMAIN query \subseteq Callbacks
    /\ \A c \in DOMAIN query : query[c] \in Queries
    /\ step \in [Callbacks -> Running \cup {"idle", "done", "killed"}]
    /\ answer \in [Callbacks -> Seq(Status)]
    /\ resolved \subseteq Callbacks
    /\ stored \subseteq Callbacks

LoginInit ==
    /\ Init
    /\ query = [c \in {} |-> c]
    /\ step = [c \in Callbacks |-> "idle"]
    /\ answer = [c \in Callbacks |-> <<>>]
    /\ resolved = {}
    /\ stored = {}

-------------------------------------------------------------------------------
(* BeginGitHub and BeginGoogle: draw a state value and send the browser to   *)
(* the provider with it.  Whatever else the initiation request carried, a    *)
(* redirect_uri for one, goes no further.  If Generate fails, the answer is  *)
(* 500 and nothing is stored.                                                *)
BeginGitHub(s) == Generate(s) /\ UNCHANGED loginVars

BeginGoogle(s) == BeginGitHub(s)

(* A callback request arrives, with a state value that may be outstanding,   *)
(* used, expired or never issued.                                            *)
Arrive(c, q) ==
    /\ step[c] = "idle"
    /\ query' = With(query, c, q)
    /\ step' = [step EXCEPT ![c] = "state"]
    /\ UNCHANGED <<vars, answer, resolved, stored>>

Goto(c, next) ==
    /\ step' = [step EXCEPT ![c] = next]
    /\ UNCHANGED answer

(* problem.Write, http.Redirect or the JSON encoder, and return. *)
Answer(c, status) ==
    /\ step' = [step EXCEPT ![c] = "done"]
    /\ answer' = [answer EXCEPT ![c] = Append(@, status)]

(* Mutated form of CheckState: no return after problem.Write. *)
CheckStateFallsThrough(c) ==
    /\ step[c] = "state"
    /\ Validate(query[c].state)
    /\ step' = [step EXCEPT ![c] = "error"]
    /\ answer' = IF Valid(query[c].state) THEN answer
                                          ELSE [answer EXCEPT ![c] = Append(@, "400")]
    /\ UNCHANGED <<query, resolved, stored>>

(* Mutated form of CheckState: the result of Validate is dropped. *)
CheckStateIgnored(c) ==
    /\ step[c] = "state"
    /\ Validate(query[c].state)
    /\ Goto(c, "error")
    /\ UNCHANGED <<query, resolved, stored>>

(* The state parameter, which Validate consumes whatever comes of it. *)
CheckState(c) ==
    /\ step[c] = "state"
    /\ Validate(query[c].state)
    /\ IF Valid(query[c].state) THEN Goto(c, "error") ELSE Answer(c, "400")
    /\ UNCHANGED <<query, resolved, stored>>

(* The error parameter: the user has refused, or the provider has failed. *)
CheckError(c) ==
    /\ step[c] = "error"
    /\ IF query[c].error THEN Answer(c, "401") ELSE Goto(c, "complete")
    /\ UNCHANGED <<vars, query, resolved, stored>>

(* Mutated form of CompleteUserAuth: a missing email is left to the resolver.*)
CompleteWithoutEmail(c) ==
    /\ step[c] = "complete"
    /\ \/ Answer(c, "500") /\ UNCHANGED resolved
       \/ Answer(c, "422") /\ resolved' = resolved \cup {c}
       \/ Goto(c, "resolve") /\ UNCHANGED resolved
    /\ UNCHANGED <<vars, query, stored>>

(* gothic.CompleteUserAuth exchanges the code with the provider: it fails,   *)
(* or yields a user without an email address, or one with.                   *)
CompleteUserAuth(c) ==
    /\ step[c] = "complete"
    /\ Answer(c, "500") \/ Answer(c, "422") \/ Goto(c, "resolve")
    /\ UNCHANGED <<vars, query, resolved, stored>>

ResolveOrCreateUser(c) ==
    /\ step[c] = "resolve"
    /\ \/ Goto(c, "issue") /\ resolved' = resolved \cup {c}
       \/ Answer(c, "500") /\ resolved' \in {resolved, resolved \cup {c}}
    /\ UNCHANGED <<vars, query, stored>>

IssueSessionToken(c) ==
    /\ step[c] = "issue"
    /\ \/ Goto(c, "respond") /\ stored' = stored \cup {c}
       \/ Answer(c, "500") /\ stored' \in {stored, stored \cup {c}}
    /\ UNCHANGED <<vars, query, resolved>>

(* Mutated form of Respond: a redirect_uri that does not parse is an error   *)
(* nobody answers.                                                           *)
RespondParsedOnly(c) ==
    /\ step[c] = "respond"
    /\ IF query[c].redirect = "garbage" THEN Goto(c, "done")
       ELSE Answer(c, IF query[c].redirect = "url" THEN "302" ELSE "200")
    /\ UNCHANGED <<vars, query, resolved, stored>>

(* The tokens go into the redirect_uri of the callback request if there is   *)
(* one that parses, and into a JSON body otherwise.                          *)
Respond(c) ==
    /\ step[c] = "respond"
    /\ Answer(c, IF query[c].redirect = "url" THEN "302" ELSE "200")
    /\ UNCHANGED <<vars, query, resolved, stored>>

CallbackGitHub(c) ==
    \/ CheckState(c) \/ CheckError(c) \/ CompleteUserAuth(c)
    \/ ResolveOrCreateUser(c) \/ IssueSessionToken(c) \/ Respond(c)

(* The same statements in the same order. *)
CallbackGoogle(c) == CallbackGitHub(c)

(* The process dies with its state store and the handlers it was running;    *)
(* their browsers get no answer.                                             *)
Die ==
    /\ Restart
    /\ step' = [c \in Callbacks |-> IF step[c] \in Running THEN "killed" ELSE step[c]]
    /\ UNCHANGED <<query, answer, resolved, stored>>

LoginNext ==
    \/ \E s \in States : BeginGitHub(s) \/ BeginGoogle(s)
    \/ \E c \in Callbacks :
          \/ \E q \in Queries : Arrive(c, q)
          \/ CallbackGitHub(c) \/ CallbackGoogle(c)
    \/ Die
    \/ Tick /\ UNCHANGED loginVars

(* A handler that runs goes on running; nothing obliges a browser, and a     *)
(* process need not die.                                                     *)
LoginSpec ==
    /\ LoginInit /\ [][LoginNext]_allVars
    /\ \A c \in Callbacks : WF_allVars(CallbackGitHub(c))

-------------------------------------------------------------------------------
(* However often the callback URL of a login is loaded, at once, one after   *)
(* the other or across a restart, the login stores at most one refresh token.*)
OneSessionPerLogin ==
    \A s \in States : Cardinality({c \in stored : query[c].state = s}) =< 1

(* No handler answers twice, and none that is done has not answered: every   *)
(* problem.Write is followed by a return, every path ends in a write.        *)
AnsweredOnce ==
    \A c \in Callbacks : Len(answer[c]) = IF step[c] = "done" THEN 1 ELSE 0

(* Rows are written only for a login this store has accepted the state of    *)
(* and whose provider reported no error, and the user before the token.      *)
RowsAreVouchedFor ==
    /\ stored \subseteq resolved
    /\ \A c \in resolved : accepted[query[c].state] > 0 /\ ~query[c].error

(* The status tells what happened: tokens are only handed out that are       *)
(* stored, and a request that is refused (400, 401, 422) leaves no rows.     *)
StatusTellsEffect ==
    \A c \in Callbacks : \A i \in DOMAIN answer[c] :
        /\ answer[c][i] \in Success => c \in stored
        /\ answer[c][i] \in Refused => c \notin resolved

(* Every callback is answered unless the process dies, and one whose tokens  *)
(* have been issued is answered with them.                                   *)
CallbacksAnswered ==
    \A c \in Callbacks :
        /\ step[c] \in Running ~> answer[c] # <<>> \/ step[c] = "killed"
        /\ step[c] = "respond" ~>
              step[c] = "killed" \/ \E i \in DOMAIN answer[c] : answer[c][i] \in Success

(* us-03-10-cli-slice-1.md, 23: a login that the CLI began with its          *)
(* redirect_uri ends in a redirect to it.                                    *)
CliIsRedirected ==
    \A c \in DOMAIN query : query[c].state \in CliLogins => answer[c] # <<"200">>
===============================================================================
