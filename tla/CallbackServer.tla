---------------------------- MODULE CallbackServer ----------------------------
(***************************************************************************)
(* The CLI's local OAuth callback listener                                 *)
(* (cli/internal/callback/callback.go).  Its goroutines are the serve loop,*)
(* the watcher of the context, one handler per browser request and one     *)
(* shutdown goroutine per handler; they meet in the result channel, which  *)
(* has room for one value, and in the http.Server.                         *)
(*                                                                         *)
(* Of net/http the model keeps what the code relies on: Shutdown stops the *)
(* listener at once and returns when no handler runs any more; a           *)
(* connection accepted before it may still send its request, and Shutdown  *)
(* waits some seconds for it; Serve after Shutdown returns at once.        *)
(***************************************************************************)
EXTENDS Naturals, Sequences

CONSTANTS
    Conns,          \* browser requests to /callback
    WithToken       \* those whose query has a token parameter

VARIABLES
    serve,      \* the serve goroutine: "start", "serving", "returned"
    ready,      \* s.ready is closed
    ctxDone,    \* ctx.Done() is closed
    inShutdown, \* srv.Shutdown has been called: the listener is closed
    watcher,    \* the context goroutine: "wait", "shutdown", "send", "returned"
    handler,    \* a connection, its handler and the goroutine it leaves behind:
                \* "none", "open", "dropped", "deliver", "respond", "close",
                \* "shutdown", "returned"
    result,     \* s.result, a channel with a buffer of one
    received    \* what the receiver of C() has taken from it

vars == <<serve, ready, ctxDone, inShutdown, watcher, handler, result, received>>

Results == {"token", "missingToken", "timeout"}

TypeOK ==
    /\ serve \in {"start", "serving", "returned"}
    /\ ready \in BOOLEAN
    /\ ctxDone \in BOOLEAN
    /\ inShutdown \in BOOLEAN
    /\ watcher \in {"wait", "shutdown", "send", "returned"}
    /\ handler \in [Conns -> {"none", "open", "dropped", "deliver", "respond",
                              "close", "shutdown", "returned"}]
    /\ result \in Seq(Results) /\ Len(result) =< 1
    /\ received \in Seq(Results)

(* New has bound a port and Start has launched its two goroutines. *)
Init ==
    /\ serve = "start"
    /\ ready = FALSE
    /\ ctxDone = FALSE
    /\ inShutdown = FALSE
    /\ watcher = "wait"
    /\ handler = [c \in Conns |-> "none"]
    /\ result = <<>>
    /\ received = <<>>

-------------------------------------------------------------------------------
(* Connections that Shutdown waits for. *)
Active == {c \in Conns : handler[c] \in {"open", "deliver", "respond"}}

(* Mutated form of Offer: the channel has no capacity limit. *)
OfferUnbounded(v) == result' = Append(result, v)

(* select { case s.result <- v: default: } *)
Offer(v) == result' = IF Len(result) < 1 THEN Append(result, v) ELSE result

(* close(s.ready), then Serve, which returns at once after a Shutdown. *)
ServeStarts ==
    /\ serve = "start"
    /\ ready' = TRUE
    /\ serve' = IF inShutdown THEN "returned" ELSE "serving"
    /\ UNCHANGED <<ctxDone, inShutdown, watcher, handler, result, received>>

ServeReturns ==
    /\ serve = "serving"
    /\ inShutdown
    /\ serve' = "returned"
    /\ UNCHANGED <<ready, ctxDone, inShutdown, watcher, handler, result, received>>

(* A connection is accepted, *)
Accept(c) ==
    /\ handler[c] = "none"
    /\ serve = "serving"
    /\ ~inShutdown
    /\ handler' = [handler EXCEPT ![c] = "open"]
    /\ UNCHANGED <<serve, ready, ctxDone, inShutdown, watcher, result, received>>

(* its request reaches handleCallback, even if a Shutdown has begun, *)
Request(c) ==
    /\ handler[c] = "open"
    /\ handler' = [handler EXCEPT ![c] = "deliver"]
    /\ UNCHANGED <<serve, ready, ctxDone, inShutdown, watcher, result, received>>

(* or it stays silent and a Shutdown closes it. *)
Drop(c) ==
    /\ handler[c] = "open"
    /\ inShutdown
    /\ handler' = [handler EXCEPT ![c] = "dropped"]
    /\ UNCHANGED <<serve, ready, ctxDone, inShutdown, watcher, result, received>>

(* handleCallback: deliver the result without blocking ... *)
DeliverResult(c) ==
    /\ handler[c] = "deliver"
    /\ Offer(IF c \in WithToken THEN "token" ELSE "missingToken")
    /\ handler' = [handler EXCEPT ![c] = "respond"]
    /\ UNCHANGED <<serve, ready, ctxDone, inShutdown, watcher, received>>

(* Mutated form of Respond: no shutdown goroutine is started. *)
RespondOnly(c) ==
    /\ handler[c] = "respond"
    /\ handler' = [handler EXCEPT ![c] = "returned"]
    /\ UNCHANGED <<serve, ready, ctxDone, inShutdown, watcher, result, received>>

(* ... answer the browser, start the shutdown goroutine and return. *)
Respond(c) ==
    /\ handler[c] = "respond"
    /\ handler' = [handler EXCEPT ![c] = "close"]
    /\ UNCHANGED <<serve, ready, ctxDone, inShutdown, watcher, result, received>>

(* The shutdown goroutine calls Shutdown, which closes the listener ... *)
HandlerShutdown(c) ==
    /\ handler[c] = "close"
    /\ inShutdown' = TRUE
    /\ handler' = [handler EXCEPT ![c] = "shutdown"]
    /\ UNCHANGED <<serve, ready, ctxDone, watcher, result, received>>

(* ... and returns once every handler has. *)
HandlerShutdownReturns(c) ==
    /\ handler[c] = "shutdown"
    /\ Active = {}
    /\ handler' = [handler EXCEPT ![c] = "returned"]
    /\ UNCHANGED <<serve, ready, ctxDone, inShutdown, watcher, result, received>>

(* The timeout expires, or the caller cancels the context. *)
ContextDone ==
    /\ ~ctxDone
    /\ ctxDone' = TRUE
    /\ UNCHANGED <<serve, ready, inShutdown, watcher, handler, result, received>>

(* Mutated form of WatcherShutdown: the watcher does not wait for handlers. *)
WatcherSkipsShutdown ==
    /\ watcher = "wait"
    /\ ctxDone
    /\ inShutdown' = TRUE
    /\ watcher' = "send"
    /\ UNCHANGED <<serve, ready, ctxDone, handler, result, received>>

(* The watcher wakes up and calls Shutdown ... *)
WatcherShutdown ==
    /\ watcher = "wait"
    /\ ctxDone
    /\ inShutdown' = TRUE
    /\ watcher' = "shutdown"
    /\ UNCHANGED <<serve, ready, ctxDone, handler, result, received>>

WatcherShutdownReturns ==
    /\ watcher = "shutdown"
    /\ Active = {}
    /\ watcher' = "send"
    /\ UNCHANGED <<serve, ready, ctxDone, inShutdown, handler, result, received>>

(* Mutated form of WatcherSend: the watcher only shuts the server down. *)
WatcherSilent ==
    /\ watcher = "send"
    /\ watcher' = "returned"
    /\ UNCHANGED <<serve, ready, ctxDone, inShutdown, handler, result, received>>

(* ... and then offers the timeout error. *)
WatcherSend ==
    /\ watcher = "send"
    /\ Offer("timeout")
    /\ watcher' = "returned"
    /\ UNCHANGED <<serve, ready, ctxDone, inShutdown, handler, received>>

(* The receiver of C(). *)
Receive ==
    /\ result # <<>>
    /\ received' = Append(received, Head(result))
    /\ result' = Tail(result)
    /\ UNCHANGED <<serve, ready, ctxDone, inShutdown, watcher, handler>>

(* Everything has come to rest. *)
AllReturned ==
    /\ watcher = "returned" /\ serve = "returned" /\ result = <<>>
    /\ \A c \in Conns : handler[c] \in {"none", "dropped", "returned"}
    /\ UNCHANGED vars

ServerStep == ServeStarts \/ ServeReturns
HandlerStep(c) ==
    DeliverResult(c) \/ Respond(c) \/ HandlerShutdown(c) \/ HandlerShutdownReturns(c)
WatcherStep == WatcherShutdown \/ WatcherShutdownReturns \/ WatcherSend

Next ==
    \/ ServerStep \/ WatcherStep \/ ContextDone \/ Receive
    \/ \E c \in Conns : Accept(c) \/ Request(c) \/ Drop(c) \/ HandlerStep(c)
    \/ AllReturned

(* Goroutines run, Shutdown gives up on a silent connection, and the         *)
(* receiver waits on the channel.  No browser need come, and the context     *)
(* need never end: it is the caller's.                                       *)
Fairness ==
    /\ WF_vars(ServerStep) /\ WF_vars(WatcherStep) /\ WF_vars(Receive)
    /\ \A c \in Conns : WF_vars(HandlerStep(c)) /\ WF_vars(Drop(c))

Spec == Init /\ [][Next]_vars /\ Fairness

-------------------------------------------------------------------------------
(* A timeout is the last thing the receiver is told, and if it is also the   *)
(* first, no callback request was handled at all: one that got in before or  *)
(* during the shutdown is never lost to the timeout that races it, and none  *)
(* answers after the timeout has been reported.                              *)
TimeoutIsLast ==
    \A i \in DOMAIN received : received[i] = "timeout" =>
        /\ i = Len(received) /\ result = <<>>
        /\ i = 1 => \A c \in Conns : handler[c] \in {"none", "dropped"}

(* Once a callback request is being handled, or the context has ended, the   *)
(* receiver gets an answer: a callback's result or the timeout.              *)
ReceiverAnswered ==
    (ctxDone \/ \E c \in Conns : handler[c] = "deliver") ~> (received # <<>>)

(* A callback shuts the server down by itself: Serve returns and every       *)
(* shutdown goroutine ends although the context may never be cancelled.      *)
CallbackStopsServer ==
    \A c \in Conns : (handler[c] = "deliver") ~>
        (serve = "returned" /\ handler[c] = "returned")
===============================================================================
