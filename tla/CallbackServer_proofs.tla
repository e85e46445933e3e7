------------------------- MODULE CallbackServer_proofs -------------------------
(***************************************************************************)
(* Safety of the CLI's callback listener for any number of browser         *)
(* requests.  The race between a callback and the timeout is decided by    *)
(* the order of the watcher's calls: it offers the timeout only after      *)
(* Shutdown has returned, when no handler runs and none can start any more *)
(* (WatcherInv), and every handler that has run has delivered (Delivered). *)
(***************************************************************************)
EXTENDS CallbackServer, TLAPS

(* Handlers past their delivery. *)
PastDelivery == {"respond", "close", "shutdown", "returned"}

(* No callback request has been handled, and the watcher is done. *)
Quiet ==
    /\ watcher = "returned"
    /\ \A c \in Conns : handler[c] \in {"none", "dropped"}

WatcherInv ==
    /\ watcher \in {"shutdown", "send", "returned"} => inShutdown
    /\ watcher \in {"send", "returned"} =>
          \A c \in Conns : handler[c] \notin {"open", "deliver", "respond"}

Delivered ==
    (\E c \in Conns : handler[c] \in PastDelivery) => result # <<>> \/ received # <<>>

(* The first value the receiver has got, or will get from the channel. *)
TimeoutFirst ==
    /\ received # <<>> /\ Head(received) = "timeout" => Quiet
    /\ received = <<>> /\ result # <<>> /\ Head(result) = "timeout" => Quiet

(* A timeout is offered when nobody can deliver any more. *)
TimeoutLast ==
    /\ result # <<>> /\ Head(result) = "timeout" => watcher = "returned"
    /\ \A i \in DOMAIN received : received[i] = "timeout" =>
           watcher = "returned" /\ i = Len(received) /\ result = <<>>

Inv == TypeOK /\ WatcherInv /\ Delivered /\ TimeoutFirst /\ TimeoutLast

(* What the channel holds. *)
LEMMA ChannelContents ==
    ASSUME TypeOK
    PROVE  result = <<>> \/ \E v \in Results : result = <<v>>
<1>1. result \in Seq(Results) /\ Len(result) =< 1
  BY DEF TypeOK
<1>2. CASE Len(result) = 0
  BY <1>1, <1>2
<1>3. CASE Len(result) = 1
  <2>1. result[1] \in Results /\ result = <<result[1]>>
    BY <1>1, <1>3
  <2> QED
    BY <2>1
<1>4. Len(result) \in Nat
  BY <1>1
<1>5. Len(result) = 0 \/ Len(result) = 1
  <2>1. ASSUME NEW n \in Nat, n =< 1
        PROVE  n = 0 \/ n = 1
    BY <2>1
  <2>2. Len(result) =< 1
    BY <1>1
  <2> QED
    BY <1>4, <2>1, <2>2
<1> QED
  BY <1>2, <1>3, <1>5

LEMMA InvInit == Init => Inv
<1> SUFFICES ASSUME Init PROVE Inv
  OBVIOUS
<1>1. ready \in BOOLEAN /\ ctxDone \in BOOLEAN /\ inShutdown \in BOOLEAN
  BY Zenon DEF Init
<1>2. TypeOK
  BY <1>1 DEF Init, TypeOK
<1> QED
  BY <1>2 DEF Init, Inv, WatcherInv, Delivered, TimeoutFirst, TimeoutLast, PastDelivery

LEMMA TypeNext == TypeOK /\ [Next]_vars => TypeOK'
<1> SUFFICES ASSUME TypeOK, [Next]_vars PROVE TypeOK'
  OBVIOUS
<1>1. CASE ServerStep
  <2>1. ready' \in BOOLEAN
    BY <1>1, Zenon DEF ServerStep, ServeStarts, ServeReturns, TypeOK
  <2> QED
    BY <1>1, <2>1 DEF ServerStep, ServeStarts, ServeReturns, TypeOK
<1>2. CASE WatcherStep
  <2>1. inShutdown' \in BOOLEAN
    BY <1>2, Zenon DEF WatcherStep, WatcherShutdown, WatcherShutdownReturns, WatcherSend,
       TypeOK
  <2>2. result' \in Seq(Results) /\ Len(result') =< 1
    BY <1>2 DEF WatcherStep, WatcherShutdown, WatcherShutdownReturns, WatcherSend, Offer,
       Results, TypeOK
  <2> QED
    BY <1>2, <2>1, <2>2 DEF WatcherStep, WatcherShutdown, WatcherShutdownReturns,
       WatcherSend, TypeOK
<1>3. CASE ContextDone
  <2>1. ctxDone' \in BOOLEAN
    BY <1>3, Zenon DEF ContextDone
  <2> QED
    BY <1>3, <2>1 DEF ContextDone, TypeOK
<1>4. CASE Receive
  <2>1. PICK v \in Results : result = <<v>>
    BY <1>4, ChannelContents DEF Receive
  <2>2. result' = <<>> /\ received' = Append(received, v)
    BY <1>4, <2>1 DEF Receive
  <2> QED
    BY <1>4, <2>2 DEF Receive, TypeOK
<1>5. ASSUME NEW c \in Conns, Accept(c) \/ Request(c) \/ Drop(c) \/ HandlerStep(c)
      PROVE  TypeOK'
  <2>1. inShutdown' \in BOOLEAN
    BY <1>5, Zenon DEF Accept, Request, Drop, HandlerStep, DeliverResult, Respond,
       HandlerShutdown, HandlerShutdownReturns, TypeOK
  <2>2. result' \in Seq(Results) /\ Len(result') =< 1
    BY <1>5 DEF Accept, Request, Drop, HandlerStep, DeliverResult, Respond,
       HandlerShutdown, HandlerShutdownReturns, Offer, Results, TypeOK
  <2> QED
    BY <1>5, <2>1, <2>2 DEF Accept, Request, Drop, HandlerStep, DeliverResult, Respond,
       HandlerShutdown, HandlerShutdownReturns, TypeOK
<1>6. CASE AllReturned \/ UNCHANGED vars
  BY <1>6 DEF AllReturned, vars, TypeOK
<1> QED
  BY <1>1, <1>2, <1>3, <1>4, <1>5, <1>6 DEF Next

LEMMA InvNext == Inv /\ [Next]_vars => Inv'
<1> SUFFICES ASSUME Inv, [Next]_vars PROVE Inv'
  OBVIOUS
<1>t. TypeOK'
  BY TypeNext DEF Inv
<1>c. result = <<>> \/ \E v \in Results : result = <<v>>
  BY ChannelContents DEF Inv
<1> USE DEF Inv, WatcherInv, Delivered, TimeoutFirst, TimeoutLast, Quiet, PastDelivery
<1>1. CASE ServerStep \/ ContextDone \/ AllReturned \/ UNCHANGED vars
  BY <1>1, <1>t DEF ServerStep, ServeStarts, ServeReturns, ContextDone, AllReturned, vars
<1>2. CASE WatcherShutdown \/ WatcherShutdownReturns
  BY <1>2, <1>t DEF WatcherShutdown, WatcherShutdownReturns, Active
<1>3. CASE WatcherSend
  <2>1. WatcherInv' /\ UNCHANGED <<handler, received>> /\ watcher' = "returned"
    BY <1>3 DEF WatcherSend
  <2>2. CASE result # <<>>
    <3>1. result' = result
      BY <1>3, <1>c, <2>2 DEF WatcherSend, Offer
    <3> QED
      BY <1>t, <2>1, <3>1
  <2>3. CASE result = <<>>
    <3>1. result' = <<"timeout">>
      BY <1>3, <2>3 DEF WatcherSend, Offer
    <3>2. received = <<>> => Quiet'
      BY <1>3, <2>1, <2>3 DEF WatcherSend, TypeOK
    <3>3. \A i \in DOMAIN received : received[i] # "timeout"
      BY <1>3 DEF WatcherSend
    <3> QED
      BY <1>t, <2>1, <3>1, <3>2, <3>3
  <2> QED
    BY <2>2, <2>3
<1>4. CASE Receive
  <2>1. PICK v \in Results : result = <<v>>
    BY <1>4, <1>c DEF Receive
  <2>2. result' = <<>> /\ received' = Append(received, v) /\ received \in Seq(Results)
    BY <1>4, <2>1 DEF Receive, TypeOK
  <2>3. received' # <<>> /\ Head(received') = IF received = <<>> THEN v ELSE Head(received)
    BY <2>2
  <2> QED
    BY <1>4, <1>t, <2>1, <2>2, <2>3 DEF Receive
<1>5. ASSUME NEW c \in Conns, Accept(c) \/ Request(c) \/ Drop(c) PROVE Inv'
  BY <1>5, <1>t DEF Accept, Request, Drop, TypeOK
<1>6. ASSUME NEW c \in Conns, DeliverResult(c) PROVE Inv'
  <2>1. /\ handler[c] = "deliver" /\ ~Quiet /\ watcher \notin {"send", "returned"}
        /\ UNCHANGED <<inShutdown, watcher, received>>
    BY <1>6 DEF DeliverResult
  <2>2. WatcherInv'
    BY <1>6, <2>1 DEF DeliverResult
  <2>3. CASE result # <<>>
    <3>1. result' = result
      BY <1>6, <1>c, <2>3 DEF DeliverResult, Offer
    <3> QED
      BY <1>t, <2>1, <2>2, <2>3, <3>1
  <2>4. CASE result = <<>>
    <3>1. PICK v \in {"token", "missingToken"} : result' = <<v>>
      BY <1>6, <2>4 DEF DeliverResult, Offer
    <3> QED
      BY <1>t, <2>1, <2>2, <3>1
  <2> QED
    BY <2>3, <2>4
<1>7. ASSUME NEW c \in Conns,
             Respond(c) \/ HandlerShutdown(c) \/ HandlerShutdownReturns(c)
      PROVE  Inv'
  BY <1>7, <1>t DEF Respond, HandlerShutdown, HandlerShutdownReturns, TypeOK
<1> QED
  BY <1>1, <1>2, <1>3, <1>4, <1>5, <1>6, <1>7 DEF Next, WatcherStep, HandlerStep

(* The listener keeps its types, the capacity of its channel included. *)
THEOREM TypeCorrect == Spec => []TypeOK
<1>1. Inv => TypeOK
  BY DEF Inv
<1> QED
  BY <1>1, InvInit, InvNext, PTL DEF Spec

(* A callback request that was handled is never lost to the timeout that     *)
(* races it, and after the timeout nothing more is delivered                 *)
(* (callback.go:78-111).                                                     *)
THEOREM CallbackBeatsTimeout == Spec => []TimeoutIsLast
<1>1. Inv => TimeoutIsLast
  <2> SUFFICES ASSUME Inv, NEW i \in DOMAIN received, received[i] = "timeout"
               PROVE  /\ i = Len(received) /\ result = <<>>
                      /\ i = 1 => \A c \in Conns : handler[c] \in {"none", "dropped"}
    BY DEF TimeoutIsLast
  <2>1. i = Len(received) /\ result = <<>>
    BY DEF Inv, TimeoutLast
  <2>2. i = 1 => received # <<>> /\ Head(received) = "timeout"
    BY DEF Inv, TypeOK
  <2> QED
    BY <2>1, <2>2 DEF Inv, TimeoutFirst, Quiet
<1> QED
  BY <1>1, InvInit, InvNext, PTL DEF Spec
===============================================================================
