------------------------------ MODULE EventBus ------------------------------
(***************************************************************************)
(* kernel/eventbus: Publish stamps an envelope with the next cursor and    *)
(* then, in a second step, sends it to the inbox; one dispatcher goroutine *)
(* takes it out and offers it to each subscription that matches; a         *)
(* subscription has a buffered channel and a goroutine that runs its       *)
(* handler.  A full channel delays the dispatcher by DeliverTimeout, then  *)
(* the envelope is dropped for that subscriber.  Handlers are foreign code *)
(* and may take forever.                                                   *)
(***************************************************************************)
EXTENDS Integers, Sequences, FiniteSets

CONSTANTS
  Publishers,   \* goroutines that publish; an envelope's source
  Subs,         \* subscriptions
  Filter,       \* Filter[s]: the sources s matches
  InboxCap,     \* Options.PublishBuffer, 4096
  SubCap,       \* Options.SubscriberBuffer, 256
  MaxCursor     \* bound: envelopes published

ASSUME EventBusAssumption ==
  /\ Filter \in [Subs -> SUBSET Publishers]
  /\ InboxCap \in Nat \ {0}
  /\ SubCap \in Nat \ {0}
  /\ MaxCursor \in Nat

VARIABLES
  cursor,     \* the atomic counter
  stamped,    \* stamped[p]: cursor of the envelope p is about to send, 0 if none
  inbox,      \* the inbox channel
  disp,       \* dispatcher: "select", "snapshot", "offer", "try", "wait", "exited"
  env,        \* the envelope the dispatcher works on
  todo,       \* its snapshot of subscriptions, less those already served
  cur,        \* the subscription it is delivering to (in "try" and "wait")
  subs,       \* the map of subscriptions
  ch,         \* ch[s]: the subscription's channel
  stop,       \* stop[s]: the stop channel is closed
  runner,     \* goroutine of s: "none", "select", "handling", "done"
  closer,     \* Subscription.Close of s: "none", "waiting", "returned"
  bus,        \* Bus.Close: "open", "stopped", "waiting", "closed"
  toClose,    \* subscriptions Bus.Close still has to shut down
  order,      \* history: envelopes in the order the dispatcher took them
  since,      \* history: Len(order) when s subscribed
  handled,    \* history: handled[s], envelopes the handler of s was given
  dropped     \* dropped[s]: envelopes shed for s (the code counts them)

pubVars == <<cursor, stamped, inbox>>
dispVars == <<disp, env, todo, cur>>
subVars == <<subs, ch, stop, runner, closer>>
closeVars == <<bus, toClose>>
histVars == <<order, since, handled, dropped>>
busVars == <<pubVars, dispVars, subVars, closeVars, histVars>>

Envelopes == [cursor : 1 .. MaxCursor, source : Publishers]
NoEnv == [cursor |-> 0, source |-> "none"]
NoSub == "none"

BusInit ==
  /\ cursor = 0
  /\ stamped = [p \in Publishers |-> 0]
  /\ inbox = <<>>
  /\ disp = "select"
  /\ env = NoEnv
  /\ todo = {}
  /\ cur = NoSub
  /\ subs = {}
  /\ ch = [s \in Subs |-> <<>>]
  /\ stop = [s \in Subs |-> FALSE]
  /\ runner = [s \in Subs |-> "none"]
  /\ closer = [s \in Subs |-> "none"]
  /\ bus = "open"
  /\ toClose = {}
  /\ order = <<>>
  /\ since = [s \in Subs |-> 0]
  /\ handled = [s \in Subs |-> <<>>]
  /\ dropped = [s \in Subs |-> {}]

-----------------------------------------------------------------------------
(* Publish.                                                                *)

Stamp(p) ==
  /\ stamped[p] = 0
  /\ cursor < MaxCursor
  /\ cursor' = cursor + 1
  /\ stamped' = [stamped EXCEPT ![p] = cursor + 1]
  /\ UNCHANGED <<inbox, dispVars, subVars, closeVars, histVars>>

\* The select of Publish: into the inbox, or nowhere once the bus is stopped.
Send(p) ==
  /\ stamped[p] # 0
  /\ stamped' = [stamped EXCEPT ![p] = 0]
  /\ \/ /\ Len(inbox) < InboxCap
        /\ inbox' = Append(inbox, [cursor |-> stamped[p], source |-> p])
     \/ /\ bus # "open"
        /\ UNCHANGED inbox
  /\ UNCHANGED <<cursor, dispVars, subVars, closeVars, histVars>>

-----------------------------------------------------------------------------
(* The dispatcher goroutine.                                               *)

DispatchTake ==
  /\ disp = "select"
  /\ inbox # <<>>
  /\ env' = Head(inbox)
  /\ inbox' = Tail(inbox)
  /\ order' = Append(order, Head(inbox))
  /\ disp' = "snapshot"
  /\ UNCHANGED <<cursor, stamped, todo, cur, subVars, closeVars, since, handled, dropped>>

DispatchExit ==
  /\ disp = "select"
  /\ bus # "open"
  /\ disp' = "exited"
  /\ UNCHANGED <<pubVars, env, todo, cur, subVars, closeVars, histVars>>

\* The copy of the map under the read lock, less those the filter rejects.
DispatchSnapshot ==
  /\ disp = "snapshot"
  /\ todo' = {s \in subs : env.source \in Filter[s]}
  /\ disp' = "offer"
  /\ UNCHANGED <<pubVars, env, cur, subVars, closeVars, histVars>>

\* The next subscription, in map order; deliver's check of the stop channel.
DispatchNext(s) ==
  /\ disp = "offer"
  /\ s \in todo
  /\ todo' = todo \ {s}
  /\ IF stop[s] THEN UNCHANGED <<disp, cur>>
                ELSE disp' = "try" /\ cur' = s
  /\ UNCHANGED <<pubVars, env, subVars, closeVars, histVars>>

DispatchDone ==
  /\ disp = "offer"
  /\ todo = {}
  /\ disp' = "select"
  /\ env' = NoEnv
  /\ UNCHANGED <<pubVars, todo, cur, subVars, closeVars, histVars>>

\* Fault: deliver goes on to the timed select after a successful send.
DeliverTwice ==
  /\ disp \in {"try", "wait"}
  /\ Len(ch[cur]) < SubCap
  /\ ch' = [ch EXCEPT ![cur] = Append(ch[cur], env)]
  /\ IF disp = "try" THEN disp' = "wait" /\ UNCHANGED cur ELSE disp' = "offer" /\ cur' = NoSub
  /\ UNCHANGED <<pubVars, env, todo, subs, stop, runner, closer, closeVars, histVars>>

\* Either select of deliver finds room in the channel.
DeliverSend ==
  /\ disp \in {"try", "wait"}
  /\ Len(ch[cur]) < SubCap
  /\ ch' = [ch EXCEPT ![cur] = Append(ch[cur], env)]
  /\ disp' = "offer"
  /\ cur' = NoSub
  /\ UNCHANGED <<pubVars, env, todo, subs, stop, runner, closer, closeVars, histVars>>

\* The channel is full: start the timer and wait.
DeliverWait ==
  /\ disp = "try"
  /\ Len(ch[cur]) >= SubCap
  /\ disp' = "wait"
  /\ UNCHANGED <<pubVars, env, todo, cur, subVars, closeVars, histVars>>

\* Fault: the timeout forgets to count.
DropSilently ==
  /\ disp = "wait"
  /\ disp' = "offer"
  /\ cur' = NoSub
  /\ UNCHANGED <<pubVars, env, todo, subVars, closeVars, histVars>>

\* Fault: only a shutdown ends the wait for room.
DropOnStopOnly ==
  /\ disp = "wait"
  /\ stop[cur]
  /\ dropped' = [dropped EXCEPT ![cur] = dropped[cur] \cup {env}]
  /\ disp' = "offer"
  /\ cur' = NoSub
  /\ UNCHANGED <<pubVars, env, todo, subVars, closeVars, order, since, handled>>

\* The timer wins the select, even if there is room by now.
DeliverDrop ==
  /\ disp = "wait"
  /\ dropped' = [dropped EXCEPT ![cur] = dropped[cur] \cup {env}]
  /\ disp' = "offer"
  /\ cur' = NoSub
  /\ UNCHANGED <<pubVars, env, todo, subVars, closeVars, order, since, handled>>

DeliverAbort ==
  /\ disp = "wait"
  /\ stop[cur]
  /\ disp' = "offer"
  /\ cur' = NoSub
  /\ UNCHANGED <<pubVars, env, todo, subVars, closeVars, histVars>>

-----------------------------------------------------------------------------
(* Subscriptions.                                                          *)

\* Allowed after Close too: such a subscription is never shut down.
Subscribe(s) ==
  /\ runner[s] = "none"
  /\ subs' = subs \cup {s}
  /\ runner' = [runner EXCEPT ![s] = "select"]
  /\ since' = [since EXCEPT ![s] = Len(order)]
  /\ UNCHANGED <<pubVars, dispVars, ch, stop, closer, closeVars, order, handled, dropped>>

RunTake(s) ==
  /\ runner[s] = "select"
  /\ ch[s] # <<>>
  /\ ch' = [ch EXCEPT ![s] = Tail(ch[s])]
  /\ handled' = [handled EXCEPT ![s] = Append(handled[s], Head(ch[s]))]
  /\ runner' = [runner EXCEPT ![s] = "handling"]
  /\ UNCHANGED <<pubVars, dispVars, subs, stop, closer, closeVars, order, since, dropped>>

\* The handler returns, or panics and is recovered.
RunHandled(s) ==
  /\ runner[s] = "handling"
  /\ runner' = [runner EXCEPT ![s] = "select"]
  /\ UNCHANGED <<pubVars, dispVars, subs, ch, stop, closer, closeVars, histVars>>

RunExit(s) ==
  /\ runner[s] = "select"
  /\ stop[s]
  /\ runner' = [runner EXCEPT ![s] = "done"]
  /\ UNCHANGED <<pubVars, dispVars, subs, ch, stop, closer, closeVars, histVars>>

\* Fault: shutdown closes the stop channel and does not wait for the goroutine.
CloseSubNoWait(s) ==
  /\ s \in subs
  /\ closer[s] = "none"
  /\ subs' = subs \ {s}
  /\ stop' = [stop EXCEPT ![s] = TRUE]
  /\ closer' = [closer EXCEPT ![s] = "returned"]
  /\ UNCHANGED <<pubVars, dispVars, ch, runner, closeVars, histVars>>

\* Subscription.Close: detach, then shutdown's close of the stop channel.  A
\* second Close, or one that Bus.Close overtook, finds nothing to detach and
\* returns at once, without waiting for the handler.
CloseSub(s) ==
  /\ s \in subs
  /\ closer[s] = "none"
  /\ subs' = subs \ {s}
  /\ stop' = [stop EXCEPT ![s] = TRUE]
  /\ closer' = [closer EXCEPT ![s] = "waiting"]
  /\ UNCHANGED <<pubVars, dispVars, ch, runner, closeVars, histVars>>

\* ... and its wait for the goroutine to be done.
CloseSubReturns(s) ==
  /\ closer[s] = "waiting"
  /\ runner[s] = "done"
  /\ closer' = [closer EXCEPT ![s] = "returned"]
  /\ UNCHANGED <<pubVars, dispVars, subs, ch, stop, runner, closeVars, histVars>>

-----------------------------------------------------------------------------
(* Bus.Close, under its Once.                                              *)

CloseBusStop ==
  /\ bus = "open"
  /\ bus' = "stopped"
  /\ UNCHANGED <<pubVars, dispVars, subVars, toClose, histVars>>

CloseBusSwap ==
  /\ bus = "stopped"
  /\ bus' = "waiting"
  /\ toClose' = subs
  /\ subs' = {}
  /\ UNCHANGED <<pubVars, dispVars, ch, stop, runner, closer, histVars>>

CloseBusShutdown(s) ==
  /\ bus = "waiting"
  /\ s \in toClose
  /\ \A other \in toClose : ~stop[other]
  /\ stop' = [stop EXCEPT ![s] = TRUE]
  /\ UNCHANGED <<pubVars, dispVars, subs, ch, runner, closer, closeVars, histVars>>

CloseBusDone(s) ==
  /\ bus = "waiting"
  /\ s \in toClose
  /\ stop[s]
  /\ runner[s] = "done"
  /\ toClose' = toClose \ {s}
  /\ UNCHANGED <<pubVars, dispVars, subVars, bus, histVars>>

CloseBusReturns ==
  /\ bus = "waiting"
  /\ toClose = {}
  /\ bus' = "closed"
  /\ UNCHANGED <<pubVars, dispVars, subVars, toClose, histVars>>

-----------------------------------------------------------------------------

Dispatch ==
  \/ DispatchTake \/ DispatchExit \/ DispatchSnapshot \/ DispatchDone
  \/ \E s \in Subs : DispatchNext(s)
  \/ DeliverSend \/ DeliverWait \/ DeliverDrop \/ DeliverAbort

BusNext ==
  \/ \E p \in Publishers : Stamp(p) \/ Send(p)
  \/ Dispatch
  \/ \E s \in Subs : Subscribe(s) \/ RunTake(s) \/ RunHandled(s) \/ RunExit(s)
                     \/ CloseSub(s) \/ CloseSubReturns(s)
                     \/ CloseBusShutdown(s) \/ CloseBusDone(s)
  \/ CloseBusStop \/ CloseBusSwap \/ CloseBusReturns

BusSpec == BusInit /\ [][BusNext]_busVars

\* The dispatcher's goroutine runs; nothing is asked of handlers, which may
\* hang, nor of whoever publishes, subscribes or closes.
BusFairSpec == BusSpec /\ WF_busVars(Dispatch)

-----------------------------------------------------------------------------

BusTypeOK ==
  /\ cursor \in 0 .. MaxCursor
  /\ stamped \in [Publishers -> 0 .. MaxCursor]
  /\ inbox \in Seq(Envelopes) /\ Len(inbox) <= InboxCap
  /\ disp \in {"select", "snapshot", "offer", "try", "wait", "exited"}
  /\ env \in Envelopes \cup {NoEnv}
  /\ todo \subseteq Subs /\ subs \subseteq Subs /\ toClose \subseteq Subs
  /\ cur \in Subs \cup {NoSub}
  /\ \A s \in Subs : ch[s] \in Seq(Envelopes) /\ Len(ch[s]) <= SubCap
  /\ stop \in [Subs -> BOOLEAN]
  /\ runner \in [Subs -> {"none", "select", "handling", "done"}]
  /\ closer \in [Subs -> {"none", "waiting", "returned"}]
  /\ bus \in {"open", "stopped", "waiting", "closed"}
  /\ order \in Seq(Envelopes)
  /\ since \in [Subs -> Nat]
  /\ handled \in [Subs -> Seq(Envelopes)]
  /\ dropped \in [Subs -> SUBSET Envelopes]

\* What s has been given and still has in its channel, in order.
Stream(s) == handled[s] \o ch[s]

\* Each subscriber sees the dispatcher's order, and no envelope twice,
\* although envelopes are dropped and subscriptions come and go between.
DispatchOrderKept ==
  \A s \in Subs : \A i, j \in 1 .. Len(Stream(s)) : i < j =>
    \E m, n \in 1 .. Len(order) :
      m < n /\ order[m] = Stream(s)[i] /\ order[n] = Stream(s)[j]

\* An open subscription accounts for every envelope dispatched since it was
\* made: its filter rejected it, its handler got it or will, or it was
\* dropped and counted.
EveryEnvelopeAccounted ==
  \A s \in Subs : (s \in subs /\ ~stop[s]) =>
    \A i \in since[s] + 1 .. Len(order) :
      \/ i = Len(order) /\ disp \in {"snapshot", "offer", "try", "wait"}
      \/ order[i].source \notin Filter[s]
      \/ order[i] \in dropped[s]
      \/ \E j \in 1 .. Len(Stream(s)) : Stream(s)[j] = order[i]

\* Once the Close that detached a subscription has returned, its handler
\* does not run and never will again.
QuietAfterClose == \A s \in Subs : closer[s] = "returned" => runner[s] = "done"

\* No subscriber stalls the bus: the dispatcher gets through with every
\* envelope, also when handlers hang and their channels stay full, so that
\* Publish waits for it only so long.
DispatcherNeverStalls == disp # "select" ~> disp \in {"select", "exited"}

\* docs/design/p0-eventbus.md, §4: subscribers receive monotone cursors.
CursorsMonotone ==
  \A s \in Subs : \A i, j \in 1 .. Len(handled[s]) :
    i < j => handled[s][i].cursor < handled[s][j].cursor
=============================================================================
