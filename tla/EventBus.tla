------------------------------ MODULE EventBus ------------------------------
(***************************************************************************)
(* src/internal/events/events.go and the handler that streams its events   *)
(* (handleEvents of src/internal/api/handlers.go).  Publish appends to the *)
(* history and offers the event to every subscriber while it holds the     *)
(* mutex; it never waits for one.  A stream subscribes first, then replays *)
(* the end of the history, then writes what its channel brings.            *)
(*                                                                         *)
(* Events carry the number of their publication, which is history: what    *)
(* the client can tell apart is their message.                             *)
(***************************************************************************)
EXTENDS Naturals, Sequences

CONSTANTS
  Publishers,   \* goroutines that publish
  Streams,      \* connections of clients to the event stream
  Messages,     \* what is published
  HistorySize,  \* historySize (100)
  ReplaySize,   \* events replayed to a new stream (25)
  Buffer,       \* capacity of a stream's channel (64)
  Nobody        \* holds the mutex when it is free

ASSUME EventBusAssumption ==
  /\ HistorySize \in Nat \ {0} /\ ReplaySize \in Nat \ {0} /\ Buffer \in Nat \ {0}
  /\ Messages # {}
  /\ Nobody \notin Publishers

VARIABLES
  count,      \* events published so far
  history,    \* the latest of them, oldest first
  lock,       \* who holds the mutex beyond one step
  ev,         \* the event a publisher is handing out
  due,        \* the subscribers it has not offered it to yet
  subs,       \* streams with a channel in the bus
  phase,      \* where a stream's handler is
  feed,       \* what its channel holds
  from,       \* the count when it subscribed
  lost,       \* an event found its channel full
  sent,       \* what it has written to its client
  replayed    \* how much of that was the replay

publishing == <<ev, due>>
stream == <<phase, from, replayed>>
busVars == <<count, history, lock, publishing, subs, stream, feed, lost, sent>>

Events == [n : Nat, msg : Messages]
NoEvent == [n |-> 0, msg |-> CHOOSE m \in Messages : TRUE]

BusTypeOK ==
  /\ count \in Nat
  /\ history \in Seq(Events) /\ Len(history) <= HistorySize
  /\ lock \in Publishers \cup {Nobody}
  /\ ev \in [Publishers -> Events] /\ due \in [Publishers -> SUBSET Streams]
  /\ subs \subseteq Streams
  /\ phase \in [Streams -> {"away", "subscribed", "live"}]
  /\ feed \in [Streams -> Seq(Events)]
  /\ \A s \in Streams : Len(feed[s]) <= Buffer
  /\ from \in [Streams -> Nat] /\ lost \in [Streams -> BOOLEAN]
  /\ sent \in [Streams -> Seq(Events)] /\ replayed \in [Streams -> Nat]

BusInit ==
  /\ count = 0 /\ history = <<>>
  /\ lock = Nobody
  /\ ev = [p \in Publishers |-> NoEvent] /\ due = [p \in Publishers |-> {}]
  /\ subs = {}
  /\ phase = [s \in Streams |-> "away"]
  /\ feed = [s \in Streams |-> <<>>]
  /\ from = [s \in Streams |-> 0] /\ lost = [s \in Streams |-> FALSE]
  /\ sent = [s \in Streams |-> <<>>] /\ replayed = [s \in Streams |-> 0]

(* The last n of a sequence, or all of it. *)
LastOf(q, n) == IF Len(q) <= n THEN q ELSE SubSeq(q, Len(q) - n + 1, Len(q))

(* Mutant: the oldest n instead of the latest. *)
RecentFirst(n) == IF Len(history) <= n THEN history ELSE SubSeq(history, 1, n)

Recent(n) == LastOf(history, n)
-----------------------------------------------------------------------------
(* Mutant: the mutex is released before the event is handed out. *)
PublishUnlocked(p, m) ==
  /\ lock = Nobody /\ ev[p] = NoEvent
  /\ count' = count + 1
  /\ ev' = [ev EXCEPT ![p] = [n |-> count + 1, msg |-> m]]
  /\ history' = LastOf(Append(history, [n |-> count + 1, msg |-> m]), HistorySize)
  /\ due' = [due EXCEPT ![p] = subs]
  /\ UNCHANGED <<lock, subs, stream, feed, lost, sent>>

(* Publish: the event enters the history and is offered to the subscribers
   of this moment, one after the other, under the mutex. *)
Publish(p, m) ==
  /\ lock = Nobody /\ ev[p] = NoEvent
  /\ lock' = p
  /\ count' = count + 1
  /\ ev' = [ev EXCEPT ![p] = [n |-> count + 1, msg |-> m]]
  /\ history' = LastOf(Append(history, [n |-> count + 1, msg |-> m]), HistorySize)
  /\ due' = [due EXCEPT ![p] = subs]
  /\ UNCHANGED <<subs, stream, feed, lost, sent>>

(* Mutant: the publisher waits for room in the channel. *)
OfferBlocking(p, s) ==
  /\ s \in due[p] /\ Len(feed[s]) < Buffer
  /\ due' = [due EXCEPT ![p] = @ \ {s}]
  /\ feed' = [feed EXCEPT ![s] = Append(@, ev[p])]
  /\ UNCHANGED <<count, history, lock, ev, subs, stream, lost, sent>>

(* A send that does not block: a full channel misses the event. *)
Offer(p, s) ==
  /\ s \in due[p]
  /\ due' = [due EXCEPT ![p] = @ \ {s}]
  /\ \/ /\ Len(feed[s]) < Buffer
        /\ feed' = [feed EXCEPT ![s] = Append(@, ev[p])]
        /\ UNCHANGED lost
     \/ /\ Len(feed[s]) >= Buffer
        /\ lost' = [lost EXCEPT ![s] = TRUE]
        /\ UNCHANGED feed
  /\ UNCHANGED <<count, history, lock, ev, subs, stream, sent>>

Published(p) ==
  /\ ev[p] # NoEvent /\ due[p] = {}
  /\ ev' = [ev EXCEPT ![p] = NoEvent]
  /\ lock' = Nobody
  /\ UNCHANGED <<count, history, due, subs, stream, feed, lost, sent>>

Subscribe(s) ==
  /\ lock = Nobody /\ phase[s] = "away"
  /\ phase' = [phase EXCEPT ![s] = "subscribed"]
  /\ subs' = subs \cup {s}
  /\ from' = [from EXCEPT ![s] = count]
  /\ UNCHANGED <<count, history, lock, publishing, feed, lost, sent, replayed>>

Replay(s) ==
  /\ lock = Nobody /\ phase[s] = "subscribed"
  /\ phase' = [phase EXCEPT ![s] = "live"]
  /\ sent' = [sent EXCEPT ![s] = Recent(ReplaySize)]
  /\ replayed' = [replayed EXCEPT ![s] = Len(Recent(ReplaySize))]
  /\ UNCHANGED <<count, history, lock, publishing, subs, from, feed, lost>>

Deliver(s) ==
  /\ phase[s] = "live" /\ feed[s] # <<>>
  /\ sent' = [sent EXCEPT ![s] = Append(@, Head(feed[s]))]
  /\ feed' = [feed EXCEPT ![s] = Tail(@)]
  /\ UNCHANGED <<count, history, lock, publishing, subs, stream, lost>>

(* Mutant: the channel is closed without the mutex. *)
UnsubscribeUnlocked(s) ==
  /\ phase[s] = "live"
  /\ phase' = [phase EXCEPT ![s] = "away"]
  /\ subs' = subs \ {s}
  /\ feed' = [feed EXCEPT ![s] = <<>>]
  /\ lost' = [lost EXCEPT ![s] = FALSE]
  /\ sent' = [sent EXCEPT ![s] = <<>>] /\ replayed' = [replayed EXCEPT ![s] = 0]
  /\ from' = [from EXCEPT ![s] = 0]
  /\ UNCHANGED <<count, history, lock, publishing>>

(* The client is gone: unsubscribe, which closes the channel. *)
Unsubscribe(s) ==
  /\ lock = Nobody /\ phase[s] = "live"
  /\ phase' = [phase EXCEPT ![s] = "away"]
  /\ subs' = subs \ {s}
  /\ feed' = [feed EXCEPT ![s] = <<>>]
  /\ lost' = [lost EXCEPT ![s] = FALSE]
  /\ sent' = [sent EXCEPT ![s] = <<>>] /\ replayed' = [replayed EXCEPT ![s] = 0]
  /\ from' = [from EXCEPT ![s] = 0]
  /\ UNCHANGED <<count, history, lock, publishing>>

StreamStep(s) == Subscribe(s) \/ Replay(s) \/ Deliver(s) \/ Unsubscribe(s)

BusNext ==
  \/ \E p \in Publishers :
       \/ \E m \in Messages : Publish(p, m)
       \/ \E s \in Streams : Offer(p, s)
       \/ Published(p)
  \/ \E s \in Streams : StreamStep(s)

BusSpec == BusInit /\ [][BusNext]_busVars
-----------------------------------------------------------------------------
(* No send on a closed channel, which would panic (events.go:58): whoever is
   still to be offered an event has an open channel. *)
NeverSentClosed == \A p \in Publishers : due[p] \subseteq subs

Numbers(q) == {q[i].n : i \in DOMAIN q}

(* What the client of s has got and will get of what is in the channel. *)
Got(s) == sent[s] \o feed[s]

(* The same with what is being offered to it. *)
Reaches(s) == Numbers(Got(s)) \cup {ev[p].n : p \in {p \in Publishers : s \in due[p]}}

(* Nothing falls between the replay and the live events: a stream whose
   channel was never full has, or is about to get, everything published since
   it asked, and what was replayed adds to it without a gap. *)
NoGap ==
  \A s \in subs : ~lost[s] =>
    \/ phase[s] = "subscribed" /\ Reaches(s) = from[s] + 1 .. count
    \/ phase[s] = "live" /\ \E first \in 1 .. from[s] + 1 : Reaches(s) = first .. count

(* Events come in the order of their publication, whatever publishers do at
   the same time: within the replay, and within what follows it.  (What was
   published between subscribing and replaying comes in both.) *)
InOrder ==
  \A s \in Streams : \A i, j \in DOMAIN Got(s) :
    i < j /\ (j <= replayed[s] \/ replayed[s] < i) => Got(s)[i].n < Got(s)[j].n

(* A stalled client does not hold up who publishes: handing an event out ends,
   and the mutex is free again, without the help of any stream. *)
PublishingEnds == lock # Nobody ~> lock = Nobody
=============================================================================
