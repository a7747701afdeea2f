---------------------------- MODULE RemoteProofs ----------------------------
(***************************************************************************)
(* Proofs about EventBus and Remote, for any tailnet, tunnels, delays,     *)
(* streams, publishers, messages and sizes, with or without an advertised  *)
(* address, and even when connectors leave processes behind.               *)
(*                                                                         *)
(* The first part is about the bus alone and uses nothing that Remote      *)
(* defines or assumes.                                                     *)
(***************************************************************************)
EXTENDS Remote, SequenceTheorems, TLAPS

(* Who hands out an event holds the mutex, and the event is the latest. *)
OnePublisher ==
  \A p \in Publishers :
    /\ ev[p] # NoEvent => lock = p /\ ev[p].n = count
    /\ due[p] # {} => ev[p] # NoEvent

Phases ==
  \A s \in Streams :
    /\ s \in subs <=> phase[s] # "away"
    /\ phase[s] # "live" => sent[s] = <<>> /\ replayed[s] = 0
    /\ phase[s] = "away" => feed[s] = <<>>
    /\ replayed[s] <= Len(sent[s])
    /\ from[s] <= count

(* The history is the last so many events without a gap. *)
HistoryIsTail ==
  /\ Len(history) <= count
  /\ \A i \in DOMAIN history : history[i].n = count - Len(history) + i

(* What a client has is not newer than the bus, and older than what it is
   still to be offered. *)
Known ==
  \A s \in Streams : \A k \in Numbers(Got(s)) :
    k <= count /\ \A p \in Publishers : s \in due[p] => k < count

BusInv ==
  /\ BusTypeOK /\ OnePublisher /\ NeverSentClosed
  /\ Phases /\ HistoryIsTail /\ Known

LEMMA NoEventType == NoEvent \in Events
BY EventBusAssumption DEF NoEvent, Events

LEMMA GotType ==
  ASSUME BusTypeOK, NEW s \in Streams
  PROVE  /\ sent[s] \in Seq(Events) /\ feed[s] \in Seq(Events)
         /\ Got(s) \in Seq(Events)
         /\ Len(Got(s)) = Len(sent[s]) + Len(feed[s])
BY ConcatProperties DEF BusTypeOK, Got

(* The last n of a sequence are its elements from one place on. *)
LEMMA LastOfSeq ==
  ASSUME NEW S, NEW q \in Seq(S), NEW n \in Nat
  PROVE  /\ LastOf(q, n) \in Seq(S)
         /\ Len(LastOf(q, n)) = IF Len(q) <= n THEN Len(q) ELSE n
         /\ \A i \in 1 .. Len(LastOf(q, n)) :
              LastOf(q, n)[i] = q[Len(q) - Len(LastOf(q, n)) + i]
<1>1. Len(q) \in Nat /\ \A i \in 1 .. Len(q) : q[i] \in S
  BY LenProperties, ElementOfSeq
<1>2. CASE Len(q) <= n
  <2>1. LastOf(q, n) = q
    BY <1>2 DEF LastOf
  <2>. QED
    BY <1>1, <1>2, <2>1
<1>3. CASE ~(Len(q) <= n)
  <2>. DEFINE a == Len(q) - n + 1
  <2>1. LastOf(q, n) = SubSeq(q, a, Len(q))
    BY <1>3 DEF LastOf
  <2>2. a \in 1 .. Len(q) + 1
    BY <1>1, <1>3
  <2>3. \A i \in a .. Len(q) : q[i] \in S
    BY <1>1, <2>2
  <2>. HIDE DEF a
  <2>4. /\ SubSeq(q, a, Len(q)) \in Seq(S)
        /\ Len(SubSeq(q, a, Len(q))) = IF a <= Len(q) THEN Len(q) - a + 1 ELSE 0
        /\ \A i \in 1 .. Len(q) - a + 1 : SubSeq(q, a, Len(q))[i] = q[a + i - 1]
    BY <1>1, <2>2, <2>3, SubSeqProperties
  <2>. QED
    BY <1>1, <1>3, <2>1, <2>2, <2>4 DEF a
<1>. QED
  BY <1>2, <1>3

(* What Recent returns: the numbers up to the count, one after the other. *)
LEMMA RecentIsTail ==
  ASSUME BusTypeOK, HistoryIsTail, NEW n \in Nat
  PROVE  /\ Recent(n) \in Seq(Events) /\ Len(Recent(n)) <= count
         /\ \A i \in 1 .. Len(Recent(n)) : Recent(n)[i].n = count - Len(Recent(n)) + i
<1>. DEFINE r == Recent(n)
            h == Len(history)
<1>1. /\ r \in Seq(Events)
      /\ Len(r) = IF h <= n THEN h ELSE n
      /\ \A i \in 1 .. Len(r) : r[i] = history[h - Len(r) + i]
  BY LastOfSeq DEF BusTypeOK, Recent
<1>2. h \in Nat /\ Len(r) \in Nat /\ count \in Nat /\ h <= count
  BY <1>1, LenProperties DEF BusTypeOK, HistoryIsTail
<1>3. \A j \in 1 .. h : history[j].n = count - h + j
  BY LenProperties DEF BusTypeOK, HistoryIsTail
<1>. HIDE DEF r, h
<1>4. ASSUME NEW i \in 1 .. Len(r)
      PROVE  r[i].n = count - Len(r) + i
  <2>1. h - Len(r) + i \in 1 .. h
    BY <1>1, <1>2
  <2>2. history[h - Len(r) + i].n = count - h + (h - Len(r) + i)
    BY <1>3, <2>1
  <2>. QED
    BY <1>1, <1>2, <2>2
<1>5. Len(r) <= count
  BY <1>1, <1>2
<1>. QED
  BY <1>1, <1>4, <1>5 DEF r

LEMMA MoveHead ==
  ASSUME NEW S, NEW q \in Seq(S), NEW r \in Seq(S), r # <<>>
  PROVE  Append(q, Head(r)) \o Tail(r) = q \o r
<1>. DEFINE a == Append(q, Head(r))
            b == Tail(r)
<1>1. /\ Head(r) \in S /\ Head(r) = r[1]
      /\ b \in Seq(S) /\ Len(b) = Len(r) - 1
      /\ \A i \in 1 .. Len(b) : b[i] = r[i + 1]
  BY HeadTailProperties
<1>2. /\ a \in Seq(S) /\ Len(a) = Len(q) + 1
      /\ \A i \in 1 .. Len(q) : a[i] = q[i]
      /\ a[Len(q) + 1] = r[1]
  BY <1>1, AppendProperties
<1>3. Len(q) \in Nat /\ Len(r) \in Nat
  BY LenProperties
<1>. HIDE DEF a, b
<1>4. /\ a \o b \in Seq(S) /\ Len(a \o b) = Len(a) + Len(b)
      /\ \A i \in 1 .. Len(a) + Len(b) : (a \o b)[i] = IF i <= Len(a) THEN a[i] ELSE b[i - Len(a)]
  BY <1>1, <1>2, ConcatProperties
<1>5. /\ q \o r \in Seq(S) /\ Len(q \o r) = Len(q) + Len(r)
      /\ \A i \in 1 .. Len(q) + Len(r) : (q \o r)[i] = IF i <= Len(q) THEN q[i] ELSE r[i - Len(q)]
  BY ConcatProperties
<1>6. Len(a \o b) = Len(q \o r)
  BY <1>1, <1>2, <1>3, <1>4, <1>5
<1>7. \A i \in 1 .. Len(a \o b) : (a \o b)[i] = (q \o r)[i]
  <2>. TAKE i \in 1 .. Len(a \o b)
  <2>1. CASE i <= Len(q)
    BY <2>1, <1>2, <1>3, <1>4, <1>5, <1>6
  <2>2. CASE i = Len(q) + 1
    <3>1. (a \o b)[i] = a[i]
      BY <2>2, <1>2, <1>3, <1>4
    <3>2. (q \o r)[i] = r[1]
      BY <2>2, <1>3, <1>5, <1>6
    <3>. QED
      BY <3>1, <3>2, <2>2, <1>2
  <2>3. CASE ~(i <= Len(q)) /\ i # Len(q) + 1
    <3>1. (a \o b)[i] = b[i - Len(q) - 1]
      BY <2>3, <1>2, <1>3, <1>4
    <3>2. (q \o r)[i] = r[i - Len(q)]
      BY <2>3, <1>3, <1>5, <1>6
    <3>3. /\ i - Len(q) - 1 \in 1 .. Len(b)
          /\ (i - Len(q) - 1) + 1 = i - Len(q)
      BY <2>3, <1>1, <1>2, <1>3, <1>4
    <3>4. b[i - Len(q) - 1] = r[(i - Len(q) - 1) + 1]
      BY <3>3, <1>1
    <3>. QED
      BY <3>1, <3>2, <3>3, <3>4
  <2>. QED
    BY <2>1, <2>2, <2>3, <1>3
<1>8. a \o b = q \o r
  BY <1>4, <1>5, <1>6, <1>7, SeqEqual
<1>. QED
  BY <1>8 DEF a, b

(* Reading the channel moves an event from it to the client. *)
LEMMA DeliverKeepsGot ==
  ASSUME BusTypeOK, NEW s \in Streams, NEW t \in Streams, Deliver(s)
  PROVE  Got(t)' = Got(t)
<1>1. CASE t # s
  BY <1>1 DEF Got, Deliver, BusTypeOK
<1>2. CASE t = s
  <2>1. sent[s] \in Seq(Events) /\ feed[s] \in Seq(Events) /\ feed[s] # <<>>
    BY DEF BusTypeOK, Deliver
  <2>2. sent'[s] = Append(sent[s], Head(feed[s])) /\ feed'[s] = Tail(feed[s])
    BY DEF BusTypeOK, Deliver
  <2>. QED
    BY <1>2, <2>1, <2>2, MoveHead DEF Got
<1>. QED
  BY <1>1, <1>2

(* A channel with room takes an event to the end of what the client gets. *)
LEMMA OfferAppends ==
  ASSUME NEW S, NEW q \in Seq(S), NEW r \in Seq(S), NEW e \in S
  PROVE  q \o Append(r, e) = Append(q \o r, e)
<1>1. /\ Append(r, e) = r \o <<e>> /\ <<e>> \in Seq(S) /\ q \o r \in Seq(S)
  BY AppendIsConcat, ConcatProperties
<1>2. Append(q \o r, e) = (q \o r) \o <<e>>
  BY <1>1, AppendIsConcat
<1>. QED
  BY <1>1, <1>2, ConcatAssociative

LEMMA NumbersAppend ==
  ASSUME NEW q \in Seq(Events), NEW e \in Events
  PROVE  Numbers(Append(q, e)) = Numbers(q) \cup {e.n}
<1>. DEFINE a == Append(q, e)
<1>1. /\ a \in Seq(Events) /\ Len(a) = Len(q) + 1
      /\ \A i \in 1 .. Len(q) : a[i] = q[i]
      /\ a[Len(q) + 1] = e
  BY AppendProperties
<1>2. DOMAIN q = 1 .. Len(q) /\ Len(q) \in Nat
  BY LenProperties
<1>3. DOMAIN a = 1 .. Len(a)
  BY <1>1, LenProperties
<1>. HIDE DEF a
<1>4. Numbers(a) = Numbers(q) \cup {e.n}
  <2>1. 1 .. Len(q) + 1 = (1 .. Len(q)) \cup {Len(q) + 1}
    BY <1>2
  <2>. QED
    BY <2>1, <1>1, <1>2, <1>3 DEF Numbers
<1>. QED
  BY <1>4 DEF a

LEMMA NumbersConcat ==
  ASSUME NEW q \in Seq(Events), NEW r \in Seq(Events)
  PROVE  Numbers(q \o r) = Numbers(q) \cup Numbers(r)
<1>. DEFINE a == q \o r
<1>1. /\ a \in Seq(Events) /\ Len(a) = Len(q) + Len(r)
      /\ \A i \in 1 .. Len(q) + Len(r) : a[i] = IF i <= Len(q) THEN q[i] ELSE r[i - Len(q)]
  BY ConcatProperties
<1>2. /\ DOMAIN q = 1 .. Len(q) /\ Len(q) \in Nat
      /\ DOMAIN r = 1 .. Len(r) /\ Len(r) \in Nat
  BY LenProperties
<1>3. DOMAIN a = 1 .. Len(q) + Len(r)
  BY <1>1, LenProperties
<1>. HIDE DEF a
<1>4. \A i \in 1 .. Len(q) : i \in DOMAIN a /\ a[i] = q[i]
  BY <1>1, <1>2, <1>3
<1>5. \A j \in 1 .. Len(r) : Len(q) + j \in DOMAIN a /\ a[Len(q) + j] = r[j]
  <2>. TAKE j \in 1 .. Len(r)
  <2>1. Len(q) + j \in 1 .. Len(q) + Len(r) /\ ~(Len(q) + j <= Len(q)) /\ (Len(q) + j) - Len(q) = j
    BY <1>2
  <2>. QED
    BY <2>1, <1>1, <1>3
<1>6. Numbers(q) \subseteq Numbers(a) /\ Numbers(r) \subseteq Numbers(a)
  BY <1>2, <1>4, <1>5 DEF Numbers
<1>7. ASSUME NEW i \in DOMAIN a
      PROVE  a[i].n \in Numbers(q) \cup Numbers(r)
  <2>1. CASE i <= Len(q)
    BY <2>1, <1>1, <1>2, <1>3 DEF Numbers
  <2>2. CASE ~(i <= Len(q))
    <3>1. i - Len(q) \in 1 .. Len(r) /\ a[i] = r[i - Len(q)]
      BY <2>2, <1>1, <1>2, <1>3
    <3>. QED
      BY <3>1, <1>2 DEF Numbers
  <2>. QED
    BY <2>1, <2>2
<1>8. Numbers(a) = Numbers(q) \cup Numbers(r)
  BY <1>6, <1>7 DEF Numbers
<1>. QED
  BY <1>8 DEF a
LEMMA NumbersAreNat ==
  ASSUME NEW q \in Seq(Events)
  PROVE  Numbers(q) \subseteq Nat
<1>1. \A i \in DOMAIN q : q[i] \in Events
  BY ElementOfSeq, LenProperties
<1>. QED
  BY <1>1 DEF Numbers, Events

LEMMA NumbersEmpty == Numbers(<<>>) = {}
BY DEF Numbers

-----------------------------------------------------------------------------
LEMMA BusStart == BusInit => BusInv /\ NoGap /\ InOrder
<1>. SUFFICES ASSUME BusInit PROVE BusInv /\ NoGap /\ InOrder
  OBVIOUS
<1>. USE EventBusAssumption, NoEventType DEF BusInit
<1>1. BusTypeOK
  BY EmptySeq DEF BusTypeOK
<1>2. \A s \in Streams : Got(s) = <<>>
  BY DEF Got
<1>3. OnePublisher /\ NeverSentClosed
  BY DEF OnePublisher, NeverSentClosed
<1>4. Phases
  BY DEF Phases
<1>5. HistoryIsTail
  BY DEF HistoryIsTail
<1>6. Known
  BY <1>2, NumbersEmpty DEF Known
<1>7. NoGap /\ InOrder
  BY <1>2 DEF NoGap, InOrder
<1>. QED
  BY <1>1, <1>3, <1>4, <1>5, <1>6, <1>7 DEF BusInv

(* The mutex is free: nobody is handing out anything. *)
LEMMA FreeMutex ==
  ASSUME BusInv, lock = Nobody
  PROVE  \A p \in Publishers : ev[p] = NoEvent /\ due[p] = {}
BY EventBusAssumption DEF BusInv, OnePublisher

(* What Publish leaves in the history. *)
LEMMA PublishHistory ==
  ASSUME BusTypeOK, HistoryIsTail, NEW p \in Publishers, NEW m \in Messages, Publish(p, m)
  PROVE  history' \in Seq(Events) /\ Len(history') <= HistorySize /\ HistoryIsTail'
<1>. DEFINE e == [n |-> count + 1, msg |-> m]
            a == Append(history, e)
            h == LastOf(a, HistorySize)
<1>1. history \in Seq(Events) /\ count \in Nat /\ HistorySize \in Nat
  BY EventBusAssumption DEF BusTypeOK
<1>2. e \in Events /\ e.n = count + 1
  BY <1>1 DEF Events
<1>3. /\ DOMAIN history = 1 .. Len(history) /\ Len(history) \in Nat /\ Len(history) <= count
      /\ \A i \in 1 .. Len(history) : history[i].n = count - Len(history) + i
  BY <1>1, LenProperties DEF HistoryIsTail
<1>4. history' = h /\ count' = count + 1
  BY DEF Publish
<1>. HIDE DEF e
<1>5. /\ a \in Seq(Events) /\ Len(a) = Len(history) + 1
      /\ \A i \in 1 .. Len(history) : a[i] = history[i]
      /\ a[Len(history) + 1] = e
  BY <1>1, <1>2, AppendProperties
<1>. HIDE DEF a
<1>6. \A i \in 1 .. Len(a) : a[i].n = count + 1 - Len(a) + i
  <2>. TAKE i \in 1 .. Len(a)
  <2>1. CASE i \in 1 .. Len(history)
    BY <2>1, <1>1, <1>3, <1>5
  <2>2. CASE i = Len(history) + 1
    BY <2>2, <1>1, <1>2, <1>3, <1>5
  <2>. QED
    BY <2>1, <2>2, <1>3, <1>5
<1>7. /\ h \in Seq(Events)
      /\ Len(h) = IF Len(a) <= HistorySize THEN Len(a) ELSE HistorySize
      /\ \A i \in 1 .. Len(h) : h[i] = a[Len(a) - Len(h) + i]
  <2>1. a \in Seq(Events) /\ HistorySize \in Nat
    BY <1>1, <1>5
  <2>. QED
    BY ONLY <2>1, LastOfSeq
<1>. HIDE DEF h
<1>8. DOMAIN h = 1 .. Len(h) /\ Len(h) \in Nat /\ Len(h) <= Len(a) /\ Len(h) <= HistorySize
  BY <1>1, <1>3, <1>5, <1>7, LenProperties
<1>9. \A i \in 1 .. Len(h) : h[i].n = count + 1 - Len(h) + i
  <2>. TAKE i \in 1 .. Len(h)
  <2>1. Len(a) - Len(h) + i \in 1 .. Len(a)
    BY <1>3, <1>5, <1>8
  <2>2. a[Len(a) - Len(h) + i].n = count + 1 - Len(a) + (Len(a) - Len(h) + i)
    BY <2>1, <1>6
  <2>3. h[i] = a[Len(a) - Len(h) + i]
    BY <1>7
  <2>. QED
    BY <2>2, <2>3, <1>1, <1>3, <1>5, <1>8
<1>10. Len(h) <= count + 1
  BY <1>1, <1>3, <1>5, <1>8
<1>11. HistoryIsTail'
  <2>1. DOMAIN history' = 1 .. Len(history')
    BY <1>4, <1>8
  <2>2. \A i \in 1 .. Len(history') : history'[i].n = count' - Len(history') + i
    <3>. TAKE i \in 1 .. Len(history')
    <3>1. i \in 1 .. Len(h)
      BY <1>4
    <3>2. h[i].n = count + 1 - Len(h) + i
      BY <3>1, <1>9
    <3>. QED
      BY <3>2, <1>1, <1>4, <1>8
  <2>. QED
    BY <1>4, <1>10, <2>1, <2>2 DEF HistoryIsTail
<1>. QED
  BY <1>4, <1>7, <1>8, <1>11

LEMMA TypeStep == BusInv /\ [BusNext]_busVars => BusTypeOK'
<1>. SUFFICES ASSUME BusInv, [BusNext]_busVars PROVE BusTypeOK'
  OBVIOUS
<1>0. \A p \in Publishers, m \in Messages :
        Publish(p, m) => history' \in Seq(Events) /\ Len(history') <= HistorySize
  BY PublishHistory DEF BusInv
<1>. USE DEF BusInv, BusTypeOK, publishing, stream
<1>1. ASSUME NEW p \in Publishers, NEW m \in Messages, Publish(p, m)
      PROVE  BusTypeOK'
  <2>1. history' \in Seq(Events) /\ Len(history') <= HistorySize
    BY <1>0, <1>1
  <2>2. [n |-> count + 1, msg |-> m] \in Events
    BY DEF Events
  <2>. QED
    BY <1>1, <2>1, <2>2 DEF Publish
<1>2. ASSUME NEW p \in Publishers, NEW s \in Streams, Offer(p, s)
      PROVE  BusTypeOK'
  <2>1. due' \in [Publishers -> SUBSET Streams]
    BY <1>2 DEF Offer
  <2>2. CASE /\ Len(feed[s]) < Buffer /\ UNCHANGED lost
             /\ feed' = [feed EXCEPT ![s] = Append(@, ev[p])]
    <3>1. Append(feed[s], ev[p]) \in Seq(Events) /\ Len(Append(feed[s], ev[p])) = Len(feed[s]) + 1
      BY AppendProperties
    <3>2. Len(feed[s]) + 1 <= Buffer
      BY <2>2, EventBusAssumption, LenProperties
    <3>. QED
      BY <1>2, <2>1, <2>2, <3>1, <3>2 DEF Offer
  <2>3. CASE lost' = [lost EXCEPT ![s] = TRUE] /\ UNCHANGED feed
    BY <1>2, <2>1, <2>3 DEF Offer
  <2>. QED
    BY <1>2, <2>2, <2>3 DEF Offer
<1>3. ASSUME NEW p \in Publishers, Published(p)
      PROVE  BusTypeOK'
  BY <1>3, NoEventType DEF Published
<1>4. ASSUME NEW s \in Streams, Subscribe(s)
      PROVE  BusTypeOK'
  BY <1>4 DEF Subscribe
<1>5. ASSUME NEW s \in Streams, Replay(s)
      PROVE  BusTypeOK'
  <2>1. Recent(ReplaySize) \in Seq(Events)
    BY LastOfSeq, EventBusAssumption DEF Recent
  <2>2. Len(Recent(ReplaySize)) \in Nat
    BY <2>1, LenProperties
  <2>. QED
    BY <1>5, <2>1, <2>2 DEF Replay
<1>6. ASSUME NEW s \in Streams, Deliver(s)
      PROVE  BusTypeOK'
  <2>1. /\ Head(feed[s]) \in Events /\ Tail(feed[s]) \in Seq(Events)
        /\ Len(Tail(feed[s])) = Len(feed[s]) - 1
    BY <1>6, HeadTailProperties DEF Deliver
  <2>2. Append(sent[s], Head(feed[s])) \in Seq(Events)
    BY <2>1, AppendProperties
  <2>3. Len(feed[s]) - 1 <= Buffer
    BY LenProperties, EventBusAssumption
  <2>. QED
    BY <1>6, <2>1, <2>2, <2>3 DEF Deliver
<1>7. ASSUME NEW s \in Streams, Unsubscribe(s)
      PROVE  BusTypeOK'
  BY <1>7, EmptySeq, EventBusAssumption DEF Unsubscribe
<1>8. CASE UNCHANGED busVars
  BY <1>8 DEF busVars
<1>. QED
  BY <1>1, <1>2, <1>3, <1>4, <1>5, <1>6, <1>7, <1>8 DEF BusNext, StreamStep

LEMMA PublisherStep ==
  BusInv /\ [BusNext]_busVars => OnePublisher' /\ NeverSentClosed'
<1>. SUFFICES ASSUME BusInv, [BusNext]_busVars PROVE OnePublisher' /\ NeverSentClosed'
  OBVIOUS
<1>. USE EventBusAssumption DEF BusInv, BusTypeOK, OnePublisher, NeverSentClosed, publishing
<1>1. ASSUME NEW p \in Publishers, NEW m \in Messages, Publish(p, m)
      PROVE  OnePublisher' /\ NeverSentClosed'
  <2>1. \A q \in Publishers : ev[q] = NoEvent /\ due[q] = {}
    BY <1>1, FreeMutex DEF Publish
  <2>2. ev'[p].n = count' /\ lock' = p /\ ev'[p] # NoEvent /\ due'[p] = subs /\ subs' = subs
    BY <1>1 DEF Publish, NoEvent
  <2>3. \A q \in Publishers \ {p} : ev'[q] = NoEvent /\ due'[q] = {}
    BY <1>1, <2>1 DEF Publish
  <2>. QED
    BY <2>2, <2>3
<1>2. ASSUME NEW p \in Publishers, NEW s \in Streams, Offer(p, s)
      PROVE  OnePublisher' /\ NeverSentClosed'
  BY <1>2 DEF Offer
<1>3. ASSUME NEW p \in Publishers, Published(p)
      PROVE  OnePublisher' /\ NeverSentClosed'
  <2>1. \A q \in Publishers \ {p} : ev[q] = NoEvent
    BY <1>3 DEF Published
  <2>. QED
    BY <1>3, <2>1 DEF Published
<1>4. ASSUME NEW s \in Streams, Subscribe(s)
      PROVE  OnePublisher' /\ NeverSentClosed'
  BY <1>4 DEF Subscribe
<1>5. ASSUME NEW s \in Streams, Replay(s) \/ Deliver(s)
      PROVE  OnePublisher' /\ NeverSentClosed'
  BY <1>5 DEF Replay, Deliver
<1>6. ASSUME NEW s \in Streams, Unsubscribe(s)
      PROVE  OnePublisher' /\ NeverSentClosed'
  <2>1. \A q \in Publishers : ev[q] = NoEvent /\ due[q] = {}
    BY <1>6, FreeMutex DEF Unsubscribe
  <2>. QED
    BY <1>6, <2>1 DEF Unsubscribe
<1>7. CASE UNCHANGED busVars
  BY <1>7 DEF busVars
<1>. QED
  BY <1>1, <1>2, <1>3, <1>4, <1>5, <1>6, <1>7 DEF BusNext, StreamStep

LEMMA HistoryStep == BusInv /\ [BusNext]_busVars => HistoryIsTail'
<1>. SUFFICES ASSUME BusInv, [BusNext]_busVars PROVE HistoryIsTail'
  OBVIOUS
<1>1. ASSUME NEW p \in Publishers, NEW m \in Messages, Publish(p, m)
      PROVE  HistoryIsTail'
  BY <1>1, PublishHistory DEF BusInv
<1>2. CASE UNCHANGED <<count, history>>
  BY <1>2 DEF BusInv, HistoryIsTail
<1>. QED
  BY <1>1, <1>2
  DEF BusNext, StreamStep, Offer, Published, Subscribe, Replay, Deliver, Unsubscribe, busVars

LEMMA PhasesStep == BusInv /\ [BusNext]_busVars => Phases'
<1>. SUFFICES ASSUME BusInv, [BusNext]_busVars PROVE Phases'
  OBVIOUS
<1>. USE DEF BusInv, BusTypeOK, Phases, publishing, stream
<1>1. ASSUME NEW p \in Publishers, NEW m \in Messages, Publish(p, m)
      PROVE  Phases'
  BY <1>1 DEF Publish
<1>2. ASSUME NEW p \in Publishers, NEW s \in Streams, Offer(p, s)
      PROVE  Phases'
  <2>1. phase[s] # "away"
    BY <1>2 DEF Offer, NeverSentClosed
  <2>. QED
    BY <1>2, <2>1 DEF Offer
<1>3. ASSUME NEW p \in Publishers, Published(p)
      PROVE  Phases'
  BY <1>3 DEF Published
<1>4. ASSUME NEW s \in Streams, Subscribe(s)
      PROVE  Phases'
  BY <1>4 DEF Subscribe
<1>5. ASSUME NEW s \in Streams, Replay(s)
      PROVE  Phases'
  <2>1. Recent(ReplaySize) \in Seq(Events)
    BY LastOfSeq, EventBusAssumption DEF Recent
  <2>2. Len(Recent(ReplaySize)) \in Nat
    BY <2>1, LenProperties
  <2>. QED
    BY <1>5, <2>2 DEF Replay
<1>6. ASSUME NEW s \in Streams, Deliver(s)
      PROVE  Phases'
  <2>1. Head(feed[s]) \in Events
    BY <1>6, HeadTailProperties DEF Deliver
  <2>2. Len(Append(sent[s], Head(feed[s]))) = Len(sent[s]) + 1 /\ Len(sent[s]) \in Nat
    BY <2>1, AppendProperties, LenProperties
  <2>. QED
    BY <1>6, <2>2 DEF Deliver
<1>7. ASSUME NEW s \in Streams, Unsubscribe(s)
      PROVE  Phases'
  <2>1. Len(<<>>) = 0
    BY EmptySeq
  <2>. QED
    BY <1>7, <2>1 DEF Unsubscribe
<1>8. CASE UNCHANGED busVars
  BY <1>8 DEF busVars
<1>. QED
  BY <1>1, <1>2, <1>3, <1>4, <1>5, <1>6, <1>7, <1>8 DEF BusNext, StreamStep

(* How a step changes what a client has got and will get. *)
LEMMA GotStays ==
  ASSUME BusTypeOK, NEW t \in Streams, UNCHANGED <<sent, feed>>
  PROVE  Got(t)' = Got(t) /\ Numbers(Got(t))' = Numbers(Got(t))
BY DEF Got, Numbers

LEMMA OfferGot ==
  ASSUME BusInv, NEW p \in Publishers, NEW s \in Streams, Offer(p, s), NEW t \in Streams
  PROVE  /\ ev[p] \in Events /\ ev[p].n = count /\ lock = p
         /\ t # s => Got(t)' = Got(t) /\ lost'[t] = lost[t]
         /\ t = s => \/ Got(t)' = Append(Got(t), ev[p]) /\ lost'[t] = lost[t]
                     \/ Got(t)' = Got(t) /\ lost'[t]
<1>. USE DEF BusInv, BusTypeOK
<1>1. ev[p] \in Events /\ ev[p].n = count /\ lock = p
  BY DEF Offer, OnePublisher
<1>2. t # s => Got(t)' = Got(t) /\ lost'[t] = lost[t]
  BY DEF Offer, Got
<1>3. sent[s] \o Append(feed[s], ev[p]) = Append(sent[s] \o feed[s], ev[p])
  BY <1>1, OfferAppends
<1>4. ASSUME t = s
      PROVE  \/ Got(t)' = Append(Got(t), ev[p]) /\ lost'[t] = lost[t]
             \/ Got(t)' = Got(t) /\ lost'[t]
  BY <1>3, <1>4 DEF Offer, Got, stream
<1>. QED
  BY <1>1, <1>2, <1>4

LEMMA ReplayGot ==
  ASSUME BusInv, NEW s \in Streams, Replay(s), NEW t \in Streams
  PROVE  /\ t # s => Got(t)' = Got(t)
         /\ Got(s) = feed[s] /\ Got(s)' = Recent(ReplaySize) \o feed[s]
         /\ feed[s] \in Seq(Events) /\ Recent(ReplaySize) \in Seq(Events)
<1>. USE DEF BusInv, BusTypeOK
<1>1. t # s => Got(t)' = Got(t)
  BY DEF Replay, Got
<1>2. feed[s] \in Seq(Events) /\ sent[s] = <<>>
  BY DEF Replay, Phases
<1>3. Got(s) = feed[s]
  BY <1>2, ConcatEmptySeq DEF Got
<1>4. Got(s)' = Recent(ReplaySize) \o feed[s]
  BY DEF Replay, Got
<1>5. Recent(ReplaySize) \in Seq(Events)
  BY LastOfSeq, EventBusAssumption DEF Recent
<1>. QED
  BY <1>1, <1>2, <1>3, <1>4, <1>5

LEMMA UnsubscribeGot ==
  ASSUME BusInv, NEW s \in Streams, Unsubscribe(s), NEW t \in Streams
  PROVE  (t # s => Got(t)' = Got(t)) /\ Got(s)' = <<>>
<1>. USE DEF BusInv, BusTypeOK
<1>1. <<>> \o <<>> = <<>>
  BY ConcatEmptySeq, EmptySeq
<1>. QED
  BY <1>1 DEF Unsubscribe, Got

(* The numbers a replay hands over. *)
LEMMA RecentNumbers ==
  ASSUME BusTypeOK, HistoryIsTail, NEW n \in Nat
  PROVE  \E k \in 0 .. count : Numbers(Recent(n)) = count - k + 1 .. count
<1>. DEFINE r == Recent(n)
<1>1. /\ r \in Seq(Events) /\ Len(r) <= count
      /\ \A i \in 1 .. Len(r) : r[i].n = count - Len(r) + i
  BY RecentIsTail
<1>. HIDE DEF r
<1>2. DOMAIN r = 1 .. Len(r) /\ Len(r) \in Nat /\ count \in Nat
  BY <1>1, LenProperties DEF BusTypeOK
<1>3. Numbers(r) = {count - Len(r) + i : i \in 1 .. Len(r)}
  BY <1>1, <1>2 DEF Numbers
<1>4. {count - Len(r) + i : i \in 1 .. Len(r)} = count - Len(r) + 1 .. count
  <2>1. ASSUME NEW k \in count - Len(r) + 1 .. count
        PROVE  k \in {count - Len(r) + i : i \in 1 .. Len(r)}
    <3>1. k - (count - Len(r)) \in 1 .. Len(r) /\ k = count - Len(r) + (k - (count - Len(r)))
      BY <1>2
    <3>. QED
      BY <3>1
  <2>2. ASSUME NEW i \in 1 .. Len(r)
        PROVE  count - Len(r) + i \in count - Len(r) + 1 .. count
    BY <1>2
  <2>. QED
    BY <2>1, <2>2
<1>. QED
  BY <1>1, <1>2, <1>3, <1>4 DEF r

LEMMA KnownStep == BusInv /\ [BusNext]_busVars => Known'
<1>. SUFFICES ASSUME BusInv, [BusNext]_busVars,
                     NEW t \in Streams, NEW k \in Numbers(Got(t))'
              PROVE  /\ k <= count'
                     /\ \A p \in Publishers : t \in due'[p] => k < count'
  BY DEF Known
<1>0. /\ count \in Nat
      /\ Numbers(Got(t)) \subseteq Nat
      /\ \A j \in Numbers(Got(t)) :
           j <= count /\ \A p \in Publishers : t \in due[p] => j < count
  BY GotType, NumbersAreNat DEF BusInv, BusTypeOK, Known
<1>1. ASSUME NEW p \in Publishers, NEW m \in Messages, Publish(p, m)
      PROVE  k <= count' /\ k < count'
  <2>1. Numbers(Got(t))' = Numbers(Got(t)) /\ count' = count + 1
    BY <1>1, GotStays DEF Publish, BusInv
  <2>2. k \in Nat /\ k <= count
    BY <2>1, <1>0
  <2>. QED
    BY <2>1, <2>2, <1>0
<1>2. ASSUME NEW p \in Publishers, NEW s \in Streams, Offer(p, s)
      PROVE  /\ k <= count'
             /\ \A q \in Publishers : t \in due'[q] => k < count'
  <2>1. /\ count' = count
        /\ \A q \in Publishers : due'[q] \subseteq due[q]
        /\ s \notin due'[p]
    BY <1>2 DEF Offer, BusInv, BusTypeOK
  <2>2. \A q \in Publishers : q # p => due[q] = {}
    BY <1>2, OfferGot DEF BusInv, OnePublisher
  <2>3. CASE Got(t)' = Got(t)
    <3>1. k \in Numbers(Got(t))
      BY <2>3 DEF Numbers
    <3>. QED
      BY <3>1, <2>1, <1>0
  <2>4. CASE t = s /\ Got(t)' = Append(Got(t), ev[p])
    <3>1. Numbers(Append(Got(t), ev[p])) = Numbers(Got(t)) \cup {count}
      <4>1. ev[p] \in Events /\ ev[p].n = count
        BY <1>2, OfferGot
      <4>2. Got(t) \in Seq(Events)
        BY GotType DEF BusInv
      <4>. QED
        BY <4>1, <4>2, NumbersAppend
    <3>2. k \in Numbers(Append(Got(t), ev[p]))
      BY <2>4 DEF Numbers
    <3>3. k <= count
      BY <3>1, <3>2, <1>0
    <3>. QED
      BY <3>3, <2>1, <2>2, <2>4
  <2>. QED
    BY <1>2, <2>3, <2>4, OfferGot
<1>3. ASSUME NEW s \in Streams, Replay(s)
      PROVE  k <= count' /\ \A p \in Publishers : due'[p] = {}
  <2>1. count' = count /\ \A p \in Publishers : due'[p] = {}
    BY <1>3, FreeMutex DEF Replay, publishing
  <2>2. CASE t # s
    <3>1. k \in Numbers(Got(t))
      BY <1>3, <2>2, ReplayGot DEF Numbers
    <3>. QED
      BY <3>1, <2>1, <1>0
  <2>3. CASE t = s
    <3>1. k \in Numbers(Recent(ReplaySize) \o feed[s])
      BY <1>3, <2>3, ReplayGot DEF Numbers
    <3>2. k \in Numbers(Recent(ReplaySize)) \/ k \in Numbers(Got(t))
      BY <3>1, <1>3, <2>3, ReplayGot, NumbersConcat
    <3>3. PICK r \in 0 .. count : Numbers(Recent(ReplaySize)) = count - r + 1 .. count
      BY RecentNumbers, EventBusAssumption DEF BusInv
    <3>4. Numbers(Recent(ReplaySize)) \subseteq 0 .. count
      BY <3>3, <1>0
    <3>. QED
      BY <3>2, <3>4, <2>1, <1>0
  <2>. QED
    BY <2>1, <2>2, <2>3
<1>4. ASSUME NEW s \in Streams, Unsubscribe(s)
      PROVE  k \in Numbers(Got(t)) /\ count' = count /\ due' = due
  <2>1. CASE t # s
    BY <1>4, <2>1, UnsubscribeGot DEF Numbers, Unsubscribe, publishing
  <2>2. CASE t = s
    BY <1>4, <2>2, UnsubscribeGot DEF Numbers
  <2>. QED
    BY <2>1, <2>2
<1>5. ASSUME NEW s \in Streams, Deliver(s)
      PROVE  k \in Numbers(Got(t)) /\ count' = count /\ due' = due
  BY <1>5, DeliverKeepsGot DEF Numbers, Deliver, publishing, BusInv
<1>6. CASE UNCHANGED <<sent, feed, count, due>>
  BY <1>6, <1>0, GotStays DEF BusInv
<1>. QED
  BY <1>0, <1>1, <1>2, <1>3, <1>4, <1>5, <1>6
  DEF BusNext, StreamStep, Published, Subscribe, busVars, publishing, stream

LEMMA BusInvStep == BusInv /\ [BusNext]_busVars => BusInv'
BY TypeStep, PublisherStep, PhasesStep, HistoryStep, KnownStep DEF BusInv
-----------------------------------------------------------------------------
(* NoGap of one stream. *)
Gapless(s) ==
  \/ phase[s] = "subscribed" /\ Reaches(s) = from[s] + 1 .. count
  \/ phase[s] = "live" /\ \E first \in 1 .. from[s] + 1 : Reaches(s) = first .. count

LEMMA NoGapOf == NoGap <=> \A s \in subs : ~lost[s] => Gapless(s)
BY DEF NoGap, Gapless

(* While the mutex is free nothing is being offered. *)
LEMMA ReachesGot ==
  ASSUME BusInv, NEW s \in Streams, lock = Nobody
  PROVE  Reaches(s) = Numbers(Got(s))
BY FreeMutex DEF Reaches

LEMMA GapStep == BusInv /\ NoGap /\ [BusNext]_busVars => NoGap'
<1>. SUFFICES ASSUME BusInv, NoGap, [BusNext]_busVars, NEW t \in subs', ~lost'[t]
              PROVE  Gapless(t)'
  BY NoGapOf DEF NoGap, Gapless
<1>0. /\ t \in Streams /\ count \in Nat /\ from[t] \in Nat /\ from[t] <= count
      /\ t \in subs /\ ~lost[t] => Gapless(t)
  <2>1. t \in Streams
    BY TypeStep DEF BusTypeOK
  <2>. QED
    BY <2>1, NoGapOf DEF BusInv, BusTypeOK, Phases
<1>1. ASSUME NEW p \in Publishers, NEW m \in Messages, Publish(p, m)
      PROVE  Gapless(t)'
  <2>1. t \in subs /\ ~lost[t] /\ UNCHANGED <<phase, from>> /\ count' = count + 1
    BY <1>1 DEF Publish, stream
  <2>2. Numbers(Got(t))' = Numbers(Got(t))
    BY <1>0, <1>1, GotStays DEF Publish, BusInv
  <2>3. {q \in Publishers : t \in due'[q]} = {p}
    BY <1>1, <2>1, FreeMutex DEF Publish, BusInv, BusTypeOK
  <2>4. ev'[p].n = count + 1
    BY <1>1 DEF Publish, BusInv, BusTypeOK
  <2>5. Reaches(t)' = Numbers(Got(t)) \cup {count + 1}
    BY <2>2, <2>3, <2>4 DEF Reaches
  <2>6. Reaches(t)' = Reaches(t) \cup {count + 1}
    BY <1>0, <1>1, <2>5, ReachesGot DEF Publish
  <2>7. CASE phase[t] = "subscribed" /\ Reaches(t) = from[t] + 1 .. count
    <3>1. Reaches(t)' = from[t] + 1 .. count + 1
      BY <1>0, <2>6, <2>7
    <3>. QED
      BY <3>1, <2>1, <2>7 DEF Gapless
  <2>8. CASE phase[t] = "live" /\ \E first \in 1 .. from[t] + 1 : Reaches(t) = first .. count
    <3>1. PICK first \in 1 .. from[t] + 1 : Reaches(t) = first .. count
      BY <2>8
    <3>2. Reaches(t)' = first .. count + 1
      BY <1>0, <2>6, <3>1
    <3>. QED
      BY <3>2, <2>1, <2>8 DEF Gapless
  <2>. QED
    BY <1>0, <2>1, <2>7, <2>8 DEF Gapless
<1>2. ASSUME UNCHANGED <<subs, lost, phase, from, count>>, Reaches(t)' = Reaches(t)
      PROVE  Gapless(t)'
  BY <1>0, <1>2 DEF Gapless
<1>3. ASSUME NEW p \in Publishers, NEW s \in Streams, Offer(p, s)
      PROVE  Gapless(t)'
  <2>1. /\ UNCHANGED <<subs, phase, from, count, ev>>
        /\ due[p] \subseteq Streams /\ s \in due[p]
        /\ due' = [due EXCEPT ![p] = @ \ {s}] /\ due \in [Publishers -> SUBSET Streams]
    BY <1>3 DEF Offer, stream, BusInv, BusTypeOK
  <2>2. ev[p].n = count /\ ev[p] \in Events /\ \A q \in Publishers : q # p => due[q] = {}
    BY <1>3, OfferGot DEF BusInv, OnePublisher
  <2>3. CASE t # s
    <3>1. Got(t)' = Got(t) /\ lost'[t] = lost[t]
      BY <1>0, <1>3, <2>3, OfferGot
    <3>2. \A q \in Publishers : t \in due'[q] <=> t \in due[q]
      BY <2>1, <2>3
    <3>3. Reaches(t)' = Reaches(t)
      BY <3>1, <3>2, <2>1 DEF Reaches, Numbers
    <3>. QED
      BY <1>0, <2>1, <3>1, <3>3 DEF Gapless
  <2>4. CASE t = s
    <3>1. Got(t)' = Append(Got(t), ev[p]) /\ ~lost[t]
      BY <1>0, <1>3, <2>4, OfferGot
    <3>2. Got(t) \in Seq(Events)
      BY <1>0, GotType DEF BusInv
    <3>3. Numbers(Append(Got(t), ev[p])) = Numbers(Got(t)) \cup {count}
      BY <2>2, <3>2, NumbersAppend
    <3>4. Numbers(Got(t))' = Numbers(Got(t)) \cup {count}
      BY <3>1, <3>3 DEF Numbers
    <3>5. {q \in Publishers : t \in due'[q]} = {} /\ {q \in Publishers : t \in due[q]} = {p}
      BY <2>1, <2>2, <2>4
    <3>6. Reaches(t) = Numbers(Got(t)) \cup {count}
      BY <2>2, <3>5 DEF Reaches
    <3>7. Reaches(t)' = Numbers(Got(t))'
      BY <3>5 DEF Reaches
    <3>. QED
      BY <1>0, <2>1, <3>1, <3>4, <3>6, <3>7 DEF Gapless
  <2>. QED
    BY <2>3, <2>4
<1>4. ASSUME NEW p \in Publishers, Published(p)
      PROVE  Gapless(t)'
  <2>1. /\ UNCHANGED <<subs, lost, phase, from, count, due, sent, feed>> /\ due[p] = {}
        /\ \A q \in Publishers : q # p => ev'[q] = ev[q]
    BY <1>4 DEF Published, stream, BusInv, BusTypeOK
  <2>2. Numbers(Got(t))' = Numbers(Got(t))
    BY <1>0, <2>1, GotStays DEF BusInv
  <2>3. Reaches(t)' = Reaches(t)
    BY <2>1, <2>2 DEF Reaches
  <2>. QED
    BY <1>2, <2>1, <2>3
<1>5. ASSUME NEW s \in Streams, Subscribe(s)
      PROVE  Gapless(t)'
  <2>1. UNCHANGED <<lost, count, due, ev, sent, feed>> /\ lock = Nobody
    BY <1>5 DEF Subscribe, publishing
  <2>2. Numbers(Got(t))' = Numbers(Got(t)) /\ \A q \in Publishers : due[q] = {}
    BY <1>0, <2>1, GotStays, FreeMutex DEF BusInv
  <2>3. Reaches(t)' = Reaches(t) /\ Reaches(t) = Numbers(Got(t))
    BY <2>1, <2>2 DEF Reaches
  <2>4. CASE t # s
    BY <1>0, <1>5, <2>1, <2>3, <2>4 DEF Subscribe, Gapless, BusInv, BusTypeOK
  <2>5. CASE t = s
    <3>1. Got(t) = <<>>
      <4>1. sent[t] = <<>> /\ feed[t] = <<>>
        BY <1>0, <1>5, <2>5 DEF Subscribe, BusInv, Phases
      <4>. QED
        BY <4>1, ConcatEmptySeq, EmptySeq DEF Got
    <3>2. Reaches(t)' = {}
      BY <3>1, <2>3, NumbersEmpty
    <3>3. phase'[t] = "subscribed" /\ from'[t] = count /\ count' = count
      BY <1>0, <1>5, <2>5 DEF Subscribe, BusInv, BusTypeOK
    <3>4. count + 1 .. count = {}
      BY <1>0
    <3>. QED
      BY <3>2, <3>3, <3>4 DEF Gapless
  <2>. QED
    BY <2>4, <2>5
<1>6. ASSUME NEW s \in Streams, Replay(s)
      PROVE  Gapless(t)'
  <2>1. UNCHANGED <<lost, count, due, ev, feed, from, subs>> /\ lock = Nobody
    BY <1>6 DEF Replay, publishing
  <2>2. \A q \in Publishers : due[q] = {}
    BY <2>1, FreeMutex
  <2>3. Reaches(t)' = Numbers(Got(t))' /\ Reaches(t) = Numbers(Got(t))
    BY <2>1, <2>2 DEF Reaches
  <2>4. CASE t # s
    <3>1. Got(t)' = Got(t) /\ phase'[t] = phase[t]
      BY <1>0, <1>6, <2>4, ReplayGot DEF Replay, BusInv, BusTypeOK
    <3>2. Reaches(t)' = Reaches(t)
      BY <2>3, <3>1 DEF Numbers
    <3>. QED
      BY <1>0, <2>1, <3>1, <3>2 DEF Gapless
  <2>5. CASE t = s
    <3>1. phase[t] = "subscribed" /\ phase'[t] = "live"
      BY <1>0, <1>6, <2>5 DEF Replay, BusInv, BusTypeOK
    <3>2. Reaches(t) = from[t] + 1 .. count
      BY <1>0, <2>1, <3>1 DEF Gapless
    <3>3. /\ Got(t)' = Recent(ReplaySize) \o feed[s] /\ Got(t) = feed[s]
          /\ feed[s] \in Seq(Events) /\ Recent(ReplaySize) \in Seq(Events)
      BY <1>6, <2>5, ReplayGot
    <3>4. Numbers(Recent(ReplaySize) \o feed[s]) = Numbers(Recent(ReplaySize)) \cup Numbers(feed[s])
      BY <3>3, NumbersConcat
    <3>5. Numbers(Got(t))' = Numbers(Recent(ReplaySize)) \cup Numbers(Got(t))
      BY <3>3, <3>4 DEF Numbers
    <3>6. PICK k \in 0 .. count : Numbers(Recent(ReplaySize)) = count - k + 1 .. count
      BY RecentNumbers, EventBusAssumption DEF BusInv
    <3>7. Reaches(t)' = (count - k + 1 .. count) \cup (from[t] + 1 .. count)
      BY <2>3, <3>2, <3>5, <3>6
    <3>8. PICK first \in 1 .. from[t] + 1 : Reaches(t)' = first .. count
      <4>1. CASE count - k + 1 <= from[t] + 1
        <5>1. Reaches(t)' = count - k + 1 .. count /\ count - k + 1 \in 1 .. from[t] + 1
          BY <1>0, <3>7, <4>1
        <5>. QED
          BY <5>1
      <4>2. CASE ~(count - k + 1 <= from[t] + 1)
        <5>1. Reaches(t)' = from[t] + 1 .. count /\ from[t] + 1 \in 1 .. from[t] + 1
          BY <1>0, <3>7, <4>2
        <5>. QED
          BY <5>1
      <4>. QED
        BY <4>1, <4>2
    <3>. QED
      BY <2>1, <3>1, <3>8 DEF Gapless
  <2>. QED
    BY <2>4, <2>5
<1>7. ASSUME NEW s \in Streams, Deliver(s)
      PROVE  Gapless(t)'
  <2>1. UNCHANGED <<subs, lost, phase, from, count, due, ev>>
    BY <1>7 DEF Deliver, stream, publishing
  <2>2. Got(t)' = Got(t)
    BY <1>0, <1>7, DeliverKeepsGot DEF BusInv
  <2>3. Reaches(t)' = Reaches(t)
    BY <2>1, <2>2 DEF Reaches, Numbers
  <2>. QED
    BY <1>2, <2>1, <2>3
<1>8. ASSUME NEW s \in Streams, Unsubscribe(s)
      PROVE  Gapless(t)'
  <2>1. t # s /\ t \in subs
    BY <1>8 DEF Unsubscribe
  <2>2. /\ UNCHANGED <<count, due, ev>>
        /\ phase'[t] = phase[t] /\ from'[t] = from[t] /\ lost'[t] = lost[t]
    BY <1>0, <1>8, <2>1 DEF Unsubscribe, publishing, BusInv, BusTypeOK
  <2>3. Got(t)' = Got(t)
    BY <1>0, <1>8, <2>1, UnsubscribeGot
  <2>4. Reaches(t)' = Reaches(t)
    BY <2>2, <2>3 DEF Reaches, Numbers
  <2>. QED
    BY <1>0, <2>1, <2>2, <2>4 DEF Gapless
<1>9. CASE UNCHANGED busVars
  <2>1. UNCHANGED <<subs, lost, phase, from, count, due, ev, sent, feed>>
    BY <1>9 DEF busVars, stream, publishing
  <2>2. Numbers(Got(t))' = Numbers(Got(t))
    BY <1>0, <2>1, GotStays DEF BusInv
  <2>3. Reaches(t)' = Reaches(t)
    BY <2>1, <2>2 DEF Reaches
  <2>. QED
    BY <1>2, <2>1, <2>3
<1>. QED
  BY <1>1, <1>3, <1>4, <1>5, <1>6, <1>7, <1>8, <1>9 DEF BusNext, StreamStep
-----------------------------------------------------------------------------
(* InOrder of one stream, as a predicate of a sequence and of how much of it
   was replayed. *)
Rising(q, k) ==
  \A i, j \in DOMAIN q : i < j /\ (j <= k \/ k < i) => q[i].n < q[j].n

LEMMA OrderStep == BusInv /\ InOrder /\ [BusNext]_busVars => InOrder'
<1>. SUFFICES ASSUME BusInv, InOrder, [BusNext]_busVars, NEW t \in Streams
              PROVE  Rising(Got(t)', replayed'[t])
  BY DEF InOrder, Rising
<1>0. /\ Rising(Got(t), replayed[t]) /\ Got(t) \in Seq(Events)
      /\ replayed[t] \in Nat /\ count \in Nat
  BY GotType DEF InOrder, Rising, BusInv, BusTypeOK
<1>1. CASE Got(t)' = Got(t) /\ replayed'[t] = replayed[t]
  BY <1>0, <1>1
<1>2. ASSUME NEW p \in Publishers, NEW s \in Streams, Offer(p, s)
      PROVE  Rising(Got(t)', replayed'[t])
  <2>1. replayed' = replayed /\ s \in due[p]
    BY <1>2 DEF Offer, stream
  <2>2. CASE Got(t)' = Got(t)
    BY <1>0, <2>1, <2>2
  <2>3. CASE t = s /\ Got(t)' = Append(Got(t), ev[p])
    <3>. DEFINE q == Got(t)
                r == Append(Got(t), ev[p])
    <3>1. ev[p] \in Events /\ ev[p].n = count
      BY <1>2, OfferGot
    <3>2. /\ r \in Seq(Events) /\ Len(r) = Len(q) + 1
          /\ \A i \in 1 .. Len(q) : r[i] = q[i]
          /\ r[Len(q) + 1] = ev[p]
      BY <1>0, <3>1, AppendProperties
    <3>3. DOMAIN q = 1 .. Len(q) /\ Len(q) \in Nat /\ DOMAIN r = 1 .. Len(r)
      BY <1>0, <3>2, LenProperties
    <3>4. \A i \in 1 .. Len(q) : q[i].n < count
      BY <2>1, <2>3, <3>3 DEF BusInv, Known, Numbers
    <3>. HIDE DEF q, r
    <3>5. ASSUME NEW i \in DOMAIN r, NEW j \in DOMAIN r,
                 i < j, j <= replayed[t] \/ replayed[t] < i
          PROVE  r[i].n < r[j].n
      <4>1. i \in 1 .. Len(q) /\ r[i] = q[i]
        BY <3>2, <3>3, <3>5
      <4>2. CASE j \in 1 .. Len(q)
        <5>1. r[j] = q[j]
          BY <3>2, <4>2
        <5>. QED
          BY <1>0, <3>3, <3>5, <4>1, <4>2, <5>1 DEF Rising, q
      <4>3. CASE j = Len(q) + 1
        BY <3>1, <3>2, <3>4, <4>1, <4>3
      <4>. QED
        BY <3>2, <3>3, <4>2, <4>3
    <3>6. Rising(r, replayed[t])
      BY <3>5 DEF Rising
    <3>. QED
      BY <2>1, <2>3, <3>6 DEF r
  <2>. QED
    BY <1>2, <2>2, <2>3, OfferGot
<1>3. ASSUME NEW s \in Streams, Replay(s)
      PROVE  Rising(Got(t)', replayed'[t])
  <2>1. CASE t # s
    BY <1>0, <1>3, <2>1, ReplayGot DEF Replay, BusInv, BusTypeOK
  <2>2. CASE t = s
    <3>. DEFINE r == Recent(ReplaySize)
                f == feed[s]
                a == r \o f
    <3>1. /\ Got(t)' = a /\ Got(t) = f
          /\ f \in Seq(Events) /\ r \in Seq(Events)
      BY <1>3, <2>2, ReplayGot
    <3>2. replayed'[t] = Len(r) /\ replayed[t] = 0
      BY <1>3, <2>2 DEF Replay, BusInv, BusTypeOK, Phases
    <3>3. \A i \in 1 .. Len(r) : r[i].n = count - Len(r) + i
      BY RecentIsTail, EventBusAssumption DEF BusInv
    <3>. HIDE DEF r, f
    <3>4. /\ a \in Seq(Events) /\ Len(a) = Len(r) + Len(f)
          /\ \A i \in 1 .. Len(r) + Len(f) : a[i] = IF i <= Len(r) THEN r[i] ELSE f[i - Len(r)]
      BY <3>1, ConcatProperties
    <3>5. /\ Len(r) \in Nat /\ Len(f) \in Nat
          /\ DOMAIN f = 1 .. Len(f) /\ DOMAIN a = 1 .. Len(a)
      BY <3>1, <3>4, LenProperties
    <3>. HIDE DEF a
    <3>6. ASSUME NEW i \in DOMAIN a, NEW j \in DOMAIN a,
                 i < j, j <= Len(r) \/ Len(r) < i
          PROVE  a[i].n < a[j].n
      <4>0. i \in 1 .. Len(r) + Len(f) /\ j \in 1 .. Len(r) + Len(f)
        BY <3>4, <3>5
      <4>1. CASE j <= Len(r)
        <5>1. i \in 1 .. Len(r) /\ j \in 1 .. Len(r) /\ a[i] = r[i] /\ a[j] = r[j]
          BY <3>4, <3>5, <3>6, <4>0, <4>1
        <5>. QED
          BY <1>0, <3>3, <3>5, <3>6, <5>1
      <4>2. CASE Len(r) < i
        <5>1. /\ i - Len(r) \in 1 .. Len(f) /\ j - Len(r) \in 1 .. Len(f)
              /\ a[i] = f[i - Len(r)] /\ a[j] = f[j - Len(r)]
              /\ 0 < i - Len(r) /\ i - Len(r) < j - Len(r)
          BY <3>4, <3>5, <3>6, <4>0, <4>2
        <5>2. Rising(f, 0)
          BY <1>0, <3>1, <3>2
        <5>. QED
          BY <3>5, <5>1, <5>2 DEF Rising
      <4>. QED
        BY <3>6, <4>1, <4>2
    <3>7. Rising(a, Len(r))
      BY <3>6 DEF Rising
    <3>. QED
      BY <3>1, <3>2, <3>7
  <2>. QED
    BY <2>1, <2>2
<1>4. ASSUME NEW s \in Streams, Unsubscribe(s)
      PROVE  Rising(Got(t)', replayed'[t])
  <2>1. CASE t # s
    BY <1>0, <1>4, <2>1, UnsubscribeGot DEF Unsubscribe, BusInv, BusTypeOK
  <2>2. CASE t = s
    BY <1>4, <2>2, UnsubscribeGot DEF Rising
  <2>. QED
    BY <2>1, <2>2
<1>5. ASSUME NEW s \in Streams, Deliver(s)
      PROVE  Rising(Got(t)', replayed'[t])
  BY <1>0, <1>5, DeliverKeepsGot DEF Deliver, stream, BusInv
<1>6. CASE UNCHANGED <<sent, feed, replayed>>
  BY <1>0, <1>6, GotStays DEF BusInv
<1>. QED
  BY <1>2, <1>3, <1>4, <1>5, <1>6
  DEF BusNext, StreamStep, Publish, Published, Subscribe, busVars, stream
-----------------------------------------------------------------------------
(* The state of the bus and of its streams is well formed: the history and
   the channels never outgrow what events.go gives them. *)
THEOREM BusTypeCorrect == BusSpec => []BusTypeOK
<1>1. BusInit => BusInv
  BY BusStart
<1>2. BusInv /\ [BusNext]_busVars => BusInv'
  BY BusInvStep
<1>3. BusInv => BusTypeOK
  BY DEF BusInv
<1>. QED
  BY <1>1, <1>2, <1>3, PTL DEF BusSpec

(* Publish never sends on a channel that a stream has closed, however streams
   come and go between two sends. *)
THEOREM ClosedChannelsAreSafe == BusSpec => []NeverSentClosed
<1>1. BusInit => BusInv
  BY BusStart
<1>2. BusInv /\ [BusNext]_busVars => BusInv'
  BY BusInvStep
<1>3. BusInv => NeverSentClosed
  BY DEF BusInv
<1>. QED
  BY <1>1, <1>2, <1>3, PTL DEF BusSpec

(* A client that was never too slow for its channel misses nothing that was
   published since it connected: subscribing before replaying leaves no gap. *)
THEOREM StreamsHaveNoGap == BusSpec => []NoGap
<1>1. BusInit => BusInv /\ NoGap
  BY BusStart
<1>2. (BusInv /\ NoGap) /\ [BusNext]_busVars => (BusInv /\ NoGap)'
  BY BusInvStep, GapStep
<1>. QED
  BY <1>1, <1>2, PTL DEF BusSpec

(* What a client gets is in the order of publication, in the replay and after
   it, for any number of publishers at once. *)
THEOREM StreamsKeepOrder == BusSpec => []InOrder
<1>1. BusInit => BusInv /\ InOrder
  BY BusStart
<1>2. (BusInv /\ InOrder) /\ [BusNext]_busVars => (BusInv /\ InOrder)'
  BY BusInvStep, OrderStep
<1>. QED
  BY <1>1, <1>2, PTL DEF BusSpec

-----------------------------------------------------------------------------
(* Remote *)

LEMMA OverrideType ==
  ASSUME NEW s \in Statuses
  PROVE  Override(s) \in Statuses /\ Override(s).state = s.state
BY DEF Override, Statuses, URLs

LEMMA SetType ==
  ASSUME TypeOK, NEW g \in Setters, NEW s \in Statuses, Set(g, s)
  PROVE  /\ status' = Override(s) /\ status' \in Statuses /\ status'.state = s.state
         /\ news' \in [Setters -> Statuses \cup {Silence}]
BY OverrideType DEF Set, TypeOK

LEMMA StatusType ==
  ASSUME NEW s \in States, NEW u \in URLs
  PROVE  Status(s, u) \in Statuses /\ Status(s, u).state = s /\ Status(s, u).url = u
BY DEF Status, Statuses

LEMMA TailnetType == TailnetAnswers \subseteq Statuses
<1>1. \A u \in Nodes : Status("ready", u) \in Statuses
  BY StatusType DEF States, URLs
<1>2. Status("unavailable", NoURL) \in Statuses /\ Status("not installed", NoURL) \in Statuses
  BY StatusType DEF States, URLs
<1>. QED
  BY <1>1, <1>2 DEF TailnetAnswers

LEMMA TypeStart == Init => TypeOK
<1>. SUFFICES ASSUME Init PROVE TypeOK
  OBVIOUS
<1>1. Status(IF mode = "none" THEN "disabled" ELSE "starting", NoURL) \in Statuses
  BY StatusType DEF States, URLs
<1>2. status \in Statuses
  BY <1>1, OverrideType DEF Init
<1>3. tailnet \in Statuses
  <2>1. Status("unavailable", NoURL) \in Statuses
    BY StatusType DEF States, URLs
  <2>. QED
    BY <2>1, TailnetType DEF Init
<1>4. delay \in MinDelay .. MaxDelay /\ faults \in 0 .. MaxFaults
  BY RemoteAssumption DEF Init
<1>5. news \in [Setters -> Statuses \cup {Silence}] /\ line \in [Pipes -> Tunnels \cup {NoURL}]
  BY DEF Init
<1>. QED
  BY <1>2, <1>3, <1>4, <1>5 DEF Init, TypeOK

LEMMA RemoteTypeStep == TypeOK /\ [Next]_vars => TypeOK'
<1>. SUFFICES ASSUME TypeOK, [Next]_vars PROVE TypeOK'
  OBVIOUS
<1>. USE RemoteAssumption DEF TypeOK, At, manager, outside
<1>0. Manager \in Setters /\ Pipes \subseteq Setters
  BY DEF Setters
<1>1. \A s \in {"ready", "unavailable", "not installed", "starting"}, u \in {NoURL, "host"} \cup Tunnels :
        Status(s, u) \in Statuses
  BY StatusType DEF States, URLs
<1>2. CASE RunUnknown
  BY <1>0, <1>1, <1>2, SetType DEF RunUnknown
<1>3. CASE RunNone \/ StartTailscale \/ RefreshTailscale \/ Supervise \/ StartScanning \/ Reap \/ Return
  BY <1>3 DEF RunNone, StartTailscale, RefreshTailscale, Supervise, StartScanning, Reap, Return
<1>4. CASE CheckTailscale
  BY <1>0, <1>1, <1>4, SetType DEF CheckTailscale
<1>5. CASE ReportOnly
  <2>1. \E s \in Statuses : Set(Manager, s)
    BY <1>1, <1>5 DEF ReportOnly
  <2>2. status' \in Statuses /\ news' \in [Setters -> Statuses \cup {Silence}]
    BY <1>0, <2>1, SetType
  <2>. QED
    BY <1>5, <2>2 DEF ReportOnly
<1>6. CASE Launch
  <2>1. \E s \in Statuses : Set(Manager, s)
    BY <1>1, <1>6 DEF Launch
  <2>2. status' \in Statuses /\ news' \in [Setters -> Statuses \cup {Silence}]
    BY <1>0, <2>1, SetType
  <2>3. tunnel' \in Tunnels \cup {NoURL}
    BY <1>6 DEF Launch
  <2>. QED
    BY <1>6, <2>2, <2>3 DEF Launch
<1>7. CASE LaunchFails
  BY <1>7 DEF LaunchFails, Fault
<1>8. CASE Exited
  <2>1. status' \in Statuses /\ news' \in [Setters -> Statuses \cup {Silence}]
    BY <1>0, <1>1, <1>8, SetType DEF Exited
  <2>. QED
    BY <1>8, <2>1 DEF Exited
<1>9. CASE AfterDelay
  <2>1. delay' \in MinDelay .. MaxDelay
    BY <1>9 DEF AfterDelay
  <2>. QED
    BY <1>9, <2>1 DEF AfterDelay
<1>10. ASSUME NEW g \in Setters, Tell(g)
       PROVE  TypeOK'
  BY <1>10 DEF Tell
<1>11. ASSUME NEW x \in Pipes, Scan(x)
       PROVE  TypeOK'
  <2>1. Status("ready", line[x]) \in Statuses
    BY <1>1
  <2>2. status' \in Statuses /\ news' \in [Setters -> Statuses \cup {Silence}]
    BY <1>0, <1>11, <2>1, SetType DEF Scan
  <2>. QED
    BY <1>11, <2>2 DEF Scan
<1>12. ASSUME NEW x \in Pipes, ScanEnds(x) \/ ScanFails(x) \/ Announce(x)
       PROVE  TypeOK'
  BY <1>12 DEF ScanEnds, ScanFails, Announce, Fault
<1>13. CASE TailnetChanges
  <2>1. tailnet' \in Statuses
    BY <1>13, TailnetType DEF TailnetChanges
  <2>2. faults' \in 0 .. MaxFaults
    BY <1>13 DEF TailnetChanges, Fault
  <2>. QED
    BY <1>13, <2>1, <2>2 DEF TailnetChanges
<1>14. CASE ConnectorExits \/ Kill \/ Cancel
  <2>1. ASSUME Dies PROVE child' \in BOOLEAN
    <3>1. child' \in {FALSE, LeavesChild}
      BY <2>1 DEF Dies
    <3>. QED
      BY <3>1, Zenon
  <2>2. faults' \in 0 .. MaxFaults
    BY <1>14 DEF ConnectorExits, Kill, Cancel, Fault
  <2>3. CASE ConnectorExits \/ Kill
    BY <2>1, <2>2, <2>3 DEF ConnectorExits, Kill, Dies
  <2>4. CASE Cancel
    BY <2>4 DEF Cancel
  <2>. QED
    BY <1>14, <2>3, <2>4
<1>15. CASE Bus \/ UNCHANGED vars
  BY <1>15 DEF Bus, vars
<1>. QED
  BY <1>2, <1>3, <1>4, <1>5, <1>6, <1>7, <1>8, <1>9, <1>10, <1>11, <1>12, <1>13, <1>14, <1>15
  DEF Next, ManagerStep

(* The manager, its scanners and the rest of the daemon use the bus as it may
   be used: every step is a step of the bus or leaves it alone. *)
LEMMA BusStep == TypeOK /\ [Next]_vars => [BusNext]_busVars
<1>. SUFFICES ASSUME TypeOK, [Next]_vars PROVE [BusNext]_busVars
  OBVIOUS
<1>1. CASE ManagerStep
  BY <1>1 DEF ManagerStep, RunUnknown, RunNone, StartTailscale, CheckTailscale, RefreshTailscale,
              ReportOnly, Supervise, Launch, LaunchFails, StartScanning, Reap, Exited, AfterDelay, Return
<1>2. ASSUME NEW g \in Setters, Tell(g)
      PROVE  BusNext
  <2>1. g \in Publishers /\ news[g] \in Messages
    BY <1>2, RemoteAssumption, MessagesAssumption DEF TypeOK
  <2>. QED
    BY <1>2, <2>1 DEF Tell, BusNext
<1>3. ASSUME NEW x \in Pipes, Scan(x) \/ ScanEnds(x) \/ ScanFails(x) \/ Announce(x)
      PROVE  UNCHANGED busVars
  BY <1>3 DEF Scan, ScanEnds, ScanFails, Announce
<1>4. CASE TailnetChanges \/ ConnectorExits \/ Kill \/ Cancel
  BY <1>4 DEF TailnetChanges, ConnectorExits, Kill, Dies, Cancel
<1>5. CASE Bus
  <2>1. Chatter \in Messages
    BY MessagesAssumption
  <2>. QED
    BY <1>5, <2>1 DEF Bus, Others, BusNext
<1>6. CASE UNCHANGED vars
  BY <1>6 DEF vars
<1>. QED
  BY <1>1, <1>2, <1>3, <1>4, <1>5, <1>6 DEF Next
-----------------------------------------------------------------------------
(* Between runs of a connector there is no connector and nobody scans. *)
Between ==
  /\ pc \notin {"launched", "waiting"} => proc # "up" /\ scanning = {}
  /\ pc = "launched" => scanning = {}

(* What a supervised connector can have been reported as. *)
Reported ==
  /\ pc = "start" => status.state # "ready"
  /\ pc \in {"backoff", "top"} => status.state # "ready"
  /\ mode \notin {"named", "quick"} => pc \notin {"top", "launched", "waiting", "exited", "backoff"}
  /\ mode = "quick" =>
       /\ pc \notin {"parked", "checking", "resting"}
       /\ \A x \in Pipes : line[x] \in {NoURL, tunnel}
       /\ status.state = "ready" => status = Override(Status("ready", tunnel))

RemoteInv == TypeOK /\ Between /\ Reported

LEMMA ManagementStart == Init => Between /\ Reported
<1>. SUFFICES ASSUME Init PROVE Between /\ Reported
  OBVIOUS
<1>1. status.state # "ready"
  <2>1. Status(IF mode = "none" THEN "disabled" ELSE "starting", NoURL) \in Statuses
    BY StatusType DEF States, URLs
  <2>2. status.state = IF mode = "none" THEN "disabled" ELSE "starting"
    BY <2>1, OverrideType DEF Init, Status
  <2>. QED
    BY <2>2
<1>. QED
  BY <1>1 DEF Init, Between, Reported

LEMMA BetweenStep == Between /\ [Next]_vars => Between'
<1>. SUFFICES ASSUME Between, [Next]_vars PROVE Between'
  OBVIOUS
<1>. USE DEF Between, At, manager, outside
<1>1. CASE ManagerStep
  BY <1>1 DEF ManagerStep, RunUnknown, RunNone, StartTailscale, CheckTailscale, RefreshTailscale,
              ReportOnly, Supervise, Launch, LaunchFails, StartScanning, Reap, Exited, AfterDelay, Return
<1>2. ASSUME NEW g \in Setters, Tell(g)
      PROVE  Between'
  BY <1>2 DEF Tell
<1>3. ASSUME NEW x \in Pipes, Scan(x) \/ ScanEnds(x) \/ ScanFails(x) \/ Announce(x)
      PROVE  Between'
  BY <1>3 DEF Scan, ScanEnds, ScanFails, Announce
<1>4. CASE TailnetChanges \/ ConnectorExits \/ Kill \/ Cancel
  BY <1>4 DEF TailnetChanges, ConnectorExits, Kill, Dies, Cancel
<1>5. CASE Bus \/ UNCHANGED vars
  BY <1>5 DEF Bus, vars
<1>. QED
  BY <1>1, <1>2, <1>3, <1>4, <1>5 DEF Next

LEMMA ReportedStep == RemoteInv /\ [Next]_vars => Reported'
<1>. SUFFICES ASSUME RemoteInv, [Next]_vars PROVE Reported'
  OBVIOUS
<1>. USE DEF RemoteInv, Reported, At, manager, outside
<1>0. /\ Manager \in Setters /\ Pipes \subseteq Setters /\ "starting" # "ready"
      /\ \A s \in {"ready", "unavailable", "not installed", "starting"}, u \in {NoURL, "host"} \cup Tunnels :
           Status(s, u) \in Statuses /\ Status(s, u).state = s
  <2>1. /\ {"ready", "unavailable", "not installed", "starting"} \subseteq States
        /\ {NoURL, "host"} \cup Tunnels \subseteq URLs
    BY DEF States, URLs
  <2>2. Manager \in Setters /\ Pipes \subseteq Setters
    BY DEF Setters
  <2>. QED
    BY <2>1, <2>2, StatusType
<1>1. CASE RunUnknown \/ RunNone \/ StartTailscale \/ RefreshTailscale \/ Supervise
           \/ LaunchFails \/ StartScanning \/ Reap \/ AfterDelay \/ Return
  <2>1. CASE RunUnknown
    BY <2>1 DEF RunUnknown
  <2>2. CASE RunNone \/ StartTailscale \/ RefreshTailscale \/ Supervise
    BY <2>2 DEF RunNone, StartTailscale, RefreshTailscale, Supervise
  <2>3. CASE StartScanning \/ Reap \/ Return
    BY <2>3 DEF StartScanning, Reap, Return
  <2>4. CASE LaunchFails \/ AfterDelay
    BY <2>4 DEF LaunchFails, AfterDelay
  <2>. QED
    BY <1>1, <2>1, <2>2, <2>3, <2>4
<1>2. CASE CheckTailscale \/ ReportOnly
  BY <1>2 DEF CheckTailscale, ReportOnly
<1>3. CASE Launch
  <2>1. CASE mode = "named"
    BY <1>3, <2>1 DEF Launch
  <2>2. CASE mode # "named"
    <3>1. Set(Manager, Status("starting", NoURL))
      BY <1>3, <2>2 DEF Launch
    <3>2. status'.state = "starting"
      BY <1>0, <3>1, SetType
    <3>3. pc' = "launched" /\ mode' = mode /\ mode = "quick"
      BY <1>3, <2>2 DEF Launch
    <3>4. \A x \in Pipes : line'[x] = NoURL
      BY <1>3 DEF Launch
    <3>. QED
      BY <3>2, <3>3, <3>4
  <2>. QED
    BY <2>1, <2>2
<1>4. CASE Exited
  <2>1. status'.state = "unavailable"
    BY <1>0, <1>4, SetType DEF Exited
  <2>. QED
    BY <1>4, <2>1 DEF Exited
<1>5. ASSUME NEW g \in Setters, Tell(g)
      PROVE  Reported'
  BY <1>5 DEF Tell
<1>6. ASSUME NEW x \in Pipes, Scan(x)
      PROVE  Reported'
  <2>1. pc \in {"launched", "waiting"} /\ pc' = pc /\ mode' = mode /\ tunnel' = tunnel
    BY <1>6 DEF Scan, Between
  <2>2. line' = [line EXCEPT ![x] = NoURL] /\ status' = Override(Status("ready", line[x])) /\ line[x] # NoURL
    BY <1>6 DEF Scan, Set
  <2>3. mode = "quick" => line[x] = tunnel
    BY <2>2
  <2>4. mode = "quick" => \A y \in Pipes : line'[y] \in {NoURL, tunnel}
    BY <2>2 DEF TypeOK
  <2>5. mode = "quick" => status' = Override(Status("ready", tunnel'))
    BY <2>1, <2>2, <2>3
  <2>. QED
    BY <2>1, <2>4, <2>5 DEF Override
<1>7. ASSUME NEW x \in Pipes, Announce(x)
      PROVE  Reported'
  <2>1. UNCHANGED <<mode, pc, status, tunnel>> /\ line' = [line EXCEPT ![x] = tunnel]
    BY <1>7 DEF Announce
  <2>2. mode = "quick" => \A y \in Pipes : line'[y] \in {NoURL, tunnel}
    BY <2>1 DEF TypeOK
  <2>. QED
    BY <2>1, <2>2 DEF Override
<1>8. ASSUME NEW x \in Pipes, ScanEnds(x) \/ ScanFails(x)
      PROVE  Reported'
  BY <1>8 DEF ScanEnds, ScanFails
<1>9. CASE TailnetChanges \/ ConnectorExits \/ Kill \/ Cancel
  BY <1>9 DEF TailnetChanges, ConnectorExits, Kill, Dies, Cancel
<1>10. CASE Bus \/ UNCHANGED vars
  BY <1>10 DEF Bus, vars
<1>. QED
  BY <1>1, <1>2, <1>3, <1>4, <1>5, <1>6, <1>7, <1>8, <1>9, <1>10 DEF Next, ManagerStep

LEMMA RemoteInductive == Init => RemoteInv
BY TypeStart, ManagementStart DEF RemoteInv

LEMMA RemoteInvStep == RemoteInv /\ [Next]_vars => RemoteInv'
BY RemoteTypeStep, BetweenStep, ReportedStep DEF RemoteInv
-----------------------------------------------------------------------------
(* Every variable of the manager keeps its type: the restart delay stays
   within its bounds however often a connector fails. *)
THEOREM RemoteTypeCorrect == Spec => []TypeOK
<1>1. RemoteInv => TypeOK
  BY DEF RemoteInv
<1>. QED
  BY <1>1, RemoteInductive, RemoteInvStep, PTL DEF Spec

(* The manager and the rest of the daemon are a correct user of the event bus,
   so that what is proved of the bus holds of the composition. *)
THEOREM RemoteUsesBus == Spec => BusSpec
<1>1. Init => BusInit
  BY DEF Init
<1>. QED
  BY <1>1, BusStep, RemoteTypeCorrect, PTL DEF Spec, BusSpec

(* The stream of statuses a client gets has no gap. *)
COROLLARY StatusStreamHasNoGap == Spec => []NoGap
BY RemoteUsesBus, StreamsHaveNoGap, PTL

(* Run returns only after the end of its connector and of both scanners. *)
THEOREM ConnectorIsReaped == Spec => []NothingLeftRunning
<1>1. RemoteInv => NothingLeftRunning
  BY DEF RemoteInv, Between, NothingLeftRunning
<1>. QED
  BY <1>1, RemoteInductive, RemoteInvStep, PTL DEF Spec

(* No scanner reports an address of an earlier run, and a connector that is
   gone is not shown as ready. *)
THEOREM NoStaleStatus == Spec => []StatusIsCurrent
<1>1. RemoteInv => StatusIsCurrent
  BY DEF RemoteInv, Reported, StatusIsCurrent
<1>. QED
  BY <1>1, RemoteInductive, RemoteInvStep, PTL DEF Spec

-----------------------------------------------------------------------------
(* What a client knows of the status: the last news in a sequence of events. *)
HasNews(q) == \E i \in DOMAIN q : IsNews(q[i])

EndsWith(q, m) ==
  \E i \in DOMAIN q : IsNews(q[i]) /\ q[i].msg = m /\ \A j \in i + 1 .. Len(q) : ~IsNews(q[j])

Quiet == \A g \in Setters : news[g] = Silence

(* Whoever sets a status while another still has one to publish sets the same:
   only the two scanners run at a time, and both report the tunnel's address. *)
OneVoice ==
  /\ pc = "waiting" => Free(Manager)
  /\ \A x \in Pipes : ~Free(x) => x \in scanning /\ status = Override(Status("ready", tunnel))
  /\ mode # "quick" => \A x \in Pipes : line[x] = NoURL
  /\ Advertised => status.url = "advertised"

(* So what is still to be published, or being handed out, is the status. *)
NewsIsStatus ==
  /\ \A g \in Setters :
       /\ news[g] # Silence => news[g] = status
       /\ ev[g] # NoEvent => ev[g].msg = status
  /\ \A p \in Others : ev[p] # NoEvent => ev[p].msg = Chatter

(* And what has been published last is the status, once nobody has another:
   in the history, and for every stream that lost nothing and has nothing of
   it still to be offered. *)
Told ==
  /\ Quiet /\ HasNews(history) => EndsWith(history, status)
  /\ \A s \in subs :
       ~lost[s] /\ Quiet /\ (\A g \in Setters : s \notin due[g]) /\ HasNews(Got(s))
         => EndsWith(Got(s), status)

LEMMA AppendNews ==
  ASSUME NEW q \in Seq(Events), NEW e \in Events, IsNews(e)
  PROVE  EndsWith(Append(q, e), e.msg)
<1>1. /\ Append(q, e) \in Seq(Events) /\ Len(Append(q, e)) = Len(q) + 1
      /\ Append(q, e)[Len(q) + 1] = e
  BY AppendProperties
<1>2. Len(q) \in Nat /\ DOMAIN Append(q, e) = 1 .. Len(Append(q, e))
  BY <1>1, LenProperties
<1>3. Len(q) + 1 \in DOMAIN Append(q, e) /\ (Len(q) + 1) + 1 .. Len(Append(q, e)) = {}
  BY <1>1, <1>2
<1>. QED
  BY <1>1, <1>3 DEF EndsWith

LEMMA AppendChatter ==
  ASSUME NEW q \in Seq(Events), NEW e \in Events, ~IsNews(e), NEW m
  PROVE  /\ HasNews(Append(q, e)) => HasNews(q)
         /\ EndsWith(q, m) => EndsWith(Append(q, e), m)
<1>. DEFINE a == Append(q, e)
<1>1. /\ a \in Seq(Events) /\ Len(a) = Len(q) + 1
      /\ \A i \in 1 .. Len(q) : a[i] = q[i]
      /\ a[Len(q) + 1] = e
  BY AppendProperties
<1>2. /\ Len(q) \in Nat /\ DOMAIN q = 1 .. Len(q) /\ DOMAIN a = 1 .. Len(q) + 1
  BY <1>1, LenProperties
<1>. HIDE DEF a
<1>3. \A i \in DOMAIN a : i \in 1 .. Len(q) \/ a[i] = e
  BY <1>1, <1>2
<1>4. HasNews(a) => HasNews(q)
  BY <1>1, <1>2, <1>3 DEF HasNews
<1>5. ASSUME EndsWith(q, m) PROVE EndsWith(a, m)
  <2>1. PICK i \in 1 .. Len(q) :
          IsNews(q[i]) /\ q[i].msg = m /\ \A j \in i + 1 .. Len(q) : ~IsNews(q[j])
    BY <1>2, <1>5 DEF EndsWith
  <2>2. i \in DOMAIN a /\ a[i] = q[i]
    BY <1>1, <1>2
  <2>3. ASSUME NEW j \in i + 1 .. Len(a) PROVE ~IsNews(a[j])
    <3>1. j \in i + 1 .. Len(q) \/ j = Len(q) + 1
      BY <1>1, <1>2
    <3>2. CASE j \in i + 1 .. Len(q)
      <4>1. j \in 1 .. Len(q)
        BY <3>2, <1>2
      <4>. QED
        BY <4>1, <3>2, <2>1, <1>1
    <3>. QED
      BY <3>1, <3>2, <1>1
  <2>. QED
    BY <2>1, <2>2, <2>3 DEF EndsWith
<1>. QED
  BY <1>4, <1>5 DEF a

(* The end of a sequence that has news has the last of them. *)
LEMMA LastOfNews ==
  ASSUME NEW q \in Seq(Events), NEW n \in Nat, NEW m, EndsWith(q, m), HasNews(LastOf(q, n))
  PROVE  EndsWith(LastOf(q, n), m)
<1>. DEFINE r == LastOf(q, n)
            d == Len(q) - Len(r)
<1>1. /\ r \in Seq(Events) /\ Len(r) = IF Len(q) <= n THEN Len(q) ELSE n
      /\ \A i \in 1 .. Len(r) : r[i] = q[d + i]
  BY LastOfSeq
<1>2. /\ Len(q) \in Nat /\ DOMAIN q = 1 .. Len(q)
      /\ Len(r) \in Nat /\ DOMAIN r = 1 .. Len(r)
  BY <1>1, LenProperties
<1>3. d \in Nat /\ d + Len(r) = Len(q)
  BY <1>1, <1>2
<1>4. PICK i \in 1 .. Len(q) :
        IsNews(q[i]) /\ q[i].msg = m /\ \A j \in i + 1 .. Len(q) : ~IsNews(q[j])
  BY <1>2 DEF EndsWith
<1>5. PICK k \in 1 .. Len(r) : IsNews(r[k])
  BY <1>2 DEF HasNews
<1>. HIDE DEF r, d
<1>6. d + k \in 1 .. Len(q) /\ IsNews(q[d + k])
  <2>1. d + k \in 1 .. Len(q)
    BY <1>2, <1>3
  <2>2. r[k] = q[d + k]
    BY <1>1
  <2>. QED
    BY <2>1, <2>2, <1>5
<1>7. d + k <= i
  BY <1>2, <1>3, <1>4, <1>6
<1>8. i - d \in 1 .. Len(r) /\ d + (i - d) = i
  BY <1>2, <1>3, <1>7
<1>9. r[i - d] = q[i]
  BY <1>1, <1>8
<1>10. ASSUME NEW j \in (i - d) + 1 .. Len(r) PROVE ~IsNews(r[j])
  <2>1. j \in 1 .. Len(r) /\ d + j \in i + 1 .. Len(q)
    BY <1>2, <1>3, <1>8
  <2>. QED
    BY <2>1, <1>1, <1>4
<1>11. EndsWith(r, m)
  BY <1>2, <1>4, <1>8, <1>9, <1>10 DEF EndsWith
<1>. QED
  BY <1>11 DEF r

LEMMA ConcatNews ==
  ASSUME NEW q \in Seq(Events), NEW r \in Seq(Events), NEW m,
         HasNews(q) => EndsWith(q, m), HasNews(r) => EndsWith(r, m), HasNews(q \o r)
  PROVE  EndsWith(q \o r, m)
<1>. DEFINE a == q \o r
<1>1. /\ a \in Seq(Events) /\ Len(a) = Len(q) + Len(r)
      /\ \A i \in 1 .. Len(q) + Len(r) : a[i] = IF i <= Len(q) THEN q[i] ELSE r[i - Len(q)]
  BY ConcatProperties
<1>2. /\ DOMAIN q = 1 .. Len(q) /\ Len(q) \in Nat
      /\ DOMAIN r = 1 .. Len(r) /\ Len(r) \in Nat
      /\ DOMAIN a = 1 .. Len(q) + Len(r)
  BY <1>1, LenProperties
<1>3. PICK k \in DOMAIN a : IsNews(a[k])
  BY DEF HasNews
<1>. HIDE DEF a
<1>4. \A i \in 1 .. Len(q) : i \in DOMAIN a /\ a[i] = q[i]
  BY <1>1, <1>2
<1>5. \A i \in 1 .. Len(a) : ~(i <= Len(q)) => i - Len(q) \in 1 .. Len(r) /\ a[i] = r[i - Len(q)]
  BY <1>1, <1>2
<1>6. CASE HasNews(r)
  <2>1. PICK i \in 1 .. Len(r) :
          IsNews(r[i]) /\ r[i].msg = m /\ \A j \in i + 1 .. Len(r) : ~IsNews(r[j])
    BY <1>2, <1>6 DEF EndsWith
  <2>2. Len(q) + i \in DOMAIN a /\ ~(Len(q) + i <= Len(q)) /\ (Len(q) + i) - Len(q) = i
    BY <1>2
  <2>3. a[Len(q) + i] = r[i]
    BY <1>1, <1>2, <2>2
  <2>4. ASSUME NEW j \in (Len(q) + i) + 1 .. Len(a) PROVE ~IsNews(a[j])
    <3>1. j \in 1 .. Len(a) /\ ~(j <= Len(q)) /\ j - Len(q) \in i + 1 .. Len(r)
      BY <1>1, <1>2
    <3>. QED
      BY <3>1, <1>5, <2>1
  <2>. QED
    BY <2>1, <2>2, <2>3, <2>4 DEF EndsWith, a
<1>7. CASE ~HasNews(r)
  <2>1. \A j \in 1 .. Len(a) : ~(j <= Len(q)) => ~IsNews(a[j])
    BY <1>2, <1>5, <1>7 DEF HasNews
  <2>2. k \in 1 .. Len(q)
    BY <1>1, <1>2, <1>3, <2>1
  <2>3. HasNews(q)
    BY <1>2, <1>3, <1>4, <2>2 DEF HasNews
  <2>4. PICK i \in 1 .. Len(q) :
          IsNews(q[i]) /\ q[i].msg = m /\ \A j \in i + 1 .. Len(q) : ~IsNews(q[j])
    BY <1>2, <2>3 DEF EndsWith
  <2>5. ASSUME NEW j \in i + 1 .. Len(a) PROVE ~IsNews(a[j])
    <3>1. CASE j <= Len(q)
      <4>1. j \in i + 1 .. Len(q) /\ j \in 1 .. Len(q)
        BY <3>1, <1>2
      <4>. QED
        BY <4>1, <2>4, <1>4
    <3>2. CASE ~(j <= Len(q))
      <4>1. j \in 1 .. Len(a)
        BY <1>1, <1>2
      <4>. QED
        BY <4>1, <3>2, <2>1
    <3>. QED
      BY <3>1, <3>2
  <2>. QED
    BY <2>4, <2>5, <1>4 DEF EndsWith, a
<1>. QED
  BY <1>6, <1>7

LEMMA HasNewsOfLast ==
  ASSUME NEW q \in Seq(Events), NEW n \in Nat, HasNews(LastOf(q, n))
  PROVE  HasNews(q)
<1>. DEFINE r == LastOf(q, n)
            d == Len(q) - Len(r)
<1>1. /\ r \in Seq(Events) /\ Len(r) = IF Len(q) <= n THEN Len(q) ELSE n
      /\ \A i \in 1 .. Len(r) : r[i] = q[d + i]
  BY LastOfSeq
<1>2. /\ Len(q) \in Nat /\ DOMAIN q = 1 .. Len(q)
      /\ Len(r) \in Nat /\ DOMAIN r = 1 .. Len(r)
  BY <1>1, LenProperties
<1>3. d \in Nat /\ d + Len(r) = Len(q)
  BY <1>1, <1>2
<1>4. PICK k \in 1 .. Len(r) : IsNews(r[k])
  BY <1>2 DEF HasNews
<1>. HIDE DEF r, d
<1>5. d + k \in 1 .. Len(q) /\ IsNews(q[d + k])
  <2>1. d + k \in 1 .. Len(q)
    BY <1>2, <1>3
  <2>2. r[k] = q[d + k]
    BY <1>1
  <2>. QED
    BY <2>1, <2>2, <1>4
<1>. QED
  BY <1>2, <1>4, <1>5 DEF HasNews

LEMMA StatusIsNews ==
  ASSUME NEW m \in Statuses
  PROVE  m # Silence /\ m # Chatter
<1>1. m.state \in States
  BY DEF Statuses
<1>2. Silence.state = "none" /\ Chatter.state = "camera"
  BY DEF Silence, Chatter, Status
<1>3. "none" \notin States /\ "camera" \notin States
  BY DEF States
<1>. QED
  BY <1>1, <1>2, <1>3

LEMMA SettersAndOthers ==
  /\ Manager \in Setters /\ Pipes \subseteq Setters /\ Manager \notin Pipes
  /\ Setters = Pipes \cup {Manager}
  /\ Setters \subseteq Publishers /\ Publishers = Setters \cup Others
  /\ Setters \cap Others = {}
BY RemoteAssumption DEF Setters, Others, Manager, Pipes

(* A status that is set is news, unless it is the one there was. *)
LEMMA SetNews ==
  ASSUME TypeOK, OneVoice, NEW g \in Setters, NEW s \in Statuses, Set(g, s)
  PROVE  /\ status' \in Statuses /\ (Advertised => status'.url = "advertised")
         /\ news'[g] = status' \/ (news'[g] = Silence /\ status' = status)
         /\ \A h \in Setters \ {g} : news'[h] = news[h]
<1>1. status' = Override(s) /\ status' \in Statuses
  BY SetType
<1>2. Advertised => status'.url = "advertised"
  BY <1>1 DEF Override, Statuses
<1>3. \A h \in Setters \ {g} : news'[h] = news[h]
  BY DEF Set, TypeOK
<1>4. CASE status.state # s.state \/ status.url # s.url
  <2>1. news'[g] = Override(s)
    BY <1>4 DEF Set, TypeOK
  <2>. QED
    BY <1>1, <1>2, <1>3, <2>1
<1>5. CASE ~(status.state # s.state \/ status.url # s.url)
  <2>1. news'[g] = Silence
    BY <1>5 DEF Set, TypeOK
  <2>2. status = s
    BY <1>5 DEF TypeOK, Statuses
  <2>3. Override(s) = s
    <3>1. CASE Advertised
      <4>1. s.url = "advertised"
        BY <2>2, <3>1 DEF OneVoice
      <4>. QED
        BY <3>1, <4>1 DEF Override, Statuses
    <3>2. CASE ~Advertised
      BY <3>2 DEF Override
    <3>. QED
      BY <3>1, <3>2
  <2>. QED
    BY <1>1, <1>2, <1>3, <2>1, <2>2, <2>3
<1>. QED
  BY <1>4, <1>5

(* The one way a status changes: who sets it has nothing left to publish, and
   if somebody else has, the status stays. *)
StatusMoves(g) ==
  /\ UNCHANGED busVars /\ Free(g)
  /\ \E s \in Statuses : Set(g, s)
  /\ \A h \in Setters : ~Free(h) => status' = status

LEMMA ManagerMoves ==
  ASSUME RemoteInv, OneVoice, ManagerStep
  PROVE  UNCHANGED <<busVars, status, news>> \/ StatusMoves(Manager)
<1>. USE DEF At
<1>0. \A s \in {"ready", "unavailable", "not installed", "starting"}, u \in {NoURL, "host"} \cup Tunnels :
        Status(s, u) \in Statuses
  BY StatusType DEF States, URLs
<1>1. scanning = {} => \A x \in Pipes : Free(x)
  BY DEF OneVoice
<1>2. ASSUME RunUnknown \/ CheckTailscale \/ ReportOnly \/ Launch \/ Exited
      PROVE  /\ UNCHANGED busVars /\ Free(Manager)
             /\ pc \notin {"launched", "waiting"} /\ \E s \in Statuses : Set(Manager, s)
  <2>1. CASE RunUnknown \/ Exited
    BY <1>0, <2>1 DEF RunUnknown, Exited
  <2>2. CASE CheckTailscale
    <3>1. tailnet \in Statuses
      BY DEF RemoteInv, TypeOK
    <3>. QED
      BY <1>0, <2>2, <3>1 DEF CheckTailscale
  <2>3. CASE ReportOnly
    BY <1>0, <2>3 DEF ReportOnly
  <2>4. CASE Launch
    BY <1>0, <2>4 DEF Launch
  <2>. QED
    BY <1>2, <2>1, <2>2, <2>3, <2>4
<1>3. ASSUME RunUnknown \/ CheckTailscale \/ ReportOnly \/ Launch \/ Exited
      PROVE  StatusMoves(Manager)
  <2>1. scanning = {}
    BY <1>2, <1>3 DEF RemoteInv, Between
  <2>2. \A h \in Setters : Free(h)
    BY <1>1, <1>2, <1>3, <2>1, SettersAndOthers
  <2>. QED
    BY <1>2, <1>3, <2>2 DEF StatusMoves
<1>4. ASSUME RunNone \/ StartTailscale \/ RefreshTailscale \/ Supervise \/ LaunchFails
               \/ StartScanning \/ Reap \/ AfterDelay \/ Return
      PROVE  UNCHANGED <<busVars, status, news>>
  BY <1>4 DEF RunNone, StartTailscale, RefreshTailscale, Supervise, LaunchFails, StartScanning,
              Reap, AfterDelay, Return
<1>. QED
  BY <1>3, <1>4 DEF ManagerStep

LEMMA ScannerMoves ==
  ASSUME RemoteInv, OneVoice, NEW x \in Pipes, Scan(x)
  PROVE  /\ StatusMoves(x) /\ mode = "quick" /\ pc = "waiting"
         /\ status' = Override(Status("ready", tunnel)) /\ UNCHANGED <<mode, pc, tunnel, scanning>>
<1>1. scanning # {} /\ pc = "waiting"
  BY DEF Scan, RemoteInv, Between
<1>2. line[x] # NoURL /\ mode = "quick"
  BY DEF Scan, OneVoice
<1>3. line[x] = tunnel /\ tunnel \in Tunnels
  BY <1>2 DEF RemoteInv, Reported, TypeOK
<1>4. Status("ready", line[x]) \in Statuses
  BY <1>3, StatusType DEF States, URLs
<1>5. status' = Override(Status("ready", tunnel))
  BY <1>3 DEF Scan, Set
<1>6. \A h \in Setters : ~Free(h) => status' = status
  <2>1. Free(Manager)
    BY <1>1 DEF OneVoice
  <2>2. \A y \in Pipes : ~Free(y) => status = Override(Status("ready", tunnel))
    BY DEF OneVoice
  <2>. QED
    BY <1>5, <2>1, <2>2, SettersAndOthers
<1>. QED
  BY <1>1, <1>2, <1>4, <1>5, <1>6 DEF Scan, StatusMoves

LEMMA StatusSteps ==
  ASSUME RemoteInv, OneVoice, [Next]_vars
  PROVE  \/ UNCHANGED <<busVars, status, news>>
         \/ \E g \in Setters : StatusMoves(g)
         \/ \E g \in Setters : Tell(g)
         \/ Bus
<1>1. CASE ManagerStep
  BY <1>1, ManagerMoves, SettersAndOthers
<1>2. ASSUME NEW x \in Pipes, Scan(x)
      PROVE  \E g \in Setters : StatusMoves(g)
  BY <1>2, ScannerMoves, SettersAndOthers
<1>3. ASSUME NEW x \in Pipes, ScanEnds(x) \/ ScanFails(x) \/ Announce(x)
      PROVE  UNCHANGED <<busVars, status, news>>
  BY <1>3 DEF ScanEnds, ScanFails, Announce, manager
<1>4. CASE TailnetChanges \/ ConnectorExits \/ Kill \/ Cancel
  BY <1>4 DEF TailnetChanges, ConnectorExits, Kill, Dies, Cancel, manager
<1>5. CASE UNCHANGED vars
  BY <1>5 DEF vars, manager
<1>. QED
  BY <1>1, <1>2, <1>3, <1>4, <1>5 DEF Next

(* What the rest of the daemon and the clients do to the events being handed
   out: no setter gets one, and all the others hand out is chatter. *)
LEMMA BusHands ==
  ASSUME BusTypeOK, Bus
  PROVE  /\ \A h \in Setters : ev'[h] = ev[h] \/ ev'[h] = NoEvent
         /\ \A p \in Others : ev'[p] = ev[p] \/ ev'[p] = NoEvent \/ ev'[p].msg = Chatter
<1>. USE SettersAndOthers DEF BusTypeOK, publishing
<1>1. ASSUME NEW p \in Others, Publish(p, Chatter)
      PROVE  /\ \A h \in Setters : ev'[h] = ev[h]
             /\ \A q \in Others : ev'[q] = ev[q] \/ ev'[q].msg = Chatter
  BY <1>1 DEF Publish
<1>2. ASSUME NEW p \in Publishers, Published(p)
      PROVE  \A q \in Publishers : ev'[q] = ev[q] \/ ev'[q] = NoEvent
  BY <1>2 DEF Published
<1>3. ASSUME NEW p \in Publishers, NEW s \in Streams, Offer(p, s)
      PROVE  ev' = ev
  BY <1>3 DEF Offer
<1>4. ASSUME NEW s \in Streams, StreamStep(s)
      PROVE  ev' = ev
  BY <1>4 DEF StreamStep, Subscribe, Replay, Deliver, Unsubscribe
<1>. QED
  BY <1>1, <1>2, <1>3, <1>4 DEF Bus

LEMMA OneVoiceStep ==
  ASSUME RemoteInv, BusInv, OneVoice, [Next]_vars
  PROVE  OneVoice'
<1>. USE SettersAndOthers DEF OneVoice, At, manager, outside
<1>0. TypeOK
  BY DEF RemoteInv
<1>1. ASSUME NEW g \in Setters, StatusMoves(g)
      PROVE  /\ Advertised => status'.url = "advertised"
             /\ \A h \in Setters \ {g} : Free(h)' = Free(h)
             /\ \A h \in Setters : ~Free(h) => status' = status
  <2>1. PICK s \in Statuses : Set(g, s)
    BY <1>1 DEF StatusMoves
  <2>2. Advertised => status'.url = "advertised"
    BY <1>0, <2>1, SetNews
  <2>3. \A h \in Setters \ {g} : news'[h] = news[h]
    BY <1>0, <2>1, SetNews
  <2>. QED
    BY <1>1, <2>2, <2>3 DEF StatusMoves, Free, busVars, publishing
<1>2. CASE ManagerStep
  <2>1. CASE RunUnknown \/ CheckTailscale \/ ReportOnly \/ Launch \/ Exited
    <3>1. scanning = {} /\ \A x \in Pipes : Free(x)
      BY <2>1 DEF RemoteInv, Between, RunUnknown, CheckTailscale, ReportOnly, Launch, Exited
    <3>2. pc' # "waiting" /\ mode' = mode
      BY <2>1 DEF RunUnknown, CheckTailscale, ReportOnly, Launch, Exited
    <3>3. mode' # "quick" => \A x \in Pipes : line'[x] = NoURL
      BY <2>1 DEF RunUnknown, CheckTailscale, ReportOnly, Launch, Exited
    <3>4. /\ Advertised => status'.url = "advertised"
          /\ \A x \in Pipes : Free(x)'
      <4>1. StatusMoves(Manager) \/ UNCHANGED <<busVars, status, news>>
        BY <1>2, ManagerMoves
      <4>2. CASE StatusMoves(Manager)
        BY <1>1, <3>1, <4>2
      <4>3. CASE UNCHANGED <<busVars, status, news>>
        BY <3>1, <4>3 DEF Free, busVars, publishing
      <4>. QED
        BY <4>1, <4>2, <4>3
    <3>. QED
      BY <3>2, <3>3, <3>4
  <2>2. CASE RunNone \/ StartTailscale \/ RefreshTailscale \/ Supervise \/ LaunchFails
             \/ StartScanning \/ Reap \/ AfterDelay \/ Return
    <3>1. UNCHANGED <<busVars, status, news, mode>> /\ (pc' = "waiting" => Free(Manager))
      BY <2>2 DEF RunNone, StartTailscale, RefreshTailscale, Supervise, LaunchFails, StartScanning,
                  Reap, AfterDelay, Return
    <3>2. \A h \in Setters : Free(h)' = Free(h)
      BY <3>1 DEF Free, busVars, publishing
    <3>3. CASE LaunchFails
      BY <3>1, <3>2, <3>3 DEF LaunchFails, Override, Status, NoURL, RemoteInv, Between
    <3>4. CASE RunNone \/ StartTailscale \/ RefreshTailscale \/ Supervise
               \/ Reap \/ AfterDelay \/ Return
      <4>1. UNCHANGED <<scanning, tunnel, line>>
        BY <3>4 DEF RunNone, StartTailscale, RefreshTailscale, Supervise, Reap, AfterDelay, Return
      <4>. QED
        BY <3>1, <3>2, <4>1 DEF Override
    <3>5. CASE StartScanning
      <4>1. UNCHANGED <<tunnel, line>> /\ scanning' = Pipes
        BY <3>5 DEF StartScanning
      <4>. QED
        BY <3>1, <3>2, <4>1 DEF Override
    <3>. QED
      BY <2>2, <3>3, <3>4, <3>5
  <2>. QED
    BY <1>2, <2>1, <2>2 DEF ManagerStep
<1>3. ASSUME NEW g \in Setters, Tell(g)
      PROVE  OneVoice'
  <2>1. ~Free(g) /\ UNCHANGED <<mode, pc, status, scanning, tunnel, line>>
    BY <1>3 DEF Tell, Free
  <2>2. \A h \in Setters \ {g} : Free(h)' = Free(h)
    BY <1>3 DEF Tell, Publish, Free
  <2>3. \A x \in Pipes : ~Free(x)' => ~Free(x)
    BY <2>1, <2>2
  <2>. QED
    BY <2>1, <2>2, <2>3 DEF Override
<1>4. ASSUME NEW x \in Pipes, Scan(x)
      PROVE  OneVoice'
  <2>1. /\ StatusMoves(x) /\ mode = "quick" /\ pc = "waiting"
        /\ status' = Override(Status("ready", tunnel)) /\ UNCHANGED <<mode, pc, tunnel, scanning>>
    BY <1>4, ScannerMoves
  <2>2. \A h \in Setters \ {x} : Free(h)' = Free(h)
    BY <1>1, <2>1
  <2>3. Free(Manager)'
    BY <2>1, <2>2
  <2>4. \A y \in Pipes : ~Free(y)' => y \in scanning
    BY <1>4, <2>2 DEF Scan
  <2>5. Advertised => status'.url = "advertised"
    BY <1>1, <2>1
  <2>. QED
    BY <2>1, <2>3, <2>4, <2>5 DEF Override
<1>5. ASSUME NEW x \in Pipes, ScanEnds(x) \/ ScanFails(x)
      PROVE  OneVoice'
  <2>1. /\ UNCHANGED <<mode, pc, status, news, tunnel, line, busVars>>
        /\ Free(x) /\ scanning' = scanning \ {x}
    BY <1>5 DEF ScanEnds, ScanFails
  <2>2. \A h \in Setters : Free(h)' = Free(h)
    BY <2>1 DEF Free, busVars, publishing
  <2>. QED
    BY <2>1, <2>2 DEF Override
<1>6. ASSUME NEW x \in Pipes, Announce(x)
      PROVE  OneVoice'
  <2>1. /\ UNCHANGED <<mode, pc, status, news, tunnel, scanning, busVars>> /\ mode = "quick"
    BY <1>6 DEF Announce
  <2>2. \A h \in Setters : Free(h)' = Free(h)
    BY <2>1 DEF Free, busVars, publishing
  <2>. QED
    BY <2>1, <2>2 DEF Override
<1>7. CASE TailnetChanges \/ ConnectorExits \/ Kill \/ Cancel \/ UNCHANGED vars
  <2>1. UNCHANGED <<mode, pc, status, news, tunnel, line, scanning, busVars>>
    BY <1>7 DEF TailnetChanges, ConnectorExits, Kill, Dies, Cancel, vars
  <2>2. \A h \in Setters : Free(h)' = Free(h)
    BY <2>1 DEF Free, busVars, publishing
  <2>. QED
    BY <2>1, <2>2 DEF Override
<1>8. CASE Bus
  <2>1. UNCHANGED <<mode, pc, status, news, tunnel, line, scanning>>
    BY <1>8 DEF Bus
  <2>2. \A h \in Setters : ev'[h] = ev[h] \/ ev'[h] = NoEvent
    BY <1>8, BusHands DEF BusInv
  <2>3. \A h \in Setters : ~Free(h)' => ~Free(h)
    BY <2>1, <2>2 DEF Free
  <2>. QED
    BY <2>1, <2>3 DEF Override
<1>. QED
  BY <1>2, <1>3, <1>4, <1>5, <1>6, <1>7, <1>8 DEF Next

LEMMA NewsIsStatusStep ==
  ASSUME RemoteInv, BusInv, OneVoice, NewsIsStatus, [Next]_vars
  PROVE  NewsIsStatus'
<1>. USE SettersAndOthers DEF NewsIsStatus
<1>1. CASE UNCHANGED <<busVars, status, news>>
  BY <1>1 DEF busVars, publishing
<1>2. ASSUME NEW g \in Setters, StatusMoves(g)
      PROVE  NewsIsStatus'
  <2>1. UNCHANGED ev /\ Free(g)
    BY <1>2 DEF StatusMoves, busVars, publishing
  <2>2. /\ news'[g] = status' \/ news'[g] = Silence
        /\ \A h \in Setters \ {g} : news'[h] = news[h]
    BY <1>2, SetNews DEF StatusMoves, RemoteInv
  <2>3. \A h \in Setters : news[h] # Silence \/ ev[h] # NoEvent => status' = status
    BY <1>2 DEF StatusMoves, Free
  <2>4. \A h \in Setters : news'[h] # Silence => news'[h] = status'
    BY <2>2, <2>3
  <2>5. \A h \in Setters : ev'[h] # NoEvent => ev'[h].msg = status'
    BY <2>1, <2>3
  <2>6. \A p \in Others : ev'[p] # NoEvent => ev'[p].msg = Chatter
    BY <2>1
  <2>. QED
    BY <2>4, <2>5, <2>6
<1>3. ASSUME NEW g \in Setters, Tell(g)
      PROVE  NewsIsStatus'
  <2>1. /\ UNCHANGED status /\ news[g] = status
        /\ ev'[g].msg = news[g] /\ \A p \in Publishers \ {g} : ev'[p] = ev[p]
    BY <1>3 DEF Tell, Publish, BusInv, BusTypeOK
  <2>2. \A h \in Setters : news'[h] = Silence \/ news'[h] = news[h]
    BY <1>3 DEF Tell, RemoteInv, TypeOK
  <2>. QED
    BY <2>1, <2>2
<1>4. CASE Bus
  <2>1. UNCHANGED <<status, news>>
    BY <1>4 DEF Bus, manager
  <2>. QED
    BY <1>4, <2>1, BusHands DEF BusInv
<1>. QED
  BY <1>1, <1>2, <1>3, <1>4, StatusSteps

(* Who tells a status puts it at the end of the history, and owes it to every
   stream there is. *)
LEMMA TellTells ==
  ASSUME BusInv, RemoteInv, NewsIsStatus, NEW g \in Setters, Tell(g)
  PROVE  Told'
<1>. DEFINE e == [n |-> count + 1, msg |-> news[g]]
<1>1. g \in Publishers /\ news[g] \in Messages /\ news[g] = status /\ status \in Statuses
  BY SettersAndOthers, MessagesAssumption DEF Tell, NewsIsStatus, RemoteInv, TypeOK
<1>2. e \in Events /\ e.msg = status /\ IsNews(e)
  BY <1>1, StatusIsNews DEF Events, IsNews, BusInv, BusTypeOK
<1>3. /\ UNCHANGED <<status, subs>>
      /\ history' = LastOf(Append(history, e), HistorySize) /\ due'[g] = subs
  BY <1>1 DEF Tell, Publish, stream, BusInv, BusTypeOK
<1>4. history \in Seq(Events) /\ HistorySize \in Nat
  BY EventBusAssumption DEF BusInv, BusTypeOK
<1>. HIDE DEF e
<1>5. Append(history, e) \in Seq(Events) /\ EndsWith(Append(history, e), status)
  BY <1>2, <1>4, AppendNews, AppendProperties
<1>6. HasNews(history') => EndsWith(history', status')
  BY <1>3, <1>4, <1>5, LastOfNews
<1>. QED
  BY <1>3, <1>6 DEF Told, HasNews, EndsWith

LEMMA ChatterIsNoNews ==
  ASSUME BusInv, Told, NEW p \in Others, Publish(p, Chatter), UNCHANGED <<status, news>>
  PROVE  Told'
<1>. DEFINE e == [n |-> count + 1, msg |-> Chatter]
<1>1. p \in Publishers /\ Chatter \in Messages
  BY SettersAndOthers, MessagesAssumption
<1>2. e \in Events /\ ~IsNews(e)
  BY <1>1 DEF Events, IsNews, BusInv, BusTypeOK
<1>3. /\ UNCHANGED <<subs, lost, sent, feed>>
      /\ history' = LastOf(Append(history, e), HistorySize)
      /\ \A h \in Setters : due'[h] = due[h]
  BY <1>1, SettersAndOthers DEF Publish, BusInv, BusTypeOK
<1>4. history \in Seq(Events) /\ HistorySize \in Nat
  BY EventBusAssumption DEF BusInv, BusTypeOK
<1>. HIDE DEF e
<1>5. Append(history, e) \in Seq(Events)
  BY <1>2, <1>4, AppendProperties
<1>6. ASSUME Quiet, HasNews(history')
      PROVE  EndsWith(history', status)
  <2>1. HasNews(Append(history, e))
    BY <1>3, <1>4, <1>5, <1>6, HasNewsOfLast
  <2>2. EndsWith(history, status)
    BY <1>2, <1>4, <1>6, <2>1, AppendChatter DEF Told
  <2>3. EndsWith(Append(history, e), status)
    BY <1>2, <1>4, <2>2, AppendChatter
  <2>. QED
    BY <1>3, <1>4, <1>5, <1>6, <2>3, LastOfNews
<1>7. \A s \in Streams : Got(s)' = Got(s)
  BY <1>3 DEF Got
<1>8. (Quiet /\ HasNews(history) => EndsWith(history, status))'
  BY <1>6 DEF Quiet, HasNews, EndsWith
<1>9. ASSUME NEW s \in subs', (~lost[s])', Quiet',
             (\A g \in Setters : s \notin due[g])', HasNews(Got(s))'
      PROVE  EndsWith(Got(s), status)'
  <2>1. s \in Streams /\ s \in subs /\ ~lost[s] /\ Quiet /\ (\A g \in Setters : s \notin due[g])
    BY <1>3, <1>9 DEF Quiet, BusInv, BusTypeOK
  <2>2. HasNews(Got(s))
    BY <1>7, <1>9, <2>1 DEF HasNews
  <2>3. EndsWith(Got(s), status)
    BY <2>1, <2>2 DEF Told
  <2>. QED
    BY <1>7, <2>1, <2>3 DEF EndsWith
<1>. QED
  BY <1>8, <1>9 DEF Told

(* A stream that has got nothing and is owed nothing it was not before. *)
LEMMA ToldStays ==
  ASSUME Told, NEW t \in subs, (~lost[t])', Quiet', (\A g \in Setters : t \notin due[g])',
         HasNews(Got(t))',
         Got(t)' = Got(t), lost'[t] = lost[t], Quiet, status' = status,
         \A g \in Setters : t \in due[g] => t \in due'[g]
  PROVE  EndsWith(Got(t), status)'
<1>1. HasNews(Got(t))
  BY DEF HasNews
<1>2. EndsWith(Got(t), status)
  BY <1>1 DEF Told
<1>. QED
  BY <1>2 DEF EndsWith

LEMMA OfferTells ==
  ASSUME BusInv, RemoteInv, NewsIsStatus, Told, NEW p \in Publishers, NEW s \in Streams,
         Offer(p, s), UNCHANGED <<status, news>>
  PROVE  Told'
<1>1. /\ UNCHANGED <<history, subs>>
      /\ ev[p] # NoEvent /\ ev[p] \in Events /\ s \in due[p]
      /\ \A g \in Publishers : g # p => due'[g] = due[g]
      /\ due'[p] = due[p] \ {s}
  BY DEF Offer, stream, BusInv, BusTypeOK, OnePublisher
<1>2. (Quiet /\ HasNews(history) => EndsWith(history, status))'
  BY <1>1 DEF Told, Quiet, HasNews, EndsWith
<1>3. ASSUME NEW t \in subs', (~lost[t])', Quiet',
             (\A g \in Setters : t \notin due[g])', HasNews(Got(t))'
      PROVE  EndsWith(Got(t), status)'
  <2>1. t \in Streams /\ t \in subs /\ Quiet
    BY <1>1, <1>3 DEF Quiet, BusInv, BusTypeOK
  <2>2. Got(t) \in Seq(Events)
    BY <2>1, GotType DEF BusInv
  <2>3. CASE t # s
    <3>1. Got(t)' = Got(t) /\ lost'[t] = lost[t]
      BY <2>1, <2>3, OfferGot
    <3>2. \A g \in Setters : t \in due[g] => t \in due'[g]
      BY <1>1, <2>3, SettersAndOthers
    <3>. QED
      BY <1>3, <2>1, <3>1, <3>2, ToldStays
  <2>4. CASE t = s
    <3>1. Got(t)' = Append(Got(t), ev[p]) /\ ~lost[t]
      BY <1>3, <2>1, <2>4, OfferGot
    <3>2. CASE p \in Setters
      <4>1. ev[p].msg = status /\ status \in Statuses
        BY <1>1, <3>2 DEF NewsIsStatus, RemoteInv, TypeOK
      <4>2. IsNews(ev[p])
        BY <4>1, StatusIsNews DEF IsNews
      <4>3. EndsWith(Append(Got(t), ev[p]), status)
        BY <1>1, <2>2, <4>1, <4>2, AppendNews
      <4>. QED
        BY <3>1, <4>3 DEF EndsWith
    <3>3. CASE p \in Others
      <4>1. ~IsNews(ev[p])
        BY <1>1, <3>3 DEF NewsIsStatus, IsNews
      <4>2. \A g \in Setters : t \notin due[g]
        BY <1>1, <1>3, <3>3, SettersAndOthers
      <4>3. HasNews(Append(Got(t), ev[p]))
        BY <1>3, <3>1 DEF HasNews
      <4>4. HasNews(Got(t))
        BY <1>1, <2>2, <4>1, <4>3, AppendChatter
      <4>5. EndsWith(Got(t), status)
        BY <2>1, <3>1, <4>2, <4>4 DEF Told
      <4>6. EndsWith(Append(Got(t), ev[p]), status)
        BY <1>1, <2>2, <4>1, <4>5, AppendChatter
      <4>. QED
        BY <3>1, <4>6 DEF EndsWith
    <3>. QED
      BY <3>2, <3>3, SettersAndOthers
  <2>. QED
    BY <2>3, <2>4
<1>. QED
  BY <1>2, <1>3 DEF Told

LEMMA StreamTells ==
  ASSUME BusInv, Told, NEW s \in Streams, StreamStep(s), UNCHANGED <<status, news>>
  PROVE  Told'
<1>1. UNCHANGED <<history, due>>
  BY DEF StreamStep, Subscribe, Replay, Deliver, Unsubscribe, publishing
<1>2. (Quiet /\ HasNews(history) => EndsWith(history, status))'
  BY <1>1 DEF Told, Quiet, HasNews, EndsWith
<1>3. ASSUME NEW t \in subs', (~lost[t])', Quiet',
             (\A g \in Setters : t \notin due[g])', HasNews(Got(t))'
      PROVE  EndsWith(Got(t), status)'
  <2>1. t \in Streams /\ Quiet
    BY <1>3 DEF StreamStep, Subscribe, Replay, Deliver, Unsubscribe, Quiet, stream, BusInv, BusTypeOK
  <2>2. ASSUME Got(t)' = Got(t), lost'[t] = lost[t], t \in subs
        PROVE  EndsWith(Got(t), status)'
    BY <1>1, <1>3, <2>1, <2>2, ToldStays
  <2>3. CASE Subscribe(s)
    <3>1. UNCHANGED <<sent, feed, lost>> /\ subs' = subs \cup {s} /\ phase[s] = "away"
      BY <2>3 DEF Subscribe
    <3>2. CASE t = s
      <4>1. sent[t] = <<>> /\ feed[t] = <<>>
        BY <3>1, <3>2 DEF BusInv, Phases
      <4>2. Got(t)' = <<>>
        BY <3>1, <4>1, EmptySeq, ConcatEmptySeq DEF Got
      <4>3. ~HasNews(<<>>)
        BY DEF HasNews
      <4>. QED
        BY <1>3, <4>2, <4>3 DEF HasNews
    <3>3. CASE t # s
      BY <1>3, <2>2, <3>1, <3>3 DEF Got
    <3>. QED
      BY <3>2, <3>3
  <2>4. CASE Replay(s)
    <3>1. UNCHANGED <<lost, subs>> /\ \A p \in Publishers : due[p] = {}
      BY <2>4, FreeMutex DEF Replay
    <3>2. CASE t = s
      <4>1. /\ Got(s) = feed[s] /\ Got(s)' = Recent(ReplaySize) \o feed[s]
            /\ feed[s] \in Seq(Events) /\ Recent(ReplaySize) \in Seq(Events)
        BY <2>4, ReplayGot
      <4>2. HasNews(feed[s]) => EndsWith(feed[s], status)
        BY <1>3, <2>1, <3>1, <3>2, <4>1, SettersAndOthers DEF Told
      <4>3. history \in Seq(Events) /\ ReplaySize \in Nat
        BY EventBusAssumption DEF BusInv, BusTypeOK
      <4>4. ASSUME HasNews(Recent(ReplaySize))
            PROVE  EndsWith(Recent(ReplaySize), status)
        <5>1. HasNews(LastOf(history, ReplaySize))
          BY <4>4 DEF Recent
        <5>2. HasNews(history)
          BY <4>3, <5>1, HasNewsOfLast
        <5>3. EndsWith(history, status)
          BY <2>1, <5>2 DEF Told
        <5>4. EndsWith(LastOf(history, ReplaySize), status)
          BY <4>3, <5>1, <5>3, LastOfNews
        <5>. QED
          BY <5>4 DEF Recent
      <4>5. HasNews(Recent(ReplaySize) \o feed[s])
        BY <1>3, <3>2, <4>1 DEF HasNews
      <4>6. EndsWith(Recent(ReplaySize) \o feed[s], status)
        BY <4>1, <4>2, <4>4, <4>5, ConcatNews
      <4>. QED
        BY <3>2, <4>1, <4>6 DEF EndsWith
    <3>3. CASE t # s
      BY <1>3, <2>1, <2>2, <2>4, <3>1, <3>3, ReplayGot
    <3>. QED
      BY <3>2, <3>3
  <2>5. CASE Deliver(s)
    <3>1. UNCHANGED <<lost, subs>> /\ Got(t)' = Got(t)
      BY <2>1, <2>5, DeliverKeepsGot DEF Deliver, BusInv
    <3>. QED
      BY <1>3, <2>2, <3>1
  <2>6. CASE Unsubscribe(s)
    <3>1. t # s /\ t \in subs /\ lost'[t] = lost[t]
      BY <1>3, <2>6 DEF Unsubscribe, BusInv, BusTypeOK
    <3>. QED
      BY <2>1, <2>2, <2>6, <3>1, UnsubscribeGot
  <2>. QED
    BY <2>3, <2>4, <2>5, <2>6 DEF StreamStep
<1>. QED
  BY <1>2, <1>3 DEF Told

LEMMA ToldStep ==
  ASSUME RemoteInv, BusInv, OneVoice, NewsIsStatus, Told, [Next]_vars
  PROVE  Told'
<1>1. ASSUME UNCHANGED <<busVars, status>>, Quiet' => Quiet
      PROVE  Told'
  <2>1. UNCHANGED <<history, subs, lost, due, sent, feed>>
    BY <1>1 DEF busVars, publishing
  <2>2. \A s \in Streams : Got(s)' = Got(s)
    BY <2>1 DEF Got
  <2>3. subs \subseteq Streams
    BY DEF BusInv, BusTypeOK
  <2>4. (Quiet /\ HasNews(history) => EndsWith(history, status))'
    BY <1>1, <2>1 DEF Told, HasNews, EndsWith
  <2>5. ASSUME NEW t \in subs', (~lost[t])', Quiet',
               (\A g \in Setters : t \notin due[g])', HasNews(Got(t))'
        PROVE  EndsWith(Got(t), status)'
    BY <1>1, <2>1, <2>2, <2>3, <2>5, ToldStays
  <2>. QED
    BY <2>4, <2>5 DEF Told
<1>2. CASE UNCHANGED <<busVars, status, news>>
  BY <1>1, <1>2 DEF Quiet
<1>3. ASSUME NEW g \in Setters, StatusMoves(g)
      PROVE  Told'
  <2>1. CASE Quiet'
    <3>1. PICK s \in Statuses : Set(g, s)
      BY <1>3 DEF StatusMoves
    <3>2. /\ status' \in Statuses /\ (news'[g] = status' \/ (news'[g] = Silence /\ status' = status))
          /\ \A h \in Setters \ {g} : news'[h] = news[h]
      BY <3>1, SetNews DEF RemoteInv
    <3>3. status' = status
      BY <2>1, <3>2, StatusIsNews DEF Quiet
    <3>4. Quiet
      BY <1>3, <2>1, <3>2 DEF Quiet, StatusMoves, Free
    <3>. QED
      BY <1>1, <1>3, <3>3, <3>4 DEF StatusMoves
  <2>2. CASE ~Quiet'
    BY <2>2 DEF Told
  <2>. QED
    BY <2>1, <2>2
<1>4. ASSUME NEW g \in Setters, Tell(g)
      PROVE  Told'
  BY <1>4, TellTells
<1>5. CASE Bus
  <2>1. UNCHANGED <<status, news>>
    BY <1>5 DEF Bus, manager
  <2>2. ASSUME NEW p \in Publishers, Published(p)
        PROVE  Told'
    <3>1. UNCHANGED <<history, subs, lost, due, sent, feed>>
      BY <2>2 DEF Published
    <3>2. \A s \in Streams : Got(s)' = Got(s)
      BY <3>1 DEF Got
    <3>3. subs \subseteq Streams
      BY DEF BusInv, BusTypeOK
    <3>4. (Quiet /\ HasNews(history) => EndsWith(history, status))'
      BY <2>1, <3>1 DEF Told, Quiet, HasNews, EndsWith
    <3>5. ASSUME NEW t \in subs', (~lost[t])', Quiet',
                 (\A g \in Setters : t \notin due[g])', HasNews(Got(t))'
          PROVE  EndsWith(Got(t), status)'
      <4>1. Quiet
        BY <2>1, <3>5 DEF Quiet
      <4>. QED
        BY <2>1, <3>1, <3>2, <3>3, <3>5, <4>1, ToldStays
    <3>. QED
      BY <3>4, <3>5 DEF Told
  <2>. QED
    BY <1>5, <2>1, <2>2, ChatterIsNoNews, OfferTells, StreamTells DEF Bus
<1>. QED
  BY <1>2, <1>3, <1>4, <1>5, StatusSteps

StreamInv == RemoteInv /\ BusInv /\ OneVoice /\ NewsIsStatus /\ Told

LEMMA StreamStart == Init => StreamInv
<1>. SUFFICES ASSUME Init PROVE StreamInv
  OBVIOUS
<1>1. RemoteInv /\ BusInv
  BY RemoteInductive, BusStart DEF Init
<1>2. OneVoice
  <2>1. \A g \in Setters : Free(g)
    BY SettersAndOthers DEF Init, BusInit, Free
  <2>2. Advertised => status.url = "advertised"
    <3>1. Status(IF mode = "none" THEN "disabled" ELSE "starting", NoURL) \in Statuses
      BY StatusType DEF States, URLs
    <3>. QED
      BY <3>1 DEF Init, Override, Statuses
  <2>. QED
    BY <2>1, <2>2, SettersAndOthers DEF Init, OneVoice
<1>3. NewsIsStatus
  BY SettersAndOthers DEF Init, BusInit, NewsIsStatus
<1>4. Told
  BY DEF Init, BusInit, Told, HasNews
<1>. QED
  BY <1>1, <1>2, <1>3, <1>4 DEF StreamInv

LEMMA StreamInvStep == StreamInv /\ [Next]_vars => StreamInv'
<1>. SUFFICES ASSUME StreamInv, [Next]_vars PROVE StreamInv'
  OBVIOUS
<1>1. RemoteInv'
  BY RemoteInvStep DEF StreamInv
<1>2. BusInv'
  BY BusStep, BusInvStep DEF StreamInv, RemoteInv
<1>3. OneVoice'
  BY OneVoiceStep DEF StreamInv
<1>4. NewsIsStatus'
  BY NewsIsStatusStep DEF StreamInv
<1>5. Told'
  BY ToldStep DEF StreamInv
<1>. QED
  BY <1>1, <1>2, <1>3, <1>4, <1>5 DEF StreamInv

(* A client whose stream dropped nothing and is read to the end has been told
   the present status last, although set lets go of the status before it
   publishes it and three goroutines call it. *)
THEOREM StatusIsToldLast == Spec => []StreamShowsStatus
<1>1. StreamInv => StreamShowsStatus
  <2>. SUFFICES ASSUME StreamInv, Settled, NEW s \in subs,
                       phase[s] = "live", ~lost[s], feed[s] = <<>>,
                       \E i \in DOMAIN sent[s] : IsNews(sent[s][i])
                PROVE  \E i \in DOMAIN sent[s] :
                         /\ sent[s][i].msg = status
                         /\ \A j \in i + 1 .. Len(sent[s]) : ~IsNews(sent[s][j])
    BY DEF StreamShowsStatus
  <2>1. Quiet /\ \A g \in Setters : s \notin due[g]
    BY SettersAndOthers DEF Settled, Free, Quiet, StreamInv, BusInv, OnePublisher
  <2>2. Got(s) = sent[s]
    BY ConcatEmptySeq DEF Got, StreamInv, BusInv, BusTypeOK
  <2>3. HasNews(Got(s))
    BY <2>2 DEF HasNews
  <2>4. EndsWith(Got(s), status)
    BY <2>1, <2>3 DEF StreamInv, Told
  <2>. QED
    BY <2>2, <2>4 DEF EndsWith
<1>. QED
  BY <1>1, StreamStart, StreamInvStep, PTL DEF Spec
=============================================================================
