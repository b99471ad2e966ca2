--------------------------- MODULE EventBusProofs ---------------------------
(***************************************************************************)
(* What EventBus promises for every number of publishers, clients, topics  *)
(* and channels and for every buffer size.                                 *)
(*                                                                         *)
(* NoUseAfterClose is not inductive: that no range loop holds a channel    *)
(* about to be closed follows from mutual exclusion, and that a channel is *)
(* not put back on a list once closed follows from a Subscribe in progress *)
(* being the only owner of the channel it made.  LockInv and ListInv say   *)
(* these two things; with TypeOK they are inductive.                       *)
(***************************************************************************)
EXTENDS EventBus, SequenceTheorems, TLAPS

\* The RWMutex: who holds it, and where its holders and waiters are.
LockInv ==
  /\ writer # None => pending = writer /\ readers = {}
  /\ \A p \in Publishers : p \in readers <=> at[p] \in {"range", "send"}
  /\ \A p \in Publishers : at[p] = "queued" => pending # None
  /\ \A p \in Publishers : at[p] # "send" => rest[p] = {}

\* The lists: only open channels, each on one, none that is being added.
ListInv ==
  /\ closed \subseteq made
  /\ \A t \in Topics : subscribers[t] \subseteq made \ closed
  /\ \A t, u \in Topics : t # u => subscribers[t] \cap subscribers[u] = {}
  /\ \A w \in Clients : call[w].op = "subscribe" =>
       /\ call[w].chan \in made \ closed
       /\ \A t \in Topics : call[w].chan \notin subscribers[t]
       /\ \A v \in Clients \ {w} :
            call[v].op = "subscribe" => call[v].chan # call[w].chan
  /\ \A p \in Publishers : rest[p] \cap closed = {}

\* Initially everything is typed, unlocked and unsubscribed.
LEMMA InitInv == Init => TypeOK /\ LockInv /\ ListInv
<1> SUFFICES ASSUME Init PROVE TypeOK /\ LockInv /\ ListInv
  OBVIOUS
<1>1. TypeOK
  BY BusAssumption DEF Init, TypeOK, Call, NoCall
<1>2. LockInv
  BY DEF Init, LockInv
<1>3. ListInv
  BY DEF Init, ListInv, NoCall
<1> QED BY <1>1, <1>2, <1>3

\* The state of a call is the record of its operation: what the fields are.
LEMMA CallFields ==
  ASSUME TypeOK, NEW w \in Clients, call[w].op \in {"subscribe", "unsubscribe"}
  PROVE  call[w].topic \in Topics /\ call[w].chan \in Chans
<1>1. call[w] \in Call
  BY DEF TypeOK
<1>2. call[w] # NoCall
  BY DEF NoCall
<1>3. call[w] \notin [op : {"close"}]
  OBVIOUS
<1> QED BY <1>1, <1>2, <1>3 DEF Call

\* What a channel holds stays a short enough sequence of events.
LEMMA OfferTyped ==
  ASSUME TypeOK, NEW p \in Publishers, NEW c \in Chans, Offer(p, c)
  PROVE  /\ buf' \in [Chans -> Seq(Event)]
         /\ \A d \in Chans : Len(buf'[d]) <= BufferSize
<1>1. <<p, topic[p], data[p]>> \in Event
  BY DEF TypeOK, Event
<1>2. CASE Len(buf[c]) < BufferSize
  <2>1. buf' = [buf EXCEPT ![c] = Append(@, <<p, topic[p], data[p]>>)]
    BY <1>2 DEF Offer
  <2>2. /\ Append(buf[c], <<p, topic[p], data[p]>>) \in Seq(Event)
        /\ Len(Append(buf[c], <<p, topic[p], data[p]>>)) = Len(buf[c]) + 1
    BY <1>1, AppendProperties DEF TypeOK
  <2>3. Len(buf[c]) + 1 <= BufferSize
    <3>1. Len(buf[c]) \in Nat
      BY LenProperties DEF TypeOK
    <3> QED BY <3>1, <1>2, BusAssumption
  <2> QED BY <2>1, <2>2, <2>3 DEF TypeOK
<1>3. CASE ~(Len(buf[c]) < BufferSize)
  BY <1>3 DEF Offer, TypeOK
<1> QED BY <1>2, <1>3

LEMMA ReceiveTyped ==
  ASSUME TypeOK, NEW c \in Chans, Receive(c)
  PROVE  /\ buf' \in [Chans -> Seq(Event)]
         /\ \A d \in Chans : Len(buf'[d]) <= BufferSize
<1>1. /\ Tail(buf[c]) \in Seq(Event)
      /\ Len(Tail(buf[c])) = Len(buf[c]) - 1
  BY HeadTailProperties DEF Receive, TypeOK
<1>2. Len(buf[c]) \in Nat /\ Len(buf[c]) <= BufferSize
  BY LenProperties DEF TypeOK
<1>3. Len(Tail(buf[c])) <= BufferSize
  BY <1>1, <1>2, BusAssumption
<1> QED BY <1>1, <1>3 DEF Receive, TypeOK

\* Every step keeps the invariant: one step of the proof per action.
LEMMA StepInv ==
  TypeOK /\ LockInv /\ ListInv /\ [Next]_vars => TypeOK' /\ LockInv' /\ ListInv'
<1> SUFFICES ASSUME TypeOK, LockInv, ListInv, [Next]_vars
             PROVE  TypeOK' /\ LockInv' /\ ListInv'
  OBVIOUS
<1> USE BusAssumption
<1>1. ASSUME NEW p \in Publishers, NEW t \in Topics, Publish(p, t)
     PROVE  TypeOK' /\ LockInv' /\ ListInv'
  <2>1. TypeOK'
    <3>1. published' \in 0 .. MaxEvents
      BY <1>1 DEF Publish, TypeOK
    <3> QED BY <1>1, <3>1 DEF Publish, TypeOK, chanVars
  <2>2. LockInv'
    BY <1>1 DEF Publish, TypeOK, LockInv, chanVars, muVars, pubVars
  <2>3. ListInv'
    BY <1>1 DEF Publish, TypeOK, LockInv, ListInv, NoCall, chanVars, muVars, pubVars
  <2> QED BY <2>1, <2>2, <2>3
<1>2. ASSUME NEW p \in Publishers, ReadList(p)
     PROVE  TypeOK' /\ LockInv' /\ ListInv'
  <2>1. TypeOK'
    BY <1>2 DEF ReadList, TypeOK, Call, chanVars, muVars, pubVars
  <2>2. LockInv'
    BY <1>2 DEF ReadList, TypeOK, LockInv, chanVars, muVars, pubVars
  <2>3. ListInv'
    BY <1>2 DEF ReadList, TypeOK, LockInv, ListInv, NoCall, chanVars, muVars, pubVars
  <2> QED BY <2>1, <2>2, <2>3
<1>3. ASSUME NEW p \in Publishers, NEW c \in Chans, Offer(p, c)
     PROVE  TypeOK' /\ LockInv' /\ ListInv'
  <2>1. TypeOK'
    BY <1>3, OfferTyped DEF Offer, TypeOK, chanVars, muVars
  <2>2. LockInv'
    BY <1>3 DEF Offer, TypeOK, LockInv, chanVars, muVars, pubVars
  <2>3. ListInv'
    BY <1>3 DEF Offer, TypeOK, LockInv, ListInv, NoCall, chanVars, muVars, pubVars
  <2> QED BY <2>1, <2>2, <2>3
<1>4. ASSUME NEW p \in Publishers, Return(p)
     PROVE  TypeOK' /\ LockInv' /\ ListInv'
  <2>1. TypeOK'
    BY <1>4 DEF Return, TypeOK, Call, chanVars, muVars, pubVars
  <2>2. LockInv'
    BY <1>4 DEF Return, TypeOK, LockInv, chanVars, muVars, pubVars
  <2>3. ListInv'
    BY <1>4 DEF Return, TypeOK, LockInv, ListInv, NoCall, chanVars, muVars, pubVars
  <2> QED BY <2>1, <2>2, <2>3
<1>5. ASSUME NEW w \in Clients, NEW t \in Topics, NEW c \in Chans, CallSubscribe(w, t, c)
     PROVE  TypeOK' /\ LockInv' /\ ListInv'
  <2>1. TypeOK'
    BY <1>5 DEF CallSubscribe, TypeOK, Call, chanVars, muVars, pubVars
  <2>2. LockInv'
    BY <1>5 DEF CallSubscribe, TypeOK, LockInv, chanVars, muVars, pubVars
  <2>3. ListInv'
    BY <1>5 DEF CallSubscribe, TypeOK, LockInv, ListInv, NoCall, chanVars, muVars, pubVars
  <2> QED BY <2>1, <2>2, <2>3
<1>6. ASSUME NEW w \in Clients, NEW t \in Topics, NEW c \in Chans, CallUnsubscribe(w, t, c)
     PROVE  TypeOK' /\ LockInv' /\ ListInv'
  <2>1. TypeOK'
    BY <1>6 DEF CallUnsubscribe, TypeOK, Call, chanVars, muVars, pubVars
  <2>2. LockInv'
    BY <1>6 DEF CallUnsubscribe, TypeOK, LockInv, chanVars, muVars, pubVars
  <2>3. ListInv'
    BY <1>6 DEF CallUnsubscribe, TypeOK, LockInv, ListInv, NoCall, chanVars, muVars, pubVars
  <2> QED BY <2>1, <2>2, <2>3
<1>7. ASSUME NEW w \in Clients, CallClose(w)
     PROVE  TypeOK' /\ LockInv' /\ ListInv'
  <2>1. TypeOK'
    BY <1>7 DEF CallClose, TypeOK, Call, chanVars, muVars, pubVars
  <2>2. LockInv'
    BY <1>7 DEF CallClose, TypeOK, LockInv, chanVars, muVars, pubVars
  <2>3. ListInv'
    BY <1>7 DEF CallClose, TypeOK, LockInv, ListInv, NoCall, chanVars, muVars, pubVars
  <2> QED BY <2>1, <2>2, <2>3
<1>8. ASSUME NEW w \in Clients, Announce(w)
     PROVE  TypeOK' /\ LockInv' /\ ListInv'
  <2>1. TypeOK'
    BY <1>8 DEF Announce, TypeOK, Call, chanVars, muVars, pubVars
  <2>2. LockInv'
    BY <1>8 DEF Announce, TypeOK, LockInv, chanVars, muVars, pubVars
  <2>3. ListInv'
    BY <1>8 DEF Announce, TypeOK, LockInv, ListInv, NoCall, chanVars, muVars, pubVars
  <2> QED BY <2>1, <2>2, <2>3
<1>9. ASSUME NEW w \in Clients, Acquire(w)
     PROVE  TypeOK' /\ LockInv' /\ ListInv'
  <2>1. TypeOK'
    BY <1>9 DEF Acquire, TypeOK, Call, chanVars, muVars, pubVars
  <2>2. LockInv'
    BY <1>9 DEF Acquire, TypeOK, LockInv, chanVars, muVars, pubVars
  <2>3. ListInv'
    BY <1>9 DEF Acquire, TypeOK, LockInv, ListInv, NoCall, chanVars, muVars, pubVars
  <2> QED BY <2>1, <2>2, <2>3
<1>10. ASSUME NEW w \in Clients, Subscribe(w)
     PROVE  TypeOK' /\ LockInv' /\ ListInv'
  <2>1. TypeOK'
    BY <1>10, CallFields DEF Subscribe, Unlock, TypeOK, Call
  <2>2. LockInv'
    BY <1>10 DEF Subscribe, Unlock, TypeOK, LockInv, chanVars, muVars, pubVars
  <2>3. ListInv'
    BY <1>10, CallFields DEF Subscribe, Unlock, TypeOK, LockInv, ListInv, NoCall, chanVars, muVars, pubVars
  <2> QED BY <2>1, <2>2, <2>3
<1>11. ASSUME NEW w \in Clients, Unsubscribe(w)
     PROVE  TypeOK' /\ LockInv' /\ ListInv'
  <2>1. /\ call[w].topic \in Topics
        /\ call[w].chan \in Chans
        /\ writer = w
        /\ Unlock(w)
        /\ UNCHANGED <<made, buf, topic, data, published, rest>>
    BY <1>11, CallFields DEF Unsubscribe
  <2>2. LockInv'
    BY <1>11 DEF Unsubscribe, Unlock, TypeOK, LockInv
  <2>3. CASE /\ call[w].chan \in subscribers[call[w].topic]
             /\ subscribers' = [subscribers EXCEPT
                                  ![call[w].topic] = @ \ {call[w].chan}]
             /\ closed' = closed \cup {call[w].chan}
    <3>1. TypeOK'
      BY <2>1, <2>3 DEF Unlock, TypeOK, Call
    <3>2. \A p \in Publishers : rest[p] = {}
      BY <2>1 DEF LockInv, TypeOK
    <3>3. \A t \in Topics : call[w].chan \notin subscribers'[t]
      BY <2>1, <2>3 DEF ListInv, TypeOK
    <3>4. \A t \in Topics : subscribers'[t] \subseteq subscribers[t]
      BY <2>1, <2>3 DEF TypeOK
    <3>5. \A v \in Clients : call'[v].op = "subscribe" =>
             call'[v] = call[v] /\ call[v].chan # call[w].chan
      BY <2>1, <2>3 DEF ListInv, Unlock, NoCall, TypeOK
    <3>6. ListInv'
      BY <2>1, <2>3, <3>2, <3>3, <3>4, <3>5 DEF ListInv
    <3> QED BY <3>1, <2>2, <3>6
  <2>4. CASE UNCHANGED <<subscribers, closed>>
    <3>1. TypeOK'
      BY <2>1, <2>4 DEF Unlock, TypeOK, Call
    <3>2. ListInv'
      BY <2>1, <2>4 DEF Unlock, NoCall, TypeOK, ListInv
    <3> QED BY <3>1, <2>2, <3>2
  <2> QED BY <1>11, <2>3, <2>4 DEF Unsubscribe
<1>12. ASSUME NEW w \in Clients, Close(w)
     PROVE  TypeOK' /\ LockInv' /\ ListInv'
  <2>1. TypeOK'
    BY <1>12 DEF Close, Unlock, TypeOK, Call
  <2>2. LockInv'
    BY <1>12 DEF Close, Unlock, TypeOK, LockInv, chanVars, muVars, pubVars
  <2>3. ListInv'
    BY <1>12 DEF Close, Unlock, TypeOK, LockInv, ListInv, NoCall, chanVars, muVars, pubVars
  <2> QED BY <2>1, <2>2, <2>3
<1>13. ASSUME NEW c \in Chans, Receive(c)
     PROVE  TypeOK' /\ LockInv' /\ ListInv'
  <2>1. TypeOK'
    BY <1>13, ReceiveTyped DEF Receive, TypeOK, muVars, pubVars
  <2>2. LockInv'
    BY <1>13 DEF Receive, TypeOK, LockInv, chanVars, muVars, pubVars
  <2>3. ListInv'
    BY <1>13 DEF Receive, TypeOK, LockInv, ListInv, NoCall, chanVars, muVars, pubVars
  <2> QED BY <2>1, <2>2, <2>3
<1>14. CASE UNCHANGED vars
  BY <1>14 DEF TypeOK, LockInv, ListInv, vars, chanVars, muVars, pubVars
<1> QED
  BY <1>1, <1>2, <1>3, <1>4, <1>5, <1>6, <1>7, <1>8, <1>9, <1>10, <1>11, <1>12,
     <1>13, <1>14 DEF Next, Publishing, Calling

\* The invariant of the bus: types, the lock's discipline, the lists.
THEOREM BusInvariant == Spec => [](TypeOK /\ LockInv /\ ListInv)
<1>1. Init => TypeOK /\ LockInv /\ ListInv
  BY InitInv
<1>2. (TypeOK /\ LockInv /\ ListInv) /\ [Next]_vars
        => (TypeOK /\ LockInv /\ ListInv)'
  BY StepInv
<1> QED BY <1>1, <1>2, PTL DEF Spec

\* Every variable keeps its type, and no buffer exceeds its capacity.
THEOREM TypeCorrect == Spec => []TypeOK
BY BusInvariant, PTL

\* Publish never sends on a closed channel and no channel is closed twice:
\* bus.go's lock is enough for that whoever calls it, and in whatever order.
THEOREM NoUseAfterCloseHolds == Spec => []NoUseAfterClose
<1>1. ListInv => NoUseAfterClose
  BY DEF ListInv, NoUseAfterClose
<1> QED BY <1>1, BusInvariant, PTL
-----------------------------------------------------------------------------
(* The order in which a subscriber sees the events of one publisher.       *)

\* p's current event is still to be offered to c.
Due(p, c) ==
  \/ at[p] \in {"queued", "range"}
  \/ at[p] = "send" /\ c \in rest[p]

\* Whatever c holds of p is older than the event p has still to offer it, and
\* older than any event p will publish.
OrderInv ==
  /\ \A p \in Publishers : data[p] <= published
  /\ \A c \in Chans : \A i \in DOMAIN buf[c] :
       /\ buf[c][i][3] <= published
       /\ \A p \in Publishers :
            buf[c][i][1] = p /\ Due(p, c) => buf[c][i][3] < data[p]
  /\ PublisherOrder

LEMMA InitOrder == Init => OrderInv
BY BusAssumption DEF Init, OrderInv, PublisherOrder, Due

\* A step that neither offers nor receives keeps the buffers, and can only
\* make an event due by publishing a new one.
LEMMA QuietOrder ==
  ASSUME TypeOK, OrderInv, buf' = buf, published' \in Nat,
         published <= published',
         \A p \in Publishers :
           \/ data'[p] = published' /\ published < published'
           \/ data'[p] = data[p] /\ \A c \in Chans : Due(p, c)' => Due(p, c)
           \/ data'[p] = 0 /\ \A c \in Chans : ~Due(p, c)'
  PROVE  OrderInv'
<1>1. \A c \in Chans : \A i \in DOMAIN buf[c] :
        buf[c][i] \in Event /\ buf[c][i][3] \in Nat
  BY ElementOfSeq, LenProperties DEF TypeOK, Event
<1>2. published \in Nat /\ \A p \in Publishers : data[p] \in Nat
  BY BusAssumption DEF TypeOK
<1>3. \A p \in Publishers : data'[p] <= published'
  BY <1>2 DEF OrderInv
<1>4. PublisherOrder'
  BY DEF OrderInv, PublisherOrder
<1>5. ASSUME NEW c \in Chans, NEW i \in DOMAIN buf[c]
      PROVE  /\ buf[c][i][3] <= published'
             /\ \A p \in Publishers :
                  buf[c][i][1] = p /\ Due(p, c)' => buf[c][i][3] < data'[p]
  <2>1. buf[c][i][3] \in Nat /\ buf[c][i][3] <= published
    BY <1>1, <1>5 DEF OrderInv
  <2>2. \A p \in Publishers :
          buf[c][i][1] = p /\ Due(p, c) => buf[c][i][3] < data[p]
    BY <1>5 DEF OrderInv
  <2> QED BY <2>1, <2>2, <1>2
<1> QED BY <1>3, <1>4, <1>5 DEF OrderInv

\* An accepted event goes to the end, after the older ones of its publisher.
LEMMA OfferOrder ==
  ASSUME TypeOK, OrderInv, NEW p \in Publishers, NEW c \in Chans, Offer(p, c)
  PROVE  OrderInv'
<1> DEFINE e == <<p, topic[p], data[p]>>
<1>1. /\ at[p] = "send" /\ c \in rest[p] /\ Due(p, c)
      /\ rest' = [rest EXCEPT ![p] = @ \ {c}]
      /\ UNCHANGED <<at, topic, data, published>>
  BY DEF Offer, Due
<1>2. \A q \in Publishers, d \in Chans :
        Due(q, d)' => Due(q, d) /\ ~(q = p /\ d = c)
  BY <1>1 DEF Due, TypeOK
<1>3. e \in Event /\ data[p] \in Nat /\ data[p] <= published /\ published \in Nat
  BY BusAssumption DEF TypeOK, Event, OrderInv
<1>4. CASE buf' = buf
  BY <1>1, <1>2, <1>4 DEF OrderInv, PublisherOrder
<1>5. CASE buf' = [buf EXCEPT ![c] = Append(@, e)]
  <2>1. /\ buf[c] \in Seq(Event)
        /\ Len(buf[c]) \in Nat
        /\ DOMAIN buf[c] = 1 .. Len(buf[c])
    BY LenProperties DEF TypeOK
  <2>2. /\ DOMAIN buf'[c] = 1 .. Len(buf[c]) + 1
        /\ buf'[c][Len(buf[c]) + 1] = e
        /\ \A i \in 1 .. Len(buf[c]) : buf'[c][i] = buf[c][i]
        /\ \A d \in Chans \ {c} : buf'[d] = buf[d]
    BY <1>3, <1>5, <2>1, AppendProperties DEF TypeOK
  <2>3. \A d \in Chans : \A i \in DOMAIN buf'[d] :
          \/ i \in DOMAIN buf[d] /\ buf'[d][i] = buf[d][i]
          \/ d = c /\ i = Len(buf[c]) + 1 /\ buf'[d][i] = e
    <3> SUFFICES ASSUME NEW d \in Chans, NEW i \in DOMAIN buf'[d]
                 PROVE  \/ i \in DOMAIN buf[d] /\ buf'[d][i] = buf[d][i]
                        \/ d = c /\ i = Len(buf[c]) + 1 /\ buf'[d][i] = e
      OBVIOUS
    <3>1. CASE d # c
      BY <2>2, <3>1
    <3>2. CASE d = c
      <4>1. i \in 1 .. Len(buf[c]) \/ i = Len(buf[c]) + 1
        BY <2>1, <2>2, <3>2
      <4> QED BY <2>1, <2>2, <3>2, <4>1
    <3> QED BY <3>1, <3>2
  <2>4. \A d \in Chans : \A i \in DOMAIN buf'[d] :
          /\ buf'[d][i][3] <= published'
          /\ \A q \in Publishers :
               buf'[d][i][1] = q /\ Due(q, d)' => buf'[d][i][3] < data'[q]
    BY <1>1, <1>2, <1>3, <2>3 DEF OrderInv
  <2>5. PublisherOrder'
    <3> SUFFICES ASSUME NEW d \in Chans,
                        NEW i \in DOMAIN buf'[d], NEW j \in DOMAIN buf'[d],
                        i < j, buf'[d][i][1] = buf'[d][j][1]
                 PROVE  buf'[d][i][3] < buf'[d][j][3]
      BY DEF PublisherOrder
    <3>1. CASE d = c /\ j = Len(buf[c]) + 1
      <4>1. i \in DOMAIN buf[c] /\ buf'[c][i] = buf[c][i]
        BY <3>1, <2>1, <2>2
      <4>2. buf'[d][j] = e
        BY <3>1, <2>2
      <4> QED BY <3>1, <4>1, <4>2, <1>1 DEF OrderInv
    <3>2. CASE ~(d = c /\ j = Len(buf[c]) + 1)
      <4>1. /\ i \in DOMAIN buf[d] /\ j \in DOMAIN buf[d]
            /\ buf'[d][i] = buf[d][i] /\ buf'[d][j] = buf[d][j]
        BY <3>2, <2>1, <2>2, <2>3
      <4> QED BY <4>1 DEF OrderInv, PublisherOrder
    <3> QED BY <3>1, <3>2
  <2>6. \A q \in Publishers : data'[q] <= published'
    BY <1>1 DEF OrderInv
  <2> QED BY <2>4, <2>5, <2>6 DEF OrderInv
<1> QED BY <1>4, <1>5 DEF Offer

\* Receiving takes the oldest event and keeps the order of the others.
LEMMA ReceiveOrder ==
  ASSUME TypeOK, OrderInv, NEW c \in Chans, Receive(c)
  PROVE  OrderInv'
<1>1. /\ buf' = [buf EXCEPT ![c] = Tail(@)]
      /\ buf[c] # <<>>
      /\ UNCHANGED <<at, data, published, rest>>
  BY DEF Receive, pubVars
<1>2. buf[c] \in Seq(Event) /\ Len(buf[c]) \in Nat
      /\ DOMAIN buf[c] = 1 .. Len(buf[c])
  BY LenProperties DEF TypeOK
<1>3. /\ Len(Tail(buf[c])) = Len(buf[c]) - 1
      /\ Tail(buf[c]) \in Seq(Event)
      /\ \A i \in 1 .. Len(buf[c]) - 1 : Tail(buf[c])[i] = buf[c][i + 1]
  BY <1>1, <1>2, HeadTailProperties
<1>4. DOMAIN Tail(buf[c]) = 1 .. Len(buf[c]) - 1
  BY <1>3, LenProperties
<1>5. \A i \in DOMAIN buf'[c] : i + 1 \in DOMAIN buf[c] /\ buf'[c][i] = buf[c][i + 1]
  BY <1>1, <1>2, <1>3, <1>4 DEF TypeOK
<1>6. \A d \in Chans \ {c} : buf'[d] = buf[d]
  BY <1>1 DEF TypeOK
<1>7. \A i, j \in DOMAIN buf'[c] : i \in Int /\ j \in Int /\ (i < j => i + 1 < j + 1)
  BY <1>1, <1>2, <1>4 DEF TypeOK
<1>8. \A q \in Publishers, d \in Chans : Due(q, d)' <=> Due(q, d)
  BY <1>1 DEF Due
<1>9. PublisherOrder'
  <2> SUFFICES ASSUME NEW d \in Chans,
                      NEW i \in DOMAIN buf'[d], NEW j \in DOMAIN buf'[d],
                      i < j, buf'[d][i][1] = buf'[d][j][1]
               PROVE  buf'[d][i][3] < buf'[d][j][3]
    BY DEF PublisherOrder
  <2>1. CASE d = c
    BY <2>1, <1>5, <1>7 DEF OrderInv, PublisherOrder
  <2>2. CASE d # c
    BY <2>2, <1>6 DEF OrderInv, PublisherOrder
  <2> QED BY <2>1, <2>2
<1>10. \A d \in Chans : \A i \in DOMAIN buf'[d] :
         /\ buf'[d][i][3] <= published'
         /\ \A q \in Publishers :
              buf'[d][i][1] = q /\ Due(q, d)' => buf'[d][i][3] < data'[q]
  BY <1>1, <1>5, <1>6, <1>8 DEF OrderInv
<1>11. \A q \in Publishers : data'[q] <= published'
  BY <1>1 DEF OrderInv
<1> QED BY <1>9, <1>10, <1>11 DEF OrderInv

LEMMA StepOrder == TypeOK /\ OrderInv /\ [Next]_vars => OrderInv'
<1> SUFFICES ASSUME TypeOK, OrderInv, [Next]_vars
             PROVE  OrderInv'
  OBVIOUS
<1>1. published \in Nat /\ \A p \in Publishers : data[p] \in Nat
  BY BusAssumption DEF TypeOK
<1>2. ASSUME NEW p \in Publishers, NEW t \in Topics, Publish(p, t)
      PROVE  OrderInv'
  <2>1. /\ buf' = buf
        /\ published' \in Nat /\ published < published'
        /\ data' = [data EXCEPT ![p] = published']
        /\ rest' = rest
        /\ \A q \in Publishers \ {p} : at'[q] = at[q]
    BY <1>1, <1>2 DEF Publish, chanVars, TypeOK
  <2>2. \A q \in Publishers \ {p} :
          data'[q] = data[q] /\ \A c \in Chans : Due(q, c)' => Due(q, c)
    BY <2>1 DEF Due, TypeOK
  <2>3. data'[p] = published'
    BY <2>1 DEF TypeOK
  <2>4. published <= published'
    BY <1>1, <2>1
  <2> QED BY <2>1, <2>2, <2>3, <2>4, QuietOrder
<1>3. ASSUME NEW p \in Publishers, ReadList(p)
      PROVE  OrderInv'
  <2>1. /\ UNCHANGED <<buf, published, data>>
        /\ \A q \in Publishers, c \in Chans : Due(q, c)' => Due(q, c)
    BY <1>3 DEF ReadList, chanVars, Due, TypeOK
  <2> QED BY <1>1, <2>1, QuietOrder
<1>4. ASSUME NEW p \in Publishers, NEW c \in Chans, Offer(p, c)
      PROVE  OrderInv'
  BY <1>4, OfferOrder
<1>5. ASSUME NEW p \in Publishers, Return(p)
      PROVE  OrderInv'
  <2>1. /\ UNCHANGED <<buf, published>>
        /\ data'[p] = 0 /\ \A c \in Chans : ~Due(p, c)'
        /\ \A q \in Publishers \ {p} :
             data'[q] = data[q] /\ \A c \in Chans : Due(q, c)' => Due(q, c)
    BY <1>5 DEF Return, chanVars, Due, TypeOK
  <2> QED BY <1>1, <2>1, QuietOrder
<1>6. ASSUME NEW w \in Clients, Calling(w)
      PROVE  OrderInv'
  <2>1. /\ UNCHANGED <<buf, published, data, rest>>
        /\ \A q \in Publishers : at'[q] = at[q] \/ (at[q] = "queued" /\ at'[q] = "range")
    <3>1. CASE UNCHANGED <<buf, pubVars>>
      BY <3>1 DEF pubVars
    <3>2. CASE Unlock(w) /\ UNCHANGED <<buf, published, data, rest>>
      BY <3>2 DEF Unlock
    <3> QED BY <1>6, <3>1, <3>2 DEF Calling, CallSubscribe, CallUnsubscribe, CallClose,
               Announce, Acquire, Subscribe, Unsubscribe, Close, chanVars
  <2>2. \A q \in Publishers, c \in Chans : Due(q, c)' => Due(q, c)
    BY <2>1 DEF Due
  <2> QED BY <1>1, <2>1, <2>2, QuietOrder
<1>7. ASSUME NEW c \in Chans, Receive(c)
      PROVE  OrderInv'
  BY <1>7, ReceiveOrder
<1>8. CASE UNCHANGED vars
  <2>1. UNCHANGED <<buf, published, data, rest, at>>
    BY <1>8 DEF vars, chanVars, pubVars
  <2>2. \A q \in Publishers, c \in Chans : Due(q, c)' => Due(q, c)
    BY <2>1 DEF Due
  <2> QED BY <1>1, <2>1, <2>2, QuietOrder
<1> QED BY <1>2, <1>3, <1>4, <1>5, <1>6, <1>7, <1>8 DEF Next, Publishing

\* A subscriber never sees two events of a publisher swapped or repeated.
THEOREM PublisherOrderHolds == Spec => []PublisherOrder
<1>1. Init => OrderInv
  BY InitOrder
<1>2. TypeOK /\ OrderInv /\ [Next]_vars => OrderInv'
  BY StepOrder
<1>3. OrderInv => PublisherOrder
  BY DEF OrderInv
<1> QED BY <1>1, <1>2, <1>3, TypeCorrect, PTL DEF Spec
-----------------------------------------------------------------------------
(* The bus implements LossyFanout.                                         *)

LEMMA InitFanout == Init => Fanout!Init
BY DEF Init, Fanout!Init

\* While a writer is inside, the abstract bus is quiet.
LEMMA WriterQuiet ==
  ASSUME TypeOK, LockInv, NEW w \in Clients, writer = w
  PROVE  Fanout!Quiet
<1>1. \A p \in Publishers : at[p] # "send"
  BY BusAssumption DEF LockInv
<1> QED BY <1>1 DEF Fanout!Quiet, Fanout!Broadcasting

\* Every step of the bus is a step of the fan-out or leaves it as it is.
LEMMA StepFanout ==
  TypeOK /\ LockInv /\ ListInv /\ [Next]_vars => [Fanout!Next]_(Fanout!vars)
<1> SUFFICES ASSUME TypeOK, LockInv, ListInv, [Next]_vars
             PROVE  Fanout!Next \/ UNCHANGED Fanout!vars
  OBVIOUS
<1> DEFINE ev == [p \in Publishers |->
                   IF at[p] = "send" THEN <<p, topic[p], data[p]>> ELSE <<>>]
<1>1. ASSUME NEW p \in Publishers, NEW t \in Topics, Publish(p, t)
      PROVE  UNCHANGED Fanout!vars
  <2>1. ev' = ev
    BY <1>1 DEF Publish, TypeOK
  <2> QED BY <1>1, <2>1 DEF Publish, chanVars, Fanout!vars
<1>2. ASSUME NEW p \in Publishers, ReadList(p),
             NEW t \in Topics, NEW d \in 0 .. MaxEvents, t = topic[p], d = data[p]
      PROVE  Fanout!Begin(p, t, d)
  <2>1. ev[p] = <<>>
    BY <1>2 DEF ReadList
  <2>2. ev' = [ev EXCEPT ![p] = <<p, topic[p], data[p]>>]
    BY <1>2 DEF ReadList, TypeOK
  <2> QED BY <1>2, <2>1, <2>2 DEF ReadList, chanVars, Fanout!Begin, Fanout!Broadcasting
<1>3. ASSUME NEW p \in Publishers, NEW c \in Chans, Offer(p, c)
      PROVE  Fanout!Offer(p, c)
  <2>1. ev' = ev /\ ev[p] = <<p, topic[p], data[p]>>
    BY <1>3 DEF Offer
  <2>2. c \notin closed
    BY <1>3 DEF Offer, ListInv
  <2> QED BY <1>3, <2>1, <2>2 DEF Offer, Fanout!Offer
<1>4. ASSUME NEW p \in Publishers, Return(p)
      PROVE  Fanout!End(p)
  <2>1. ev[p] # <<>>
    BY <1>4 DEF Return
  <2>2. ev' = [ev EXCEPT ![p] = <<>>]
    BY <1>4 DEF Return, TypeOK
  <2> QED BY <1>4, <2>1, <2>2 DEF Return, chanVars, Fanout!End, Fanout!Broadcasting
<1>5. ASSUME NEW w \in Clients,
             \/ \E t \in Topics, c \in Chans :
                  CallSubscribe(w, t, c) \/ CallUnsubscribe(w, t, c)
             \/ CallClose(w) \/ Announce(w) \/ Acquire(w)
      PROVE  UNCHANGED Fanout!vars
  BY <1>5 DEF CallSubscribe, CallUnsubscribe, CallClose, Announce, Acquire,
              chanVars, pubVars, Fanout!vars
<1>6. ASSUME NEW w \in Clients, Unlock(w), UNCHANGED <<topic, data>>
      PROVE  ev' = ev
  BY <1>6 DEF Unlock
<1>7. ASSUME NEW w \in Clients, Subscribe(w)
      PROVE  Fanout!Join(call[w].topic, call[w].chan)
  BY <1>6, <1>7, WriterQuiet DEF Subscribe, ListInv, Fanout!Join
<1>8. ASSUME NEW w \in Clients, Unsubscribe(w)
      PROVE  Fanout!Leave(call[w].topic, call[w].chan) \/ UNCHANGED Fanout!vars
  BY <1>6, <1>8, WriterQuiet DEF Unsubscribe, Fanout!Leave, Fanout!vars
<1>9. ASSUME NEW w \in Clients, Close(w)
      PROVE  Fanout!Shutdown
  BY <1>6, <1>9, WriterQuiet DEF Close, Fanout!Shutdown
<1>10. ASSUME NEW c \in Chans, Receive(c)
       PROVE  Fanout!Take(c)
  BY <1>10 DEF Receive, pubVars, Fanout!Take
<1>11. CASE UNCHANGED vars
  BY <1>11 DEF vars, chanVars, pubVars, Fanout!vars
<1>12. \A w \in Clients : call[w].op \in {"subscribe", "unsubscribe"} =>
         call[w].topic \in Topics /\ call[w].chan \in Chans
  BY CallFields
<1>13. \A p \in Publishers : topic[p] \in Topics /\ data[p] \in 0 .. MaxEvents
  BY DEF TypeOK
<1>14. ASSUME NEW p \in Publishers, Publishing(p)
       PROVE  Fanout!Next \/ UNCHANGED Fanout!vars
  <2>1. CASE ReadList(p)
    <3>1. PICK t \in Topics, d \in 0 .. MaxEvents : t = topic[p] /\ d = data[p]
      BY <1>13
    <3>2. Fanout!Begin(p, t, d)
      BY <1>2, <2>1, <3>1
    <3> QED BY <3>2 DEF Fanout!Next
  <2>2. ASSUME NEW c \in Chans, Offer(p, c)
        PROVE  Fanout!Next
    BY <1>3, <2>2 DEF Fanout!Next
  <2>3. CASE Return(p)
    BY <1>4, <2>3 DEF Fanout!Next
  <2> QED BY <1>1, <1>14, <2>1, <2>2, <2>3 DEF Publishing
<1>15. ASSUME NEW w \in Clients, Calling(w)
       PROVE  Fanout!Next \/ UNCHANGED Fanout!vars
  <2>1. CASE Subscribe(w)
    BY <1>7, <1>12, <2>1 DEF Subscribe, Fanout!Next
  <2>2. CASE Unsubscribe(w)
    BY <1>8, <1>12, <2>2 DEF Unsubscribe, Fanout!Next
  <2>3. CASE Close(w)
    BY <1>9, <2>3 DEF Fanout!Next
  <2> QED BY <1>5, <1>15, <2>1, <2>2, <2>3 DEF Calling
<1> QED BY <1>10, <1>11, <1>14, <1>15 DEF Next, Fanout!Next

\* Users of the bus may reason with LossyFanout alone.
THEOREM BusImplementsFanout == Spec => ImplementsFanout
<1>1. Init => Fanout!Init
  BY InitFanout
<1>2. TypeOK /\ LockInv /\ ListInv /\ [Next]_vars => [Fanout!Next]_(Fanout!vars)
  BY StepFanout
<1> QED
  BY <1>1, <1>2, BusInvariant, PTL DEF Spec, ImplementsFanout, Fanout!Spec
=============================================================================
