------------------------------ MODULE EventBus ------------------------------
(***************************************************************************)
(* internal/bus/bus.go: the fan-out event bus every snapshot goes through. *)
(*                                                                         *)
(* One RWMutex guards the subscriber lists.  Publish holds it for reading  *)
(* while it walks the list of a topic; Subscribe, Unsubscribe and Close    *)
(* hold it for writing.  The step of an action here is what runs between   *)
(* two points at which another goroutine can observe or disturb the bus:   *)
(* a lock request, the read of the list, each channel send, an unlock.     *)
(*                                                                         *)
(* sync.RWMutex is modelled by what its documentation promises and its     *)
(* callers rely on: a writer first announces itself, from then on readers  *)
(* queue up behind it, it enters when the readers that hold the lock have  *)
(* left, and its unlock admits the readers that queued meanwhile.          *)
(*                                                                         *)
(* The order of a topic's subscriber slice is not modelled (a set stands   *)
(* for it): no caller can tell in which order one Publish visits channels. *)
(***************************************************************************)
EXTENDS Naturals, Sequences

CONSTANTS
  Publishers,   \* goroutines that call Publish (the registry's bridges)
  Clients,      \* goroutines that call Subscribe, Unsubscribe or Close
  Topics,       \* topic names
  Chans,        \* the channels that Subscribe may ever make
  BufferSize,   \* bus.bufferSize, 16 in the code
  MaxEvents,    \* bound: calls to Publish in a behaviour
  None          \* no client

ASSUME BusAssumption ==
  /\ BufferSize \in Nat \ {0}
  /\ MaxEvents \in Nat
  /\ None \notin Clients

VARIABLES
  subscribers,  \* Bus.subscribers: topic to its open channels
  made,         \* channels make() has returned
  closed,       \* channels close() was called on
  buf,          \* buf[c]: the buffered events of channel c
  pending,      \* the client that announced itself as writer, or None
  writer,       \* the client that holds mu for writing, or None
  readers,      \* the publishers that hold mu for reading
  call,         \* call[w]: the call client w is in
  at,           \* at[p]: where publisher p is in Publish
  topic,        \* topic[p]: the topic argument of p's last Publish
  data,         \* data[p]: the data argument, the number of the call; 0 outside
  published,    \* calls to Publish so far
  rest          \* rest[p]: channels p's range loop has still to visit

chanVars == <<subscribers, made, closed, buf>>
muVars == <<pending, writer, readers>>
pubVars == <<at, topic, data, published, rest>>
vars == <<chanVars, muVars, pubVars, call>>

Event == Publishers \X Topics \X (0 .. MaxEvents)

NoCall == [op |-> "none"]
Call ==
  {NoCall}
    \cup [op : {"subscribe", "unsubscribe"}, topic : Topics, chan : Chans]
    \cup [op : {"close"}]

Init ==
  /\ subscribers = [t \in Topics |-> {}]
  /\ made = {}
  /\ closed = {}
  /\ buf = [c \in Chans |-> <<>>]
  /\ pending = None
  /\ writer = None
  /\ readers = {}
  /\ call = [w \in Clients |-> NoCall]
  /\ at \in [Publishers -> {"idle"}]
  /\ topic \in [Publishers -> Topics]
  /\ data = [p \in Publishers |-> 0]
  /\ published = 0
  /\ rest = [p \in Publishers |-> {}]
-----------------------------------------------------------------------------
(* Publish.                                                                *)

\* b.mu.RLock(): taken at once, or queued behind a writer that announced.
Publish(p, t) ==
  /\ at[p] = "idle"
  /\ published < MaxEvents
  /\ topic' = [topic EXCEPT ![p] = t]
  /\ published' = published + 1
  /\ data' = [data EXCEPT ![p] = published']
  /\ \/ /\ pending = None
        /\ readers' = readers \cup {p}
        /\ at' = [at EXCEPT ![p] = "range"]
     \/ /\ pending # None
        /\ at' = [at EXCEPT ![p] = "queued"]
        /\ UNCHANGED readers
  /\ UNCHANGED <<chanVars, pending, writer, rest, call>>

\* Mutant of ReadList: the list is copied and the lock released before sending.
ReadListUnlocks(p) ==
  /\ at[p] = "range"
  /\ rest' = [rest EXCEPT ![p] = subscribers[topic[p]]]
  /\ at' = [at EXCEPT ![p] = "send"]
  /\ readers' = readers \ {p}
  /\ UNCHANGED <<chanVars, pending, writer, topic, data, published, call>>

\* range b.subscribers[topic]: the list is read once, under the lock.
ReadList(p) ==
  /\ at[p] = "range"
  /\ rest' = [rest EXCEPT ![p] = subscribers[topic[p]]]
  /\ at' = [at EXCEPT ![p] = "send"]
  /\ UNCHANGED <<chanVars, muVars, topic, data, published, call>>

\* Mutant of Offer: the buffer takes one event more than it has room for.
OfferOffByOne(p, c) ==
  /\ at[p] = "send"
  /\ c \in rest[p]
  /\ rest' = [rest EXCEPT ![p] = @ \ {c}]
  /\ buf' = IF Len(buf[c]) <= BufferSize
              THEN [buf EXCEPT ![c] = Append(@, <<p, topic[p], data[p]>>)]
              ELSE buf
  /\ UNCHANGED <<subscribers, made, closed, muVars, at, topic, data, published, call>>

\* Mutant of Offer: the send has no default case, so a full buffer blocks.
OfferBlocking(p, c) ==
  /\ at[p] = "send"
  /\ c \in rest[p]
  /\ Len(buf[c]) < BufferSize
  /\ rest' = [rest EXCEPT ![p] = @ \ {c}]
  /\ buf' = [buf EXCEPT ![c] = Append(@, <<p, topic[p], data[p]>>)]
  /\ UNCHANGED <<subscribers, made, closed, muVars, at, topic, data, published, call>>

\* Mutant of Offer: the loop does not advance past a channel it sent on.
OfferTwice(p, c) ==
  /\ at[p] = "send"
  /\ c \in rest[p]
  /\ \/ /\ Len(buf[c]) < BufferSize
        /\ buf' = [buf EXCEPT ![c] = Append(@, <<p, topic[p], data[p]>>)]
        /\ UNCHANGED rest
     \/ /\ rest' = [rest EXCEPT ![p] = @ \ {c}]
        /\ UNCHANGED buf
  /\ UNCHANGED <<subscribers, made, closed, muVars, at, topic, data, published, call>>

\* select { case ch <- data: default: }: sent, or dropped for this channel.
Offer(p, c) ==
  /\ at[p] = "send"
  /\ c \in rest[p]
  /\ rest' = [rest EXCEPT ![p] = @ \ {c}]
  /\ buf' = IF Len(buf[c]) < BufferSize
              THEN [buf EXCEPT ![c] = Append(@, <<p, topic[p], data[p]>>)]
              ELSE buf
  /\ UNCHANGED <<subscribers, made, closed, muVars, at, topic, data, published, call>>

\* The deferred RUnlock.
Return(p) ==
  /\ at[p] = "send"
  /\ rest[p] = {}
  /\ at' = [at EXCEPT ![p] = "idle"]
  /\ readers' = readers \ {p}
  /\ data' = [data EXCEPT ![p] = 0]
  /\ UNCHANGED <<chanVars, pending, writer, topic, published, rest, call>>
-----------------------------------------------------------------------------
(* Subscribe, Unsubscribe and Close.                                       *)

\* Subscribe makes its channel before it asks for the lock.
CallSubscribe(w, t, c) ==
  /\ call[w] = NoCall
  /\ c \notin made
  /\ made' = made \cup {c}
  /\ call' = [call EXCEPT ![w] = [op |-> "subscribe", topic |-> t, chan |-> c]]
  /\ UNCHANGED <<subscribers, closed, buf, muVars, pubVars>>

\* Any channel, subscribed to that topic or not, closed already or not.
CallUnsubscribe(w, t, c) ==
  /\ call[w] = NoCall
  /\ c \in made
  /\ call' = [call EXCEPT ![w] = [op |-> "unsubscribe", topic |-> t, chan |-> c]]
  /\ UNCHANGED <<chanVars, muVars, pubVars>>

CallClose(w) ==
  /\ call[w] = NoCall
  /\ call' = [call EXCEPT ![w] = [op |-> "close"]]
  /\ UNCHANGED <<chanVars, muVars, pubVars>>

\* b.mu.Lock(), first half: one writer at a time; new readers now wait.
Announce(w) ==
  /\ call[w] # NoCall
  /\ pending = None
  /\ pending' = w
  /\ UNCHANGED <<chanVars, writer, readers, pubVars, call>>

\* b.mu.Lock(), second half: the readers inside have left.
Acquire(w) ==
  /\ pending = w
  /\ writer = None
  /\ readers = {}
  /\ writer' = w
  /\ UNCHANGED <<chanVars, pending, readers, pubVars, call>>

\* b.mu.Unlock() and the return: the readers that queued get in.
Unlock(w) ==
  /\ pending' = None
  /\ writer' = None
  /\ readers' = {p \in Publishers : at[p] = "queued"}
  /\ at' = [p \in Publishers |-> IF at[p] = "queued" THEN "range" ELSE at[p]]
  /\ call' = [call EXCEPT ![w] = NoCall]

Subscribe(w) ==
  /\ writer = w
  /\ call[w].op = "subscribe"
  /\ subscribers' = [subscribers EXCEPT ![call[w].topic] = @ \cup {call[w].chan}]
  /\ Unlock(w)
  /\ UNCHANGED <<made, closed, buf, topic, data, published, rest>>

\* Mutant of Unsubscribe: without the defer, the not-found path keeps the lock.
UnsubscribeLeaksLock(w) ==
  /\ writer = w
  /\ call[w].op = "unsubscribe"
  /\ call[w].chan \in subscribers[call[w].topic]
  /\ subscribers' = [subscribers EXCEPT ![call[w].topic] = @ \ {call[w].chan}]
  /\ closed' = closed \cup {call[w].chan}
  /\ Unlock(w)
  /\ UNCHANGED <<made, buf, topic, data, published, rest>>

Unsubscribe(w) ==
  /\ writer = w
  /\ call[w].op = "unsubscribe"
  /\ \/ /\ call[w].chan \in subscribers[call[w].topic]
        /\ subscribers' = [subscribers EXCEPT ![call[w].topic] = @ \ {call[w].chan}]
        /\ closed' = closed \cup {call[w].chan}
     \/ /\ call[w].chan \notin subscribers[call[w].topic]
        /\ UNCHANGED <<subscribers, closed>>
  /\ Unlock(w)
  /\ UNCHANGED <<made, buf, topic, data, published, rest>>

\* Mutant of Close: the lists are not deleted.
CloseKeepsLists(w) ==
  /\ writer = w
  /\ call[w].op = "close"
  /\ closed' = closed \cup UNION {subscribers[t] : t \in Topics}
  /\ Unlock(w)
  /\ UNCHANGED <<subscribers, made, buf, topic, data, published, rest>>

Close(w) ==
  /\ writer = w
  /\ call[w].op = "close"
  /\ closed' = closed \cup UNION {subscribers[t] : t \in Topics}
  /\ subscribers' = [t \in Topics |-> {}]
  /\ Unlock(w)
  /\ UNCHANGED <<made, buf, topic, data, published, rest>>
-----------------------------------------------------------------------------
\* A subscriber's receive: a closed channel still yields what it buffered.
Receive(c) ==
  /\ buf[c] # <<>>
  /\ buf' = [buf EXCEPT ![c] = Tail(@)]
  /\ UNCHANGED <<subscribers, made, closed, muVars, pubVars, call>>

Publishing(p) ==
  \/ \E t \in Topics : Publish(p, t)
  \/ ReadList(p)
  \/ \E c \in Chans : Offer(p, c)
  \/ Return(p)

Calling(w) ==
  \/ \E t \in Topics, c \in Chans : CallSubscribe(w, t, c) \/ CallUnsubscribe(w, t, c)
  \/ CallClose(w)
  \/ Announce(w)
  \/ Acquire(w)
  \/ Subscribe(w)
  \/ Unsubscribe(w)
  \/ Close(w)

Next ==
  \/ \E p \in Publishers : Publishing(p)
  \/ \E w \in Clients : Calling(w)
  \/ \E c \in Chans : Receive(c)

Spec == Init /\ [][Next]_vars

\* A goroutine inside a call keeps running.  The mutex hands itself over to
\* every waiting writer in turn (its starvation mode), hence SF on Announce.
\* Nothing is assumed of subscribers: they may never receive.
Fairness ==
  /\ \A p \in Publishers :
       WF_vars(ReadList(p) \/ (\E c \in Chans : Offer(p, c)) \/ Return(p))
  /\ \A w \in Clients :
       /\ SF_vars(Announce(w))
       /\ WF_vars(Acquire(w) \/ Subscribe(w) \/ Unsubscribe(w) \/ Close(w))

FairSpec == Spec /\ Fairness
-----------------------------------------------------------------------------
TypeOK ==
  /\ subscribers \in [Topics -> SUBSET Chans]
  /\ made \subseteq Chans
  /\ closed \subseteq Chans
  /\ buf \in [Chans -> Seq(Event)]
  /\ \A c \in Chans : Len(buf[c]) <= BufferSize
  /\ pending \in Clients \cup {None}
  /\ writer \in Clients \cup {None}
  /\ readers \subseteq Publishers
  /\ call \in [Clients -> Call]
  /\ at \in [Publishers -> {"idle", "queued", "range", "send"}]
  /\ topic \in [Publishers -> Topics]
  /\ data \in [Publishers -> 0 .. MaxEvents]
  /\ published \in 0 .. MaxEvents
  /\ rest \in [Publishers -> SUBSET Chans]

\* No goroutine can ever send on, or close, a channel that is closed (either
\* panics): what a range loop has left to visit is open, and a channel is
\* closed in the same critical section that takes it off its list.
NoUseAfterClose ==
  /\ \A p \in Publishers : rest[p] \cap closed = {}
  /\ \A t \in Topics : subscribers[t] \cap closed = {}

\* A subscriber sees the events of one publisher in the order that publisher
\* published them and none twice, whatever was dropped in between.
PublisherOrder ==
  \A c \in Chans : \A i, j \in DOMAIN buf[c] :
    (i < j /\ buf[c][i][1] = buf[c][j][1]) => buf[c][i][3] < buf[c][j][3]

\* Publish never blocks on a subscriber: it returns even if nobody receives.
PublishReturns == \A p \in Publishers : at[p] # "idle" ~> at[p] = "idle"

\* Subscribe, Unsubscribe and Close return however much is being published.
CallsReturn == \A w \in Clients : call[w] # NoCall ~> call[w] = NoCall

\* The bus implements the lossy fan-out its users rely on.
Fanout == INSTANCE LossyFanout WITH
  Data <- 0 .. MaxEvents,
  members <- subscribers,
  queue <- buf,
  todo <- rest,
  event <- [p \in Publishers |->
              IF at[p] = "send" THEN <<p, topic[p], data[p]>> ELSE <<>>]

ImplementsFanout == Fanout!Spec
=============================================================================
