---------------------------- MODULE LossyFanout ----------------------------
(***************************************************************************)
(* What the event bus promises to its users, with no lock, no slice and no *)
(* goroutine in it.                                                        *)
(*                                                                         *)
(* A topic has a set of members, each a bounded queue.  A broadcast offers *)
(* one event, once, to every queue that was a member when the broadcast    *)
(* began.  A queue that is full loses that event and no other.  Membership *)
(* changes only between broadcasts, so a closed queue is never offered     *)
(* anything: in Go, a send on a closed channel would panic.                *)
(***************************************************************************)
EXTENDS Naturals, Sequences

CONSTANTS
  Publishers,   \* goroutines that broadcast
  Topics,       \* topic names
  Chans,        \* the channels that may ever be made
  Data,         \* what may be broadcast
  BufferSize    \* capacity of a channel

VARIABLES
  members,      \* members[t]: the queues subscribed to topic t
  queue,        \* queue[c]: events accepted by c and not yet taken
  closed,       \* the queues that have been closed
  todo,         \* todo[p]: the queues p's broadcast has still to offer to
  event         \* event[p]: what p is broadcasting, <<>> when it is not

vars == <<members, queue, closed, todo, event>>

Broadcasting(p) == event[p] # <<>>
Quiet == \A p \in Publishers : ~Broadcasting(p)

Init ==
  /\ members = [t \in Topics |-> {}]
  /\ queue = [c \in Chans |-> <<>>]
  /\ closed = {}
  /\ todo = [p \in Publishers |-> {}]
  /\ event = [p \in Publishers |-> <<>>]

Begin(p, t, d) ==
  /\ ~Broadcasting(p)
  /\ event' = [event EXCEPT ![p] = <<p, t, d>>]
  /\ todo' = [todo EXCEPT ![p] = members[t]]
  /\ UNCHANGED <<members, queue, closed>>

Offer(p, c) ==
  /\ c \in todo[p]
  /\ c \notin closed
  /\ todo' = [todo EXCEPT ![p] = @ \ {c}]
  /\ queue' = IF Len(queue[c]) < BufferSize
                THEN [queue EXCEPT ![c] = Append(@, event[p])]
                ELSE queue
  /\ UNCHANGED <<members, closed, event>>

End(p) ==
  /\ Broadcasting(p)
  /\ todo[p] = {}
  /\ event' = [event EXCEPT ![p] = <<>>]
  /\ UNCHANGED <<members, queue, closed, todo>>

Join(t, c) ==
  /\ Quiet
  /\ c \notin closed
  /\ \A u \in Topics : c \notin members[u]
  /\ members' = [members EXCEPT ![t] = @ \cup {c}]
  /\ UNCHANGED <<queue, closed, todo, event>>

Leave(t, c) ==
  /\ Quiet
  /\ c \in members[t]
  /\ members' = [members EXCEPT ![t] = @ \ {c}]
  /\ closed' = closed \cup {c}
  /\ UNCHANGED <<queue, todo, event>>

Shutdown ==
  /\ Quiet
  /\ closed' = closed \cup UNION {members[t] : t \in Topics}
  /\ members' = [t \in Topics |-> {}]
  /\ UNCHANGED <<queue, todo, event>>

Take(c) ==
  /\ queue[c] # <<>>
  /\ queue' = [queue EXCEPT ![c] = Tail(@)]
  /\ UNCHANGED <<members, closed, todo, event>>

Next ==
  \/ \E p \in Publishers, t \in Topics, d \in Data : Begin(p, t, d)
  \/ \E p \in Publishers, c \in Chans : Offer(p, c)
  \/ \E p \in Publishers : End(p)
  \/ \E t \in Topics, c \in Chans : Join(t, c) \/ Leave(t, c)
  \/ Shutdown
  \/ \E c \in Chans : Take(c)

Spec == Init /\ [][Next]_vars
=============================================================================
