--------------------------- MODULE NotificationManager ---------------------------
(***************************************************************************)
(* The NotificationQueue and NotificationManager of src/notification.rs:   *)
(* anybody sends notifications to the two lanes of the queue, and one task *)
(* streams them and sends a clone of each to every processor subscribed to *)
(* its topic, one UnboundedSender after the other.                         *)
(*                                                                         *)
(* The queue is a PriorityMailbox, which is what StreamableDeque is shown  *)
(* to implement.  It takes notifications before the manager is there.      *)
(***************************************************************************)
EXTENDS Naturals, Sequences

CONSTANTS
  Topic,      \* topics of notifications
  Processor,  \* implementations of NotificationProcessor
  Body        \* what a notification carries

VARIABLES
  queue,       \* the notifications that wait in the NotificationQueue
  sent,        \* how many were sent; the n-th has stamp n
  what,        \* what the n-th notification is
  managed,     \* whether the task of a NotificationManager has been spawned
  subscribed,  \* the processors given to it, with their topics, in their order
  current,     \* the notification that the task is fanning out, or 0
  rest,        \* the places in `subscribed` of those it has still to be sent to
  channel,     \* what was sent into the channel of each processor, from the first on
  closed,      \* processors whose receiver is gone
  routed       \* history: what the task took from the queue, in order

nmTask == <<managed, subscribed, current, rest, channel, routed>>
nmVars == <<queue, sent, what, nmTask, closed>>

Queue == INSTANCE PriorityMailbox WITH waiting <- queue

Subscription == [name : Processor, topics : SUBSET Topic]

NmTypeOK ==
  /\ queue \subseteq [lane : {"front", "back"}, stamp : 1..sent]
  /\ what \in Seq([topic : Topic, lane : {"front", "back"}, body : Body]) /\ Len(what) = sent
  /\ managed \in BOOLEAN
  /\ subscribed \in Seq(Subscription)
  /\ current \in 0..sent
  /\ rest \subseteq DOMAIN subscribed
  /\ current = 0 <=> rest = {}
  /\ channel \in [Processor -> Seq(1..sent)]
  /\ closed \in SUBSET Processor
  /\ routed \in Seq(1..sent)

NmInit ==
  /\ Queue!MbInit
  /\ what = <<>>
  /\ managed = FALSE
  /\ subscribed = <<>>
  /\ current = 0
  /\ rest = {}
  /\ channel = [p \in Processor |-> <<>>]
  /\ closed = {}
  /\ routed = <<>>

-----------------------------------------------------------------------------
SendTo(lane, topic, body) ==
  /\ Queue!Send(lane)
  /\ what' = Append(what, [topic |-> topic, lane |-> lane, body |-> body])
  /\ UNCHANGED <<nmTask, closed>>

\* NotificationQueue::send pushes to the back lane, priority_send to the front lane.
Send(topic, body) == SendTo("back", topic, body)
PrioritySend(topic, body) == SendTo("front", topic, body)

\* NotificationManager::new and init: subscribers in the order of the processors, and the task.
Start(processors) ==
  /\ ~managed /\ managed' = TRUE
  /\ subscribed' = processors
  /\ UNCHANGED <<queue, sent, what, current, rest, channel, closed, routed>>

Subscribers(topic) == {i \in DOMAIN subscribed : topic \in subscribed[i].topics}

\* Nothing is fanned out any more when no subscriber is left, also when there was none.
FannedAnyway(n, subscribers) == n
Fanned(n, subscribers) == IF subscribers = {} THEN 0 ELSE n

\* The task takes the next notification; without subscribers it warns and drops it.
AnyFirst(m) == TRUE
First(m) == \A n \in queue \ {m} : Queue!Before(m, n)
Route ==
  /\ managed /\ current = 0
  /\ \E m \in queue :
       /\ First(m)
       /\ queue' = queue \ {m}
       /\ routed' = Append(routed, m.stamp)
       /\ rest' = Subscribers(what[m.stamp].topic)
       /\ current' = Fanned(m.stamp, rest')
  /\ UNCHANGED <<sent, what, managed, subscribed, channel, closed>>

\* tx.send to the next subscriber: an error is logged and the next one is served.
LeftUntilError(i) == IF subscribed[i].name \in closed THEN {} ELSE rest \ {i}
Left(i) == rest \ {i}
GetsItUnlessLast(i) == subscribed[i].name \notin closed /\ rest # {i}
GetsIt(i) == subscribed[i].name \notin closed
FanOut ==
  \E i \in rest :
    /\ \A j \in rest : i <= j
    /\ channel' = IF GetsIt(i)
                  THEN [channel EXCEPT ![subscribed[i].name] = Append(@, current)]
                  ELSE channel
    /\ rest' = Left(i)
    /\ current' = Fanned(current, rest')
    /\ UNCHANGED <<queue, sent, what, managed, subscribed, closed, routed>>

\* The task of a processor ends and drops its receiver.
Close(p) ==
  /\ p \notin closed
  /\ closed' = closed \cup {p}
  /\ UNCHANGED <<queue, sent, what, nmTask>>

-----------------------------------------------------------------------------
SubscribedTo(p, topic) ==
  \E i \in DOMAIN subscribed : subscribed[i].name = p /\ topic \in subscribed[i].topics

\* What a processor must be sent: what the task took and has a topic of its own.
Due(p) == {n \in {routed[i] : i \in DOMAIN routed} : SubscribedTo(p, what[n].topic)}
SentTo(p) == {channel[p][i] : i \in DOMAIN channel[p]}
RoutedBefore(m, n) ==
  \E i, j \in DOMAIN routed : i < j /\ routed[i] = m /\ routed[j] = n

\* Every processor gets exactly the notifications of its topics, each once, all processors in
\* the same order and without a gap, whoever else is gone (the loop over the subscribers).
FanOutExact ==
  \A p \in Processor :
    /\ SentTo(p) \subseteq Due(p)
    /\ \A i, j \in DOMAIN channel[p] : i < j => RoutedBefore(channel[p][i], channel[p][j])
    /\ \A n \in SentTo(p), m \in Due(p) : RoutedBefore(m, n) => m \in SentTo(p)
    /\ p \notin closed => Due(p) \ {current} \subseteq SentTo(p)

\* A processor sees notifications in the order of their sending, except that those of
\* priority_send overtake those of send.
OvertakenByPriorityOnly ==
  \A p \in Processor : \A i, j \in DOMAIN channel[p] :
    i < j /\ channel[p][i] > channel[p][j] =>
      what[channel[p][i]].lane = "front" /\ what[channel[p][j]].lane = "back"
=============================================================================
