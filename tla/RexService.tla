-------------------------------- MODULE RexService --------------------------------
(***************************************************************************)
(* A service as RexBuilder in src/builder.rs puts it together and runs it: *)
(* packets of a client become signals (IngressAdapter), the task of the    *)
(* StateMachineManager runs the machine of each signal's kind, machines    *)
(* notify, and the NotificationManager brings their notifications to the   *)
(* processors, the adapter among them, which sends them to the client.     *)
(* Client, users and all tasks interleave, and the queues are there, and   *)
(* may be filled, before the service is built.                             *)
(*                                                                         *)
(* The machines are those of a user: a machine may answer a packet, first  *)
(* signal itself and answer then, or panic.                                *)
(***************************************************************************)
EXTENDS IngressAdapter, NotificationManager

CONSTANTS
  Adapter,       \* the IngressAdapter
  Timer,         \* the TimeoutManager
  TopicsOf,      \* NotificationProcessor::get_topics of the processors of users
  IngressTopic,  \* the topic given to with_ingress_adapter
  MaxPackets,    \* bound: how many packets the client ever sends
  MaxNotified    \* bound: how many notifications users ever send

Users == DOMAIN TopicsOf

ASSUME ServiceAssumption ==
  /\ Adapter # Timer
  /\ Processor = Users \cup {Adapter, Timer} /\ {Adapter, Timer} \cap Users = {}
  /\ TopicsOf \in [Users -> SUBSET Topic]
  /\ IngressTopic \in Topic
  /\ None \notin Topic
  /\ MaxPackets \in Nat /\ MaxNotified \in Nat
  /\ Body = 0..MaxPackets

VARIABLES
  phase,         \* "building", "managed" within RexBuilder::build, "running"
  ingress,       \* the ingress channel: "none", "builder", "adapter", or "dropped"
  processors,    \* RexBuilder.notification_processors
  timeoutTopic,  \* RexBuilder.timeout_topic
  machines,      \* the kinds that have a state machine
  dispatcher     \* the task of the StateMachineManager: "none", "running" or "dead"

builder == <<phase, ingress, processors, timeoutTopic, machines, dispatcher>>
vars == <<iaVars, nmVars, builder>>

TypeOK ==
  /\ IaTypeOK /\ NmTypeOK
  /\ phase \in {"building", "managed", "running"}
  /\ ingress \in {"none", "builder", "adapter", "dropped"}
  /\ processors \in Seq(Subscription)
  /\ timeoutTopic \in Topic \cup {None}
  /\ machines \in SUBSET Kind
  /\ dispatcher \in {"none", "running", "dead"}
  /\ task # "none" <=> ingress = "adapter" /\ phase # "building"
  /\ managed <=> subscribed # <<>>
  /\ Len(packets) <= MaxPackets
  /\ \A n \in DOMAIN what : what[n].body <= Len(packets)
  /\ forwarded <= Len(channel[Adapter])

\* RexBuilder::new has no ingress channel, new_connected has one.
Init ==
  /\ IaInit /\ NmInit
  /\ phase = "building"
  /\ ingress \in {"none", "builder"}
  /\ processors = <<>>
  /\ timeoutTopic = None
  /\ machines = {}
  /\ dispatcher = "none"

-----------------------------------------------------------------------------
\* The calls of RexBuilder, in any order.
Configure == phase = "building" /\ UNCHANGED <<iaVars, nmVars, phase, dispatcher>>
PushNp(p, topics) == processors' = Append(processors, [name |-> p, topics |-> topics])

WithNp(p) ==
  /\ Configure
  /\ \A i \in DOMAIN processors : processors[i].name # p
  /\ PushNp(p, TopicsOf[p])
  /\ UNCHANGED <<ingress, timeoutTopic, machines>>

\* The adapter takes the ingress channel; without one the call panics, and nothing is built.
WithIngressAdapter ==
  /\ Configure
  /\ ingress = "builder" /\ ingress' = "adapter"
  /\ PushNp(Adapter, {IngressTopic})
  /\ UNCHANGED <<timeoutTopic, machines>>

\* The last topic counts.
WithTimeoutManager(topic) ==
  /\ Configure
  /\ timeoutTopic' = topic
  /\ UNCHANGED <<ingress, processors, machines>>

\* A second machine of one kind makes StateMachineManager::new panic.
WithSm(kind) ==
  /\ Configure
  /\ kind \notin machines /\ machines' = machines \cup {kind}
  /\ UNCHANGED <<ingress, processors, timeoutTopic>>

\* RexBuilder::build_inner, first half: the timeout manager comes last; the processors' tasks
\* and that of the NotificationManager are spawned, unless there is no processor at all.
ManagesAlways(given) == TRUE
Manages(given) == given # <<>>
BuildProcessors ==
  LET last == IF timeoutTopic = None THEN <<>>
              ELSE <<[name |-> Timer, topics |-> {timeoutTopic}]>>
      given == processors \o last
  IN /\ phase = "building" /\ phase' = "managed"
     /\ processors' = <<>>
     /\ IF Manages(given) THEN Start(given) ELSE UNCHANGED nmVars
     /\ IF ingress = "adapter" THEN SpawnAdapter ELSE UNCHANGED iaVars
     /\ UNCHANGED <<ingress, timeoutTopic, machines, dispatcher>>

\* Second half: the task of the StateMachineManager is spawned; the builder goes, and with it
\* an ingress channel that no adapter has taken.
BuildMachines ==
  /\ phase = "managed" /\ phase' = "running"
  /\ dispatcher' = "running"
  /\ ingress' = IF ingress = "builder" THEN "dropped" ELSE ingress
  /\ UNCHANGED <<iaVars, nmVars, processors, timeoutTopic, machines>>

-----------------------------------------------------------------------------
\* StateMachineManager::init: the next signal, the front lane first.
Waiting == front # <<>> \/ back # <<>>
Received == IF front # <<>> THEN Head(front) ELSE Head(back)
Process(toFront, toBack) ==
  /\ dispatcher = "running" /\ Waiting
  /\ front' = (IF front # <<>> THEN Tail(front) ELSE front) \o toFront
  /\ back' = (IF front # <<>> THEN back ELSE Tail(back)) \o toBack
  /\ UNCHANGED <<iaClient, inbound, task, pushed, forwarded, received>>
  /\ UNCHANGED <<phase, ingress, processors, timeoutTopic, machines>>
Drop == Process(<<>>, <<>>)

\* Without a machine of its kind the signal is logged and dropped.
DropSignal == Drop /\ Received.to \notin machines /\ UNCHANGED <<nmVars, dispatcher>>

\* A machine answers with SmContext::notify.
Answer ==
  /\ Drop /\ Received.to \in machines
  /\ Send(IngressTopic, Received.about)
  /\ UNCHANGED dispatcher

\* A machine signals itself first: SmContext::signal_self goes to the front lane.
SignalLast(signal) == Process(<<>>, <<signal>>)
SignalNext(signal) == Process(<<signal>>, <<>>)
SignalSelf ==
  /\ Waiting /\ ~Received.own /\ Received.to \in machines
  /\ SignalNext([Received EXCEPT !.own = TRUE])
  /\ UNCHANGED <<nmVars, dispatcher>>

\* A machine panics, and the task is gone.
Panic ==
  /\ Drop /\ Received.to \in machines
  /\ dispatcher' = "dead"
  /\ UNCHANGED nmVars

Dispatch == DropSignal \/ Answer \/ SignalSelf

-----------------------------------------------------------------------------
\* The client, users with a NotificationQueue, and the tasks.
ClientSends(p) ==
  /\ Len(packets) < MaxPackets /\ ingress \in {"builder", "adapter"}
  /\ SendPacket(p)
  /\ UNCHANGED <<nmVars, builder>>
ClientHangsUp == ingress # "none" /\ HangUp /\ UNCHANGED <<nmVars, builder>>
ClientLeaves == ingress # "none" /\ Leave /\ UNCHANGED <<nmVars, builder>>

Notified == Len(SelectSeq(what, LAMBDA w : w.body = 0))
UserNotifies(topic) ==
  /\ Notified < MaxNotified
  /\ Send(topic, 0) \/ PrioritySend(topic, 0)
  /\ UNCHANGED <<iaVars, builder>>

TakePacket == ProcessInbound /\ UNCHANGED <<nmVars, builder>>
EndInbound == InboundEnds /\ UNCHANGED <<nmVars, builder>>
Outbound ==
  /\ task # "none" /\ forwarded < Len(channel[Adapter])
  /\ ProcessOutbound(what[channel[Adapter][forwarded + 1]].body)
  /\ UNCHANGED <<nmVars, builder>>
Manage == (Route \/ FanOut) /\ UNCHANGED <<iaVars, builder>>
UserProcessorEnds(p) == managed /\ Close(p) /\ UNCHANGED <<iaVars, builder>>

Next ==
  \/ \E p \in Users : WithNp(p)
  \/ WithIngressAdapter
  \/ \E topic \in Topic : WithTimeoutManager(topic)
  \/ \E kind \in Kind : WithSm(kind)
  \/ BuildProcessors
  \/ BuildMachines
  \/ Dispatch
  \/ Panic
  \/ \E p \in Packet : ClientSends(p)
  \/ ClientHangsUp
  \/ ClientLeaves
  \/ \E topic \in Topic : UserNotifies(topic)
  \/ TakePacket
  \/ EndInbound
  \/ Outbound
  \/ Manage
  \/ \E p \in Users : UserProcessorEnds(p)

Spec == Init /\ [][Next]_vars

\* Every task goes on whenever it can, and build comes to its end.
Fairness ==
  /\ WF_vars(BuildMachines)
  /\ WF_vars(Dispatch)
  /\ WF_vars(TakePacket)
  /\ WF_vars(EndInbound)
  /\ WF_vars(Outbound)
  /\ WF_vars(Manage)
FairSpec == Spec /\ Fairness

-----------------------------------------------------------------------------
\* Through both channels and both queues a client's answers are in the order of its packets,
\* what the machines signal to themselves included: the answered packets are the first of the
\* good ones, each answered once, and none is skipped, also when a machine panics.
Answerable(n) == Good(packets[n]) /\ IdOf[packets[n]] \in machines
AnswersInOrder ==
  /\ Ascending(received)
  /\ \A i \in DOMAIN received :
       /\ Answerable(received[i])
       /\ \A n \in 1..received[i] : Answerable(n) => Has(received, n)

\* A notification is dropped only by a manager that has no subscriber for it: it is waiting or
\* was routed, and without a processor it waits for ever and the queue has every one.
NothingDropped ==
  /\ \A n \in DOMAIN what :
       (\E m \in queue : m.stamp = n) <=> ~Has(routed, n)
  /\ \A i, j \in DOMAIN routed : routed[i] = routed[j] => i = j
  /\ phase = "running" /\ subscribed = <<>> => routed = <<>>

\* Whatever is sent, before the service is built or later, has in the end reached every
\* processor of its topic that stays, also when a machine has panicked.
Served(n, p) == p \in closed \/ Has(channel[p], n)
EveryoneServed ==
  <>[](\A n \in DOMAIN what, p \in Processor : SubscribedTo(p, what[n].topic) => Served(n, p))

\* In the end every good packet has been answered, those too that were sent before the service
\* was built, whatever else the client sent and whichever processor of a user is gone.
PacketsAnswered ==
  <>[](dispatcher = "running" /\ ingress = "adapter" /\ ~gone =>
         \A n \in DOMAIN packets : Answerable(n) => Has(received, n))

\* When the client hangs up its packets are still taken, and then the inbound task ends: the
\* service holds no sender of the ingress channel itself.
HangUpEndsInbound ==
  (hungUp /\ task = "running") ~> (task = "ended" /\ inbound = Len(packets))
=============================================================================
