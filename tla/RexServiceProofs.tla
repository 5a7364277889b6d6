---------------------------- MODULE RexServiceProofs ----------------------------
(***************************************************************************)
(* What holds of a service for any kinds, packets, topics, processors and  *)
(* bounds: its types, the signals of a client, the fan-out of the          *)
(* NotificationManager, and the order of a client's answers.  ServiceInv,  *)
(* at the end, is the invariant that implies all of it.                    *)
(***************************************************************************)
EXTENDS RexService, NotificationManagerProofs

-----------------------------------------------------------------------------
(* Type correctness. *)

\* The signals of the two lanes.
OwnSignal == {s \in Signal : s.own /\ s.about \in DOMAIN packets}
PacketSignal == {s \in Signal : ~s.own /\ s.about \in DOMAIN packets}

LEMMA SendPacketType ==
  ASSUME IaTypeOK, NEW p \in Packet, SendPacket(p)
  PROVE  IaTypeOK' /\ Len(packets') = Len(packets) + 1
<1>1. /\ packets' \in Seq(Packet)
      /\ Len(packets') = Len(packets) + 1
      /\ Len(packets) \in Nat
      /\ DOMAIN packets = 1..Len(packets) /\ DOMAIN packets' = 1..Len(packets')
  BY AppendProperties, LenProperties DEF SendPacket, IaTypeOK
<1>2. DOMAIN packets \subseteq DOMAIN packets'
  BY <1>1
<1>3. OwnSignal \subseteq OwnSignal' /\ PacketSignal \subseteq PacketSignal'
  BY <1>2 DEF OwnSignal, PacketSignal
<1>4. /\ Seq(OwnSignal) \subseteq Seq(OwnSignal')
      /\ Seq(PacketSignal) \subseteq Seq(PacketSignal')
      /\ Seq(DOMAIN packets) \subseteq Seq(DOMAIN packets')
  BY <1>2, <1>3, SeqMonotonic
<1>5. front' \in Seq(OwnSignal') /\ back' \in Seq(PacketSignal')
  BY <1>4 DEF SendPacket, IaTypeOK, OwnSignal, PacketSignal
<1>6. pushed' \in Seq(DOMAIN packets') /\ received' \in Seq(DOMAIN packets')
  BY <1>4 DEF SendPacket, IaTypeOK
<1>7. inbound' \in 0..Len(packets')
  BY <1>1 DEF SendPacket, IaTypeOK
<1>8. QED
  BY <1>1, <1>5, <1>6, <1>7 DEF SendPacket, IaTypeOK, OwnSignal, PacketSignal

LEMMA ProcessInboundType ==
  ASSUME IaTypeOK, ProcessInbound
  PROVE  IaTypeOK' /\ task' = "running" /\ task = "running"
<1> DEFINE n == inbound + 1
           p == packets[n]
<1>1. /\ Len(packets) \in Nat /\ DOMAIN packets = 1..Len(packets)
      /\ n \in DOMAIN packets /\ inbound \in Nat
  BY LenProperties DEF ProcessInbound, IaTypeOK
<1>2. p \in Packet
  BY <1>1, ElementOfSeq DEF IaTypeOK
<1>3. pushed' \in Seq(DOMAIN packets)
  <2>1. Append(pushed, n) \in Seq(DOMAIN packets)
    BY <1>1, AppendProperties DEF IaTypeOK
  <2>2. QED
    BY <2>1 DEF ProcessInbound, IaTypeOK
<1>4. back' \in Seq(PacketSignal)
  <2>1. CASE Accepted(p)
    <3>1. GetId(p) \in Kind
      BY <1>2, <2>1, IngressAssumption DEF Accepted, GetId
    <3>2. [to |-> GetId(p), about |-> n, own |-> FALSE] \in PacketSignal
      BY <3>1, <1>1 DEF PacketSignal, Signal
    <3>3. back \in Seq(PacketSignal)
      BY DEF IaTypeOK, PacketSignal
    <3>4. back' = Append(back, [to |-> GetId(p), about |-> n, own |-> FALSE])
      BY <2>1 DEF ProcessInbound
    <3>5. QED
      BY <3>2, <3>3, <3>4, AppendProperties
  <2>2. CASE ~Accepted(p)
    BY <2>2 DEF ProcessInbound, IaTypeOK, PacketSignal
  <2>3. QED
    BY <2>1, <2>2
<1>5. task' = "running" /\ task = "running"
  BY DEF ProcessInbound, AfterPacket
<1>6. inbound' \in 0..Len(packets)
  BY <1>1 DEF ProcessInbound
<1>7. UNCHANGED <<packets, hungUp, gone, front, forwarded, received>>
  BY DEF ProcessInbound, iaClient
<1>8. QED
  BY <1>3, <1>4, <1>5, <1>6, <1>7 DEF IaTypeOK, PacketSignal

LEMMA WaitingType ==
  ASSUME IaTypeOK, Waiting
  PROVE  /\ front \in Seq(OwnSignal) /\ back \in Seq(PacketSignal)
         /\ Received \in OwnSignal \cup PacketSignal
         /\ front # <<>> => Tail(front) \in Seq(OwnSignal)
         /\ back # <<>> => Tail(back) \in Seq(PacketSignal)
<1>1. front \in Seq(OwnSignal) /\ back \in Seq(PacketSignal)
  BY DEF IaTypeOK, OwnSignal, PacketSignal
<1>2. front # <<>> => Head(front) \in OwnSignal /\ Tail(front) \in Seq(OwnSignal)
  BY <1>1, HeadTailProperties
<1>3. back # <<>> => Head(back) \in PacketSignal /\ Tail(back) \in Seq(PacketSignal)
  BY <1>1, HeadTailProperties
<1>4. QED
  BY <1>1, <1>2, <1>3 DEF Waiting, Received

LEMMA ProcessType ==
  ASSUME IaTypeOK, Waiting, NEW toFront \in Seq(OwnSignal), Process(toFront, <<>>)
  PROVE  /\ IaTypeOK' /\ task' = task /\ UNCHANGED <<packets, forwarded>>
         /\ Received \in OwnSignal \cup PacketSignal
         /\ Received.about \in DOMAIN packets
<1>1. /\ front \in Seq(OwnSignal) /\ back \in Seq(PacketSignal)
      /\ Received \in OwnSignal \cup PacketSignal
  BY WaitingType
<1>2. front' \in Seq(OwnSignal)
  BY <1>1, WaitingType, ConcatProperties DEF Process
<1>3. back' \in Seq(PacketSignal)
  <2>1. (IF front # <<>> THEN back ELSE Tail(back)) \in Seq(PacketSignal)
    BY WaitingType DEF Waiting
  <2>2. QED
    BY <2>1, ConcatEmptySeq DEF Process
<1>4. UNCHANGED <<packets, hungUp, gone, inbound, task, pushed, forwarded, received>>
  BY DEF Process, iaClient
<1>5. IaTypeOK'
  BY <1>2, <1>3, <1>4 DEF IaTypeOK, OwnSignal, PacketSignal
<1>6. QED
  BY <1>1, <1>4, <1>5 DEF OwnSignal, PacketSignal

LEMMA OutboundType ==
  ASSUME IaTypeOK, NEW n \in 0..Len(packets), ProcessOutbound(n)
  PROVE  IaTypeOK' /\ forwarded' = forwarded + 1
<1>1. Len(packets) \in Nat /\ DOMAIN packets = 1..Len(packets)
  BY LenProperties DEF IaTypeOK
<1>2. received' \in Seq(DOMAIN packets)
  <2>1. received \in Seq(DOMAIN packets)
    BY DEF IaTypeOK
  <2>2. n # 0 => Append(received, n) \in Seq(DOMAIN packets)
    BY <1>1, <2>1, AppendProperties
  <2>3. QED
    BY <2>1, <2>2 DEF ProcessOutbound
<1>3. QED
  BY <1>2 DEF ProcessOutbound, IaTypeOK, iaClient

LEMMA TypeInit == Init => TypeOK
<1> SUFFICES ASSUME Init PROVE TypeOK
  OBVIOUS
<1>1. IaTypeOK
  <2>1. /\ packets = <<>> /\ front = <<>> /\ back = <<>> /\ pushed = <<>> /\ received = <<>>
        /\ inbound = 0 /\ forwarded = 0
        /\ hungUp = FALSE /\ gone = FALSE /\ task = "none"
    BY DEF Init, IaInit
  <2>2. packets \in Seq(Packet)
    BY <2>1, EmptySeq
  <2>3. front \in Seq(OwnSignal)
    BY <2>1, EmptySeq
  <2>4. back \in Seq(PacketSignal)
    BY <2>1, EmptySeq
  <2>5. pushed \in Seq(DOMAIN packets) /\ received \in Seq(DOMAIN packets)
    BY <2>1, EmptySeq
  <2>6. inbound \in 0..Len(packets)
    BY <2>1
  <2>7. QED
    BY <2>1, <2>2, <2>3, <2>4, <2>5, <2>6 DEF IaTypeOK, OwnSignal, PacketSignal
<1>2. NmTypeOK
  <2>1. queue = {} /\ sent = 0 /\ what = <<>> /\ channel = [p \in Processor |-> <<>>]
    BY DEF Init, NmInit, Queue!MbInit
  <2>2. /\ what \in Seq([topic : Topic, lane : {"front", "back"}, body : Body])
        /\ Len(what) = sent
    BY <2>1, EmptySeq
  <2>3. channel \in [Processor -> Seq(1..sent)]
    BY <2>1, EmptySeq
  <2>4. /\ subscribed = <<>> /\ routed = <<>> /\ rest = {} /\ current = 0
        /\ managed = FALSE /\ closed = {}
    BY DEF Init, NmInit
  <2>5. subscribed \in Seq(Subscription)
    BY <2>4, EmptySeq
  <2>6. routed \in Seq(1..sent)
    BY <2>4, EmptySeq
  <2>7. managed \in BOOLEAN /\ closed \in SUBSET Processor /\ rest \subseteq DOMAIN subscribed
    BY <2>4
  <2>8. /\ queue \subseteq [lane : {"front", "back"}, stamp : 1..sent]
        /\ current \in 0..sent /\ (current = 0 <=> rest = {})
    BY <2>1, <2>4
  <2>9. QED
    BY <2>2, <2>3, <2>5, <2>6, <2>7, <2>8 DEF NmTypeOK
<1>3. QED
  BY <1>1, <1>2, EmptySeq, ServiceAssumption DEF Init, IaInit, NmInit, TypeOK

LEMMA ConfigureType ==
  ASSUME TypeOK, Configure, processors' \in Seq(Subscription),
         timeoutTopic' \in Topic \cup {None}, machines' \in SUBSET Kind,
         ingress' = ingress \/ ingress' = "adapter"
  PROVE  TypeOK'
<1>1. UNCHANGED <<iaVars, nmVars, phase, dispatcher>> /\ phase = "building"
  BY DEF Configure
<1>2. IaTypeOK' /\ NmTypeOK'
  BY <1>1 DEF TypeOK, IaTypeOK, NmTypeOK, iaVars, iaClient, nmVars, nmTask
<1>3. QED
  BY <1>1, <1>2 DEF TypeOK, iaVars, iaClient, nmVars, nmTask

LEMMA PushType ==
  ASSUME TypeOK, NEW p \in Processor, NEW topics \in SUBSET Topic, PushNp(p, topics)
  PROVE  processors' \in Seq(Subscription)
<1>1. [name |-> p, topics |-> topics] \in Subscription
  BY DEF Subscription
<1>2. QED
  BY <1>1, AppendProperties DEF PushNp, TypeOK

\* A step of the other components leaves the types of the notifications alone.
LEMMA SameNotifications ==
  ASSUME NmTypeOK, UNCHANGED nmVars
  PROVE  NmTypeOK' /\ UNCHANGED <<managed, subscribed, what, channel>>
BY DEF nmVars, nmTask, NmTypeOK

LEMMA DispatchType ==
  ASSUME TypeOK, NEW toFront \in Seq(OwnSignal), Process(toFront, <<>>)
  PROVE  /\ IaTypeOK' /\ task' = task /\ UNCHANGED <<packets, forwarded>>
         /\ UNCHANGED <<phase, ingress, processors, timeoutTopic, machines>>
         /\ Received \in OwnSignal \cup PacketSignal
         /\ Received.about \in 1..Len(packets)
<1>1. IaTypeOK /\ Waiting
  BY DEF TypeOK, Process
<1>2. DOMAIN packets = 1..Len(packets)
  BY <1>1, LenProperties DEF IaTypeOK
<1>3. QED
  BY <1>1, <1>2, ProcessType DEF Process

LEMMA TypeStep == TypeOK /\ [Next]_vars => TypeOK'
<1> SUFFICES ASSUME TypeOK, [Next]_vars PROVE TypeOK'
  OBVIOUS
<1> USE ServiceAssumption
<1>a. IaTypeOK /\ NmTypeOK
  BY DEF TypeOK
<1>b. /\ Len(packets) \in Nat /\ Len(channel[Adapter]) \in Nat /\ forwarded \in Nat
      /\ Len(what) \in Nat /\ DOMAIN what = 1..Len(what) /\ Adapter \in Processor
  BY <1>a, LenProperties DEF IaTypeOK, NmTypeOK
<1>c. \A n \in DOMAIN what : /\ what[n] \in [topic : Topic, lane : {"front", "back"}, body : Body]
                             /\ what[n].body \in Nat
  <2> SUFFICES ASSUME NEW n \in DOMAIN what
               PROVE  what[n] \in [topic : Topic, lane : {"front", "back"}, body : Body]
    BY DEF NmTypeOK
  <2>1. QED
    BY <1>a, <1>b, ElementOfSeq DEF NmTypeOK
<1>1. ASSUME NEW p \in Users, WithNp(p) PROVE TypeOK'
  <2>1. processors' \in Seq(Subscription)
    BY <1>1, PushType DEF WithNp
  <2>2. QED
    BY <1>1, <2>1, ConfigureType DEF WithNp, TypeOK
<1>2. CASE WithIngressAdapter
  <2>1. processors' \in Seq(Subscription)
    BY <1>2, PushType DEF WithIngressAdapter
  <2>2. QED
    BY <1>2, <2>1, ConfigureType DEF WithIngressAdapter, TypeOK
<1>3. ASSUME NEW topic \in Topic, WithTimeoutManager(topic) PROVE TypeOK'
  BY <1>3, ConfigureType DEF WithTimeoutManager, TypeOK
<1>4. ASSUME NEW kind \in Kind, WithSm(kind) PROVE TypeOK'
  BY <1>4, ConfigureType DEF WithSm, TypeOK
<1>5. CASE BuildProcessors
  <2> DEFINE last == IF timeoutTopic = None THEN <<>>
                     ELSE <<[name |-> Timer, topics |-> {timeoutTopic}]>>
             given == processors \o last
  <2>1. last \in Seq(Subscription)
    <3>1. timeoutTopic # None =>
            [name |-> Timer, topics |-> {timeoutTopic}] \in Subscription
      BY DEF TypeOK, Subscription
    <3>2. QED
      BY <3>1, EmptySeq
  <2>2. given \in Seq(Subscription)
    BY <2>1, ConcatProperties DEF TypeOK
  <2>3. /\ NmTypeOK' /\ (managed' <=> subscribed' # <<>>)
        /\ UNCHANGED <<what, channel>>
    <3>1. CASE Manages(given)
      <4>1. Start(given)
        BY <1>5, <3>1 DEF BuildProcessors
      <4>2. QED
        BY <2>2, <3>1, <4>1, <1>a, StartType DEF TypeOK, Start, Manages
    <3>2. CASE ~Manages(given)
      BY <1>5, <3>2 DEF BuildProcessors, TypeOK, nmVars, nmTask, NmTypeOK
    <3>3. QED
      BY <3>1, <3>2
  <2>4. /\ IaTypeOK' /\ UNCHANGED <<packets, forwarded>>
        /\ task' = IF ingress = "adapter" THEN "running" ELSE task
    BY <1>5, <1>a DEF BuildProcessors, SpawnAdapter, iaVars, iaClient, IaTypeOK
  <2>5. processors' \in Seq(Subscription)
    BY <1>5, EmptySeq DEF BuildProcessors
  <2>6. QED
    BY <1>5, <2>3, <2>4, <2>5 DEF BuildProcessors, TypeOK
<1>6. CASE BuildMachines
  <2>1. IaTypeOK' /\ UNCHANGED <<task, packets, forwarded>>
    BY <1>6, <1>a DEF BuildMachines, iaVars, iaClient, IaTypeOK
  <2>2. NmTypeOK' /\ UNCHANGED <<managed, subscribed, what, channel>>
    BY <1>6, <1>a, SameNotifications DEF BuildMachines
  <2>3. QED
    BY <1>6, <2>1, <2>2 DEF BuildMachines, TypeOK
<1>7. CASE DropSignal
  <2>1. Process(<<>>, <<>>) /\ UNCHANGED <<nmVars, dispatcher>>
    BY <1>7 DEF DropSignal, Drop
  <2>2. <<>> \in Seq(OwnSignal)
    BY EmptySeq
  <2>3. IaTypeOK' /\ task' = task
        /\ UNCHANGED <<packets, forwarded, phase, ingress, processors, timeoutTopic, machines>>
    BY <2>1, <2>2, DispatchType
  <2>4. QED
    BY <2>1, <2>3 DEF TypeOK, nmVars, nmTask, NmTypeOK
<1>8. CASE Answer
  <2>1. /\ Process(<<>>, <<>>) /\ SendTo("back", IngressTopic, Received.about)
        /\ UNCHANGED dispatcher
    BY <1>8 DEF Answer, Drop, Send
  <2>2. <<>> \in Seq(OwnSignal)
    BY EmptySeq
  <2>3. IaTypeOK' /\ task' = task /\ Received.about \in 1..Len(packets)
        /\ UNCHANGED <<packets, forwarded, phase, ingress, processors, timeoutTopic, machines>>
    BY <2>1, <2>2, DispatchType
  <2>4. Received.about \in Body
    BY <1>b, <2>3 DEF TypeOK
  <2>5. /\ NmTypeOK'
        /\ what' = Append(what, [topic |-> IngressTopic, lane |-> "back",
                                 body |-> Received.about])
    BY <2>1, <2>4, <1>a, SendToType
  <2>6. \A n \in DOMAIN what' : what'[n].body <= Len(packets)
    BY <1>b, <2>3, <2>4, <2>5, BodyAppended DEF TypeOK
  <2>7. UNCHANGED <<channel, managed, subscribed>>
    BY <2>1 DEF SendTo, nmTask
  <2>8. QED
    BY <2>1, <2>3, <2>5, <2>6, <2>7 DEF TypeOK
<1>9. CASE SignalSelf
  <2> DEFINE signal == [Received EXCEPT !.own = TRUE]
  <2>1. Process(<<signal>>, <<>>) /\ UNCHANGED <<nmVars, dispatcher>> /\ Waiting
    BY <1>9 DEF SignalSelf, SignalNext
  <2>2. Received \in OwnSignal \cup PacketSignal
    BY <2>1, <1>a, WaitingType
  <2>3. signal \in OwnSignal
    BY <2>2 DEF OwnSignal, PacketSignal, Signal
  <2>4. <<signal>> \in Seq(OwnSignal)
    BY <2>3
  <2>5. IaTypeOK' /\ task' = task
        /\ UNCHANGED <<packets, forwarded, phase, ingress, processors, timeoutTopic, machines>>
    BY <2>1, <2>4, DispatchType
  <2>6. QED
    BY <1>a, <2>1, <2>5, SameNotifications DEF TypeOK
<1>10. CASE Panic
  <2>1. Process(<<>>, <<>>) /\ UNCHANGED nmVars /\ dispatcher' = "dead"
    BY <1>10 DEF Panic, Drop
  <2>2. <<>> \in Seq(OwnSignal)
    BY EmptySeq
  <2>3. IaTypeOK' /\ task' = task
        /\ UNCHANGED <<packets, forwarded, phase, ingress, processors, timeoutTopic, machines>>
    BY <2>1, <2>2, DispatchType
  <2>4. QED
    BY <1>a, <2>1, <2>3, SameNotifications DEF TypeOK
<1>11. ASSUME NEW p \in Packet, ClientSends(p) PROVE TypeOK'
  <2>1. SendPacket(p) /\ UNCHANGED <<nmVars, builder>> /\ Len(packets) < MaxPackets
    BY <1>11 DEF ClientSends
  <2>2. IaTypeOK' /\ Len(packets') = Len(packets) + 1
    BY <2>1, <1>a, SendPacketType
  <2>3. UNCHANGED <<task, forwarded>>
    BY <2>1 DEF SendPacket
  <2>4. \A n \in DOMAIN what' : what'[n].body <= Len(packets')
    BY <1>b, <1>c, <2>1, <2>2 DEF TypeOK, nmVars
  <2>5. Len(packets') <= MaxPackets
    BY <1>b, <2>1, <2>2
  <2>6. NmTypeOK'
    BY <1>a, <2>1 DEF nmVars, nmTask, NmTypeOK
  <2>7. QED
    BY <2>1, <2>2, <2>3, <2>4, <2>5, <2>6 DEF TypeOK, nmVars, nmTask, builder
<1>12. CASE ClientHangsUp \/ ClientLeaves
  <2>1. /\ UNCHANGED <<packets, inbound, task, front, back, pushed, forwarded, received>>
        /\ hungUp' \in BOOLEAN /\ gone' \in BOOLEAN
        /\ UNCHANGED <<nmVars, builder>>
    BY <1>12, <1>a DEF ClientHangsUp, ClientLeaves, HangUp, Leave, IaTypeOK
  <2>2. IaTypeOK'
    BY <1>a, <2>1 DEF IaTypeOK
  <2>3. NmTypeOK'
    BY <1>a, <2>1 DEF nmVars, nmTask, NmTypeOK
  <2>4. QED
    BY <2>1, <2>2, <2>3 DEF TypeOK, nmVars, nmTask, builder
<1>13. ASSUME NEW topic \in Topic, UserNotifies(topic) PROVE TypeOK'
  <2>1. PICK lane \in {"front", "back"} : SendTo(lane, topic, 0)
    BY <1>13 DEF UserNotifies, Send, PrioritySend
  <2>2. UNCHANGED <<iaVars, builder>>
    BY <1>13 DEF UserNotifies
  <2>3. /\ NmTypeOK'
        /\ what' = Append(what, [topic |-> topic, lane |-> lane, body |-> 0])
    BY <2>1, <1>a, SendToType
  <2>4. \A n \in DOMAIN what' : what'[n].body <= Len(packets)
    BY <1>b, <2>3, BodyAppended DEF TypeOK
  <2>5. UNCHANGED <<channel, managed, subscribed>>
    BY <2>1 DEF SendTo, nmTask
  <2>6. QED
    <3>1. IaTypeOK' /\ UNCHANGED <<task, packets, forwarded>>
      BY <1>a, <2>2 DEF iaVars, iaClient, IaTypeOK
    <3>2. QED
      BY <2>2, <2>3, <2>4, <2>5, <3>1 DEF TypeOK, builder
<1>14. CASE TakePacket
  <2>1. ProcessInbound /\ UNCHANGED <<nmVars, builder>>
    BY <1>14 DEF TakePacket
  <2>2. IaTypeOK' /\ task' = "running" /\ task = "running"
    BY <2>1, <1>a, ProcessInboundType
  <2>3. UNCHANGED <<packets, forwarded>>
    BY <2>1 DEF ProcessInbound, iaClient
  <2>4. QED
    BY <2>1, <2>2, <2>3 DEF TypeOK, nmVars, nmTask, NmTypeOK, builder
<1>15. CASE EndInbound
  <2>1. UNCHANGED nmVars /\ UNCHANGED builder
    BY <1>15 DEF EndInbound
  <2>2. /\ IaTypeOK' /\ UNCHANGED <<packets, forwarded>> /\ task # "none" /\ task' # "none"
    BY <1>15, <1>a DEF EndInbound, InboundEnds, iaClient, IaTypeOK
  <2>3. NmTypeOK' /\ UNCHANGED <<managed, subscribed, what, channel>>
    BY <1>a, <2>1, SameNotifications
  <2>4. QED
    BY <2>1, <2>2, <2>3 DEF TypeOK, builder
<1>16. CASE Outbound
  <2> DEFINE n == what[channel[Adapter][forwarded + 1]].body
  <2>1. /\ ProcessOutbound(n) /\ UNCHANGED <<nmVars, builder>>
        /\ forwarded < Len(channel[Adapter])
    BY <1>16 DEF Outbound
  <2>2. channel[Adapter][forwarded + 1] \in 1..sent
    <3>1. channel[Adapter] \in Seq(1..sent) /\ forwarded + 1 \in 1..Len(channel[Adapter])
      BY <1>a, <1>b, <2>1 DEF NmTypeOK
    <3>2. QED
      BY <3>1, ElementOfSeq
  <2>3. n \in 0..Len(packets)
    <3>1. channel[Adapter][forwarded + 1] \in DOMAIN what
      BY <1>a, <1>b, <2>2 DEF NmTypeOK
    <3>2. QED
      BY <1>b, <1>c, <3>1 DEF TypeOK
  <2>4. IaTypeOK' /\ forwarded' = forwarded + 1
    BY <1>a, <2>1, <2>3, OutboundType
  <2>5. UNCHANGED <<packets, task>>
    BY <2>1 DEF ProcessOutbound, iaClient
  <2>6. QED
    <3>1. NmTypeOK'
      BY <1>a, <2>1 DEF nmVars, nmTask, NmTypeOK
    <3>2. forwarded' <= Len(channel'[Adapter])
      BY <1>b, <2>1, <2>4 DEF nmVars, nmTask
    <3>3. QED
      BY <2>1, <2>4, <2>5, <3>1, <3>2 DEF TypeOK, nmVars, nmTask, builder
<1>17. CASE Manage
  <2>1. UNCHANGED <<iaVars, builder>> /\ (Route \/ FanOut)
    BY <1>17 DEF Manage
  <2>2. NmTypeOK' /\ UNCHANGED <<what, managed, subscribed>>
    BY <1>a, <2>1, RouteType, FanOutType DEF Route, FanOut
  <2>3. Len(channel[Adapter]) <= Len(channel'[Adapter]) /\ Len(channel'[Adapter]) \in Nat
    <3>1. Route => channel' = channel
      BY DEF Route
    <3>2. Len(channel[Adapter]) <= Len(channel'[Adapter])
      BY <1>a, <1>b, <2>1, <3>1, FanOutType
    <3>3. channel'[Adapter] \in Seq(1..sent')
      BY <1>b, <2>2 DEF NmTypeOK
    <3>4. QED
      BY <3>2, <3>3, LenProperties
  <2>4. QED
    <3>1. forwarded' <= Len(channel'[Adapter])
      <4>1. forwarded' = forwarded
        BY <2>1 DEF iaVars
      <4>2. forwarded <= Len(channel[Adapter])
        BY DEF TypeOK
      <4>3. QED
        BY <1>b, <2>3, <4>1, <4>2
    <3>2. QED
      BY <1>b, <2>1, <2>2, <3>1 DEF TypeOK, iaVars, iaClient, builder, IaTypeOK
<1>18. ASSUME NEW p \in Users, UserProcessorEnds(p) PROVE TypeOK'
  <2>1. Close(p) /\ UNCHANGED <<iaVars, builder>>
    BY <1>18 DEF UserProcessorEnds
  <2>2. NmTypeOK' /\ UNCHANGED <<what, managed, subscribed, channel>>
    BY <1>a, <2>1, CloseType DEF Close, nmTask
  <2>3. QED
    <3>1. IaTypeOK' /\ UNCHANGED <<task, packets, forwarded>>
      BY <1>a, <2>1 DEF iaVars, iaClient, IaTypeOK
    <3>2. QED
      BY <1>b, <2>1, <2>2, <3>1 DEF TypeOK, builder
<1>19. CASE UNCHANGED vars
  <2>1. UNCHANGED <<iaVars, nmVars, builder>>
    BY <1>19 DEF vars
  <2>2. IaTypeOK' /\ UNCHANGED <<task, packets, forwarded, ingress>>
    BY <1>a, <2>1 DEF iaVars, iaClient, builder, IaTypeOK
  <2>3. NmTypeOK' /\ UNCHANGED <<managed, subscribed, what, channel>>
    BY <1>a, <2>1 DEF nmVars, nmTask, NmTypeOK
  <2>4. QED
    BY <1>b, <2>1, <2>2, <2>3 DEF TypeOK, builder
<1>20. QED
  BY <1>1, <1>2, <1>3, <1>4, <1>5, <1>6, <1>7, <1>8, <1>9, <1>10, <1>11, <1>12, <1>13, <1>14,
     <1>15, <1>16, <1>17, <1>18, <1>19 DEF Next, Dispatch


-----------------------------------------------------------------------------
(* The fan-out in a service. *)

\* The builder gives no processor twice: an adapter takes the one ingress channel, and the
\* timeout manager is made once, by build_inner.
BuildInv ==
  /\ Distinct(processors)
  /\ \A i \in DOMAIN processors :
       /\ processors[i].name # Timer
       /\ processors[i].name = Adapter => ingress = "adapter"
  /\ phase = "building" => ~managed

LEMMA PushDistinct ==
  ASSUME TypeOK, NEW p \in Processor, NEW topics \in SUBSET Topic, PushNp(p, topics),
         Distinct(processors), \A i \in DOMAIN processors : processors[i].name # p
  PROVE  /\ Distinct(processors)'
         /\ \A i \in DOMAIN processors' :
              processors'[i].name = p \/ (i \in DOMAIN processors /\ processors'[i] = processors[i])
<1>1. /\ Len(processors) \in Nat /\ DOMAIN processors = 1..Len(processors)
      /\ processors \in Seq(Subscription) /\ [name |-> p, topics |-> topics] \in Subscription
  BY LenProperties DEF TypeOK, Subscription
<1>2. /\ DOMAIN processors' = 1..(Len(processors) + 1)
      /\ \A i \in DOMAIN processors : processors'[i] = processors[i]
      /\ processors'[Len(processors) + 1].name = p
  BY <1>1, AppendProperties DEF PushNp
<1>3. QED
  BY <1>1, <1>2 DEF Distinct

\* What BuildProcessors hands over is the builder's processors, and the timer as the last.
LEMMA GivenDistinct ==
  ASSUME TypeOK, BuildInv,
         NEW last, last = <<>> \/ \E t \in Topic : last = <<[name |-> Timer, topics |-> {t}]>>
  PROVE  processors \o last \in Seq(Subscription) /\ Distinct(processors \o last)
<1>1. /\ Len(processors) \in Nat /\ DOMAIN processors = 1..Len(processors)
      /\ processors \in Seq(Subscription)
  BY LenProperties DEF TypeOK
<1>2. CASE last = <<>>
  BY <1>1, <1>2, ConcatEmptySeq DEF BuildInv
<1>3. ASSUME NEW t \in Topic, last = <<[name |-> Timer, topics |-> {t}]>>
      PROVE  processors \o last \in Seq(Subscription) /\ Distinct(processors \o last)
  <2> DEFINE s == [name |-> Timer, topics |-> {t}]
  <2>1. s \in Subscription
    BY ServiceAssumption DEF Subscription
  <2>2. processors \o last = Append(processors, s)
    BY <1>1, <1>3, <2>1, AppendIsConcat
  <2>3. /\ Append(processors, s) \in Seq(Subscription)
        /\ DOMAIN Append(processors, s) = 1..(Len(processors) + 1)
        /\ \A i \in DOMAIN processors : Append(processors, s)[i] = processors[i]
        /\ Append(processors, s)[Len(processors) + 1] = s
    BY <1>1, <2>1, AppendProperties
  <2>4. QED
    BY <1>1, <2>2, <2>3 DEF Distinct, BuildInv
<1>4. QED
  BY <1>2, <1>3

LEMMA BuildStep == TypeOK /\ BuildInv /\ [Next]_vars => BuildInv'
<1> SUFFICES ASSUME TypeOK, BuildInv, [Next]_vars PROVE BuildInv'
  OBVIOUS
<1>1. ASSUME NEW p \in Users, WithNp(p) PROVE BuildInv'
  <2>1. /\ PushNp(p, TopicsOf[p]) /\ UNCHANGED <<ingress, phase, managed>>
        /\ \A i \in DOMAIN processors : processors[i].name # p
    BY <1>1 DEF WithNp, Configure, nmVars, nmTask
  <2>2. p \in Processor /\ p # Adapter /\ p # Timer /\ TopicsOf[p] \in SUBSET Topic
    BY ServiceAssumption
  <2>3. QED
    BY <2>1, <2>2, PushDistinct DEF BuildInv
<1>2. CASE WithIngressAdapter
  <2>1. /\ PushNp(Adapter, {IngressTopic}) /\ UNCHANGED <<phase, managed>>
        /\ ingress = "builder" /\ ingress' = "adapter"
    BY <1>2 DEF WithIngressAdapter, Configure, nmVars, nmTask
  <2>2. Adapter \in Processor /\ Adapter # Timer /\ {IngressTopic} \in SUBSET Topic
    BY ServiceAssumption
  <2>3. QED
    BY <2>1, <2>2, PushDistinct DEF BuildInv
<1>3. CASE BuildProcessors
  BY <1>3 DEF BuildProcessors, BuildInv, Distinct
<1>4. CASE BuildMachines
  <2>1. /\ UNCHANGED <<processors, managed>> /\ phase' = "running"
        /\ ingress = "adapter" => ingress' = "adapter"
    BY <1>4 DEF BuildMachines, nmVars, nmTask
  <2>2. QED
    BY <2>1 DEF BuildInv, Distinct
<1>5. CASE UNCHANGED <<processors, ingress, phase, managed>>
  BY <1>5 DEF BuildInv, Distinct
<1>6. (\E topic \in Topic : WithTimeoutManager(topic)) \/ (\E kind \in Kind : WithSm(kind))
        => UNCHANGED <<processors, ingress, phase, managed>>
  BY DEF WithTimeoutManager, WithSm, Configure, nmVars, nmTask
<1>7. Dispatch \/ Panic => UNCHANGED <<processors, ingress, phase, managed>>
  BY DEF Dispatch, DropSignal, Answer, SignalSelf, SignalNext, Panic, Drop, Process, Send, SendTo,
         nmVars, nmTask
<1>8. (\E p \in Packet : ClientSends(p)) \/ ClientHangsUp \/ ClientLeaves \/ TakePacket
        \/ EndInbound \/ Outbound => UNCHANGED <<processors, ingress, phase, managed>>
  BY DEF ClientSends, ClientHangsUp, ClientLeaves, TakePacket, EndInbound, Outbound, nmVars, nmTask,
         builder
<1>9. (\E topic \in Topic : UserNotifies(topic)) \/ Manage
        \/ (\E p \in Users : UserProcessorEnds(p)) => UNCHANGED <<processors, ingress, phase, managed>>
  BY DEF UserNotifies, Manage, UserProcessorEnds, Send, PrioritySend, SendTo, Route, FanOut, Close,
         nmTask, builder
<1>10. UNCHANGED vars => UNCHANGED <<processors, ingress, phase, managed>>
  BY DEF vars, nmVars, nmTask, builder
<1>11. QED
  BY <1>1, <1>2, <1>3, <1>4, <1>5, <1>6, <1>7, <1>8, <1>9, <1>10 DEF Next

LEMMA NmInvKept ==
  ASSUME NmInv, UNCHANGED nmVars
  PROVE  NmInv'
<1>1. UNCHANGED <<queue, sent, what, managed, subscribed, current, rest, channel, routed, closed>>
  BY DEF nmVars, nmTask
<1>2. NmTypeOK' /\ Distinct(subscribed)' /\ IdleInv'
  BY <1>1 DEF NmInv, NmTypeOK, Distinct, IdleInv
<1>3. QueueInv' /\ OrderInv' /\ CurrentInv'
  BY <1>1 DEF NmInv, QueueInv, OrderInv, CurrentInv, Taken, Overtakes, SentTo
<1>4. ChannelInv'
  BY <1>1, DueKept DEF NmInv, ChannelInv, UpToDate
<1>5. QED
  BY <1>2, <1>3, <1>4 DEF NmInv

LEMMA NmInvStep == TypeOK /\ BuildInv /\ NmInv /\ [Next]_vars => NmInv'
<1> SUFFICES ASSUME TypeOK, BuildInv, NmInv, [Next]_vars PROVE NmInv'
  OBVIOUS
<1>1. CASE BuildProcessors
  <2> DEFINE last == IF timeoutTopic = None THEN <<>>
                     ELSE <<[name |-> Timer, topics |-> {timeoutTopic}]>>
             given == processors \o last
  <2>1. Start(given) \/ UNCHANGED nmVars
    BY <1>1 DEF BuildProcessors
  <2>2. last = <<>> \/ \E t \in Topic : last = <<[name |-> Timer, topics |-> {t}]>>
    BY DEF TypeOK
  <2> HIDE DEF last
  <2>3. given \in Seq(Subscription) /\ Distinct(given)
    BY <2>2, GivenDistinct
  <2>4. managed <=> subscribed # <<>>
    BY Zenon DEF TypeOK
  <2> HIDE DEF given
  <2>5. QED
    BY <2>1, <2>3, <2>4, StartInv, NmInvKept
<1>2. CASE Answer
  <2>1. SendTo("back", IngressTopic, Received.about) /\ Process(<<>>, <<>>)
    BY <1>2 DEF Answer, Drop, Send
  <2>2. <<>> \in Seq(OwnSignal)
    BY EmptySeq
  <2>3. Received.about \in 1..Len(packets)
    BY <2>1, <2>2, DispatchType
  <2>4. Len(packets) \in Nat
    BY LenProperties DEF TypeOK, IaTypeOK
  <2>5. Received.about \in Body /\ IngressTopic \in Topic
    BY <2>3, <2>4, ServiceAssumption DEF TypeOK
  <2>6. QED
    BY <2>1, <2>5, SendToInv
<1>3. ASSUME NEW topic \in Topic, UserNotifies(topic) PROVE NmInv'
  <2>1. PICK lane \in {"front", "back"} : SendTo(lane, topic, 0)
    BY <1>3 DEF UserNotifies, Send, PrioritySend
  <2>2. 0 \in Body
    BY ServiceAssumption
  <2>3. QED
    BY <2>1, <2>2, SendToInv
<1>4. CASE Manage
  BY <1>4, RouteInv, FanOutInv DEF Manage
<1>5. ASSUME NEW p \in Users, UserProcessorEnds(p) PROVE NmInv'
  BY <1>5, CloseInv, ServiceAssumption DEF UserProcessorEnds
<1>6. CASE UNCHANGED nmVars
  BY <1>6, NmInvKept
<1>7. (\E p \in Users : WithNp(p)) \/ WithIngressAdapter
        \/ (\E topic \in Topic : WithTimeoutManager(topic)) \/ (\E kind \in Kind : WithSm(kind))
        \/ BuildMachines \/ DropSignal \/ SignalSelf \/ Panic => UNCHANGED nmVars
  BY DEF WithNp, WithIngressAdapter, WithTimeoutManager, WithSm, Configure, BuildMachines,
         DropSignal, SignalSelf, Panic
<1>8. (\E p \in Packet : ClientSends(p)) \/ ClientHangsUp \/ ClientLeaves \/ TakePacket
        \/ EndInbound \/ Outbound => UNCHANGED nmVars
  BY DEF ClientSends, ClientHangsUp, ClientLeaves, TakePacket, EndInbound, Outbound
<1>9. UNCHANGED vars => UNCHANGED nmVars
  BY DEF vars
<1>10. QED
  BY <1>1, <1>2, <1>3, <1>4, <1>5, <1>6, <1>7, <1>8, <1>9 DEF Next, Dispatch

LEMMA InvNothingDropped == TypeOK /\ NmInv => NothingDropped
<1> SUFFICES ASSUME TypeOK, NmInv PROVE NothingDropped
  OBVIOUS
<1>1. DOMAIN what = 1..sent
  BY NmFacts DEF TypeOK
<1>2. \A n : Has(routed, n) <=> Taken(n)
  BY DEF Has, Taken
<1>3. subscribed = <<>> => ~managed
  BY Zenon DEF TypeOK
<1>4. QED
  BY <1>1, <1>2, <1>3 DEF NothingDropped, NmInv, QueueInv, IdleInv

-----------------------------------------------------------------------------
(* The signals of a client. *)

\* Numbers that are appended in their order, one after the other.
LEMMA AppendHas ==
  ASSUME NEW S, NEW s \in Seq(S), NEW x \in S
  PROVE  \A k : Has(Append(s, x), k) <=> Has(s, k) \/ k = x
<1>1. /\ Len(s) \in Nat /\ DOMAIN s = 1..Len(s) /\ DOMAIN Append(s, x) = 1..(Len(s) + 1)
      /\ \A i \in DOMAIN s : Append(s, x)[i] = s[i]
      /\ Append(s, x)[Len(s) + 1] = x
  BY LenProperties, AppendProperties
<1>2. ASSUME NEW k, Has(Append(s, x), k) PROVE Has(s, k) \/ k = x
  <2>1. PICK i \in 1..(Len(s) + 1) : Append(s, x)[i] = k
    BY <1>1, <1>2 DEF Has
  <2>2. QED
    BY <1>1, <2>1 DEF Has
<1>3. ASSUME NEW k, Has(s, k) PROVE Has(Append(s, x), k)
  BY <1>1, <1>3 DEF Has
<1>4. Has(Append(s, x), x)
  <2>1. Len(s) + 1 \in DOMAIN Append(s, x)
    BY <1>1
  <2>2. QED
    BY <1>1, <2>1 DEF Has
<1>5. QED
  BY <1>2, <1>3, <1>4

LEMMA AppendAscending ==
  ASSUME NEW S \in SUBSET Nat, NEW s \in Seq(S), NEW x \in S, Ascending(s),
         \A i \in DOMAIN s : s[i] < x
  PROVE  Ascending(Append(s, x))
<1>1. /\ Len(s) \in Nat /\ DOMAIN s = 1..Len(s) /\ DOMAIN Append(s, x) = 1..(Len(s) + 1)
      /\ \A i \in DOMAIN s : Append(s, x)[i] = s[i]
      /\ Append(s, x)[Len(s) + 1] = x
  BY LenProperties, AppendProperties
<1>2. ASSUME NEW i \in 1..(Len(s) + 1), NEW j \in 1..(Len(s) + 1), i < j
      PROVE  Append(s, x)[i] < Append(s, x)[j]
  <2>1. i \in DOMAIN s
    BY <1>1, <1>2
  <2>2. j \in DOMAIN s \/ j = Len(s) + 1
    BY <1>1
  <2>3. CASE j \in DOMAIN s
    BY <1>1, <1>2, <2>1, <2>3 DEF Ascending
  <2>4. CASE j = Len(s) + 1
    BY <1>1, <2>1, <2>4
  <2>5. QED
    BY <2>2, <2>3, <2>4
<1>3. QED
  BY <1>1, <1>2 DEF Ascending

LEMMA InboundStep == TypeOK /\ InboundExact /\ [Next]_vars => InboundExact'
<1> SUFFICES ASSUME TypeOK, InboundExact, [Next]_vars PROVE InboundExact'
  OBVIOUS
<1>a. /\ Len(packets) \in Nat /\ DOMAIN packets = 1..Len(packets) /\ inbound \in 0..Len(packets)
      /\ pushed \in Seq(DOMAIN packets) /\ packets \in Seq(Packet)
      /\ Len(pushed) \in Nat /\ DOMAIN pushed = 1..Len(pushed)
      /\ \A i \in DOMAIN pushed : pushed[i] \in DOMAIN packets
  BY LenProperties, ElementOfSeq DEF TypeOK, IaTypeOK
<1>b. \A i \in DOMAIN pushed : pushed[i] <= inbound
  BY <1>a DEF InboundExact, Has
<1>1. ASSUME NEW p \in Packet, ClientSends(p) PROVE InboundExact'
  <2>1. packets' = Append(packets, p) /\ UNCHANGED <<inbound, pushed>>
    BY <1>1 DEF ClientSends, SendPacket
  <2>2. /\ DOMAIN packets' = 1..(Len(packets) + 1)
        /\ \A n \in DOMAIN packets : packets'[n] = packets[n]
    BY <1>a, <2>1, AppendProperties
  <2>3. \A n \in DOMAIN packets' : n \in DOMAIN packets \/ (n > inbound /\ ~Has(pushed, n))
    BY <1>a, <1>b, <2>2 DEF Has
  <2>4. \A n \in DOMAIN packets' : Has(pushed, n) <=> n <= inbound /\ Good(packets'[n])
    BY <2>2, <2>3, <1>a DEF InboundExact
  <2>5. QED
    BY <2>1, <2>4 DEF InboundExact, Ascending, Has, Good
<1>2. CASE TakePacket
  <2> DEFINE n == inbound + 1
  <2>1. /\ n \in DOMAIN packets /\ inbound' = n /\ packets' = packets
        /\ pushed' = IF Accepted(packets[n]) THEN Append(pushed, n) ELSE pushed
    BY <1>2 DEF TakePacket, ProcessInbound, iaClient
  <2>2. packets[n] \in Packet
    BY <1>a, <2>1, ElementOfSeq
  <2>3. Accepted(packets[n]) <=> Good(packets[n])
    BY <2>2, IngressAssumption DEF Accepted, GetId, Good
  <2>4. CASE Accepted(packets[n])
    <3>1. /\ DOMAIN packets \in SUBSET Nat /\ pushed' = Append(pushed, n)
          /\ \A i \in DOMAIN pushed : pushed[i] < n
      BY <1>a, <1>b, <2>1, <2>4
    <3>2. Ascending(pushed')
      BY <3>1, <2>1, <1>a, AppendAscending DEF InboundExact
    <3>3. \A k : Has(pushed', k) <=> Has(pushed, k) \/ k = n
      BY <3>1, <2>1, <1>a, AppendHas
    <3>4. \A k \in DOMAIN packets : Has(pushed', k) <=> k <= n /\ Good(packets[k])
      BY <3>3, <2>3, <2>4, <1>a DEF InboundExact
    <3>5. QED
      BY <3>2, <3>4, <2>1 DEF InboundExact, Ascending, Has
  <2>5. CASE ~Accepted(packets[n])
    <3>1. \A k \in DOMAIN packets : Has(pushed, k) <=> k <= n /\ Good(packets[k])
      BY <2>3, <2>5, <1>a DEF InboundExact
    <3>2. QED
      BY <3>1, <2>1, <2>5 DEF InboundExact, Ascending, Has
  <2>6. QED
    BY <2>4, <2>5
<1>3. CASE UNCHANGED <<packets, inbound, pushed>>
  BY <1>3 DEF InboundExact, Ascending, Has, Good
<1>4. (\E p \in Users : WithNp(p)) \/ WithIngressAdapter
        \/ (\E topic \in Topic : WithTimeoutManager(topic)) \/ (\E kind \in Kind : WithSm(kind))
        \/ BuildProcessors \/ BuildMachines => UNCHANGED <<packets, inbound, pushed>>
  BY DEF WithNp, WithIngressAdapter, WithTimeoutManager, WithSm, Configure, BuildProcessors,
         BuildMachines, SpawnAdapter, iaVars, iaClient
<1>5. Dispatch \/ Panic => UNCHANGED <<packets, inbound, pushed>>
  BY DEF Dispatch, DropSignal, Answer, SignalSelf, SignalNext, Panic, Drop, Process, iaClient
<1>6. ClientHangsUp \/ ClientLeaves \/ EndInbound \/ Outbound
        => UNCHANGED <<packets, inbound, pushed>>
  BY DEF ClientHangsUp, HangUp, ClientLeaves, Leave, EndInbound, InboundEnds, Outbound,
         ProcessOutbound, iaClient
<1>7. (\E topic \in Topic : UserNotifies(topic)) \/ Manage
        \/ (\E p \in Users : UserProcessorEnds(p)) => UNCHANGED <<packets, inbound, pushed>>
  BY DEF UserNotifies, Manage, UserProcessorEnds, iaVars, iaClient
<1>8. UNCHANGED vars => UNCHANGED <<packets, inbound, pushed>>
  BY DEF vars, iaVars, iaClient
<1>9. QED
  BY <1>1, <1>2, <1>3, <1>4, <1>5, <1>6, <1>7, <1>8 DEF Next

-----------------------------------------------------------------------------
(* The answers of a client. *)

\* A signal is the one of its packet.
Exact(s) == s.about <= inbound /\ Good(packets[s.about]) /\ s.to = IdOf[packets[s.about]]

\* At most one machine has signalled itself, and about a packet before those that wait.
LaneInv ==
  /\ task = "none" => inbound = 0
  /\ Len(front) <= 1
  /\ \A i, j \in DOMAIN back : i < j => back[i].about < back[j].about
  /\ \A i \in DOMAIN front, j \in DOMAIN back : front[i].about < back[j].about
  /\ \A i \in DOMAIN front : Exact(front[i])
  /\ \A i \in DOMAIN back : Exact(back[i])

Waits(n) ==
  \/ \E i \in DOMAIN front : front[i].about = n
  \/ \E i \in DOMAIN back : back[i].about = n
Answered(n) == \E i \in DOMAIN what : what[i].body = n

\* Packets are answered in their order and before those that wait; what can be answered has
\* been, or waits, or comes after the signal that the task died of.
AnswerInv ==
  /\ phase # "running" => dispatcher = "none"
  /\ \A i, j \in DOMAIN what :
       i < j /\ what[i].body # 0 /\ what[j].body # 0 => what[i].body < what[j].body
  /\ \A i \in DOMAIN what : what[i].body # 0 =>
       /\ what[i].lane = "back" /\ what[i].topic = IngressTopic
       /\ what[i].body <= inbound /\ Answerable(what[i].body)
       /\ \A n \in 1..inbound : Waits(n) => what[i].body < n
  /\ \A n \in 1..inbound : Answerable(n) =>
       \/ Answered(n)
       \/ Waits(n)
       \/ dispatcher = "dead" /\ \A i \in DOMAIN what : what[i].body < n

\* What the outbound task has taken it has sent, until the client has left.
Told(k) == what[channel[Adapter][k]].body
ReceivedInv ==
  /\ Ascending(received)
  /\ \A i \in DOMAIN received : \E k \in 1..forwarded : Told(k) = received[i]
  /\ \A k \in 1..forwarded : Told(k) # 0 =>
       Has(received, Told(k)) \/ (gone /\ \A i \in DOMAIN received : received[i] < Told(k))

LEMMA LaneFacts ==
  ASSUME TypeOK
  PROVE  /\ Len(packets) \in Nat /\ DOMAIN packets = 1..Len(packets)
         /\ packets \in Seq(Packet) /\ \A n \in DOMAIN packets : packets[n] \in Packet
         /\ inbound \in 0..Len(packets)
         /\ front \in Seq(OwnSignal) /\ Len(front) \in Nat /\ DOMAIN front = 1..Len(front)
         /\ \A i \in DOMAIN front : front[i] \in OwnSignal /\ front[i].about \in 1..Len(packets)
         /\ back \in Seq(PacketSignal) /\ Len(back) \in Nat /\ DOMAIN back = 1..Len(back)
         /\ \A i \in DOMAIN back : back[i] \in PacketSignal /\ back[i].about \in 1..Len(packets)
<1>1. /\ Len(packets) \in Nat /\ DOMAIN packets = 1..Len(packets)
      /\ packets \in Seq(Packet) /\ \A n \in DOMAIN packets : packets[n] \in Packet
      /\ inbound \in 0..Len(packets)
  BY LenProperties, ElementOfSeq DEF TypeOK, IaTypeOK
<1>2. front \in Seq(OwnSignal) /\ back \in Seq(PacketSignal)
  BY DEF TypeOK, IaTypeOK, OwnSignal, PacketSignal
<1>3. /\ Len(front) \in Nat /\ DOMAIN front = 1..Len(front)
      /\ \A i \in DOMAIN front : front[i] \in OwnSignal
  BY <1>2, LenProperties, ElementOfSeq
<1>4. /\ Len(back) \in Nat /\ DOMAIN back = 1..Len(back)
      /\ \A i \in DOMAIN back : back[i] \in PacketSignal
  BY <1>2, LenProperties, ElementOfSeq
<1>5. QED
  BY <1>1, <1>2, <1>3, <1>4 DEF OwnSignal, PacketSignal

\* What one round of the dispatcher does to the lanes.
LEMMA ProcessLanes ==
  ASSUME TypeOK, LaneInv, NEW toFront \in Seq(OwnSignal), Process(toFront, <<>>),
         toFront = <<>> \/ (front = <<>> /\ toFront = <<[Received EXCEPT !.own = TRUE]>>)
  PROVE  /\ LaneInv'
         /\ Exact(Received) /\ Received.about \in 1..inbound /\ Waits(Received.about)
         /\ \A n : Waits(n) => n = Received.about \/ Waits(n)'
         /\ \A n : Waits(n)' => Waits(n) /\ (toFront = <<>> => Received.about < n)
         /\ \A n : toFront # <<>> /\ n = Received.about => Waits(n)'
<1> DEFINE r == Received
<1>1. UNCHANGED <<packets, inbound, task>> /\ Waiting
  BY DEF Process, iaClient
<1>2. CASE front # <<>>
  <2>1. Len(front) = 1 /\ DOMAIN front = 1..1 /\ r = front[1]
    BY <1>2, LaneFacts, EmptySeq DEF LaneInv, Received
  <2>2. front' = <<>> /\ back' = back /\ toFront = <<>>
    <3>1. Tail(front) = <<>>
      <4>1. Tail(front) \in Seq(OwnSignal) /\ Len(Tail(front)) = 0
        BY <1>2, <2>1, LaneFacts, HeadTailProperties
      <4>2. QED
        BY <4>1, EmptySeq
    <3>2. QED
      BY <1>2, <3>1, LaneFacts, ConcatEmptySeq DEF Process
  <2>3. LaneInv'
    BY <2>2, <1>1 DEF LaneInv, Exact
  <2>4. Exact(r) /\ r.about \in 1..inbound
    BY <2>1, LaneFacts DEF LaneInv, Exact
  <2>5. \A n : Waits(n) <=> n = r.about \/ \E i \in DOMAIN back : back[i].about = n
    BY <2>1 DEF Waits
  <2>6. \A n : Waits(n)' <=> \E i \in DOMAIN back : back[i].about = n
    BY <2>2 DEF Waits
  <2>7. \A i \in DOMAIN back : r.about < back[i].about
    BY <2>1 DEF LaneInv
  <2>8. QED
    BY <2>2, <2>3, <2>4, <2>5, <2>6, <2>7
<1>3. CASE front = <<>>
  <2>1. back # <<>> /\ r = Head(back)
    BY <1>1, <1>3 DEF Waiting, Received
  <2>2. front' = toFront /\ back' = Tail(back) /\ Tail(back) \in Seq(PacketSignal)
    <3>1. Tail(back) \in Seq(PacketSignal)
      BY <2>1, LaneFacts, HeadTailProperties
    <3>2. QED
      BY <1>3, <3>1, ConcatEmptySeq DEF Process
  <2>3. /\ Len(back) \in Nat \ {0} /\ DOMAIN back = 1..Len(back) /\ r = back[1]
        /\ DOMAIN back' = 1..(Len(back) - 1)
        /\ \A i \in DOMAIN back' : back'[i] = back[i + 1]
    BY <2>1, <2>2, LaneFacts, EmptySeq, HeadTailProperties, LenProperties
  <2>4. Exact(r) /\ r.about \in 1..inbound
    BY <2>3, LaneFacts DEF LaneInv, Exact
  <2>5. \A i \in DOMAIN front' : i = 1 /\ front'[i].about = r.about /\ front'[i].to = r.to
    <3>1. r \in [to : Kind, about : Nat, own : BOOLEAN]
      BY <2>3, LaneFacts DEF PacketSignal, Signal
    <3>2. QED
      BY <1>3, <2>2, <3>1
  <2>6. \A i \in DOMAIN back' : r.about < back'[i].about /\ Exact(back'[i])
    BY <2>3 DEF LaneInv
  <2>7. LaneInv'
    <3>1. Len(front') <= 1
      <4>1. CASE toFront = <<>>
        BY <2>2, <4>1
      <4>2. CASE toFront = <<[r EXCEPT !.own = TRUE]>>
        BY <2>2, <4>2
      <4>3. QED
        BY <4>1, <4>2
    <3>2. \A i, j \in DOMAIN back' : i < j => back'[i].about < back'[j].about
      <4>1. ASSUME NEW i \in 1..(Len(back) - 1), NEW j \in 1..(Len(back) - 1), i < j
            PROVE  back[i + 1].about < back[j + 1].about
        BY <2>3, <4>1 DEF LaneInv
      <4>2. QED
        BY <2>3, <4>1
    <3>3. \A i \in DOMAIN front', j \in DOMAIN back' : front'[i].about < back'[j].about
      BY <2>5, <2>6
    <3>4. \A i \in DOMAIN front' : Exact(front'[i])
      BY <2>4, <2>5 DEF Exact
    <3>5. QED
      BY <1>1, <2>6, <3>1, <3>2, <3>3, <3>4 DEF LaneInv, Exact
  <2>8. \A n : Waits(n) <=> n = r.about \/ \E i \in DOMAIN back' : back'[i].about = n
    <3>1. ASSUME NEW n, Waits(n) PROVE n = r.about \/ \E i \in DOMAIN back' : back'[i].about = n
      <4>1. PICK i \in DOMAIN back : back[i].about = n
        BY <1>3, <3>1 DEF Waits
      <4>2. i = 1 \/ (i - 1 \in DOMAIN back' /\ back'[i - 1] = back[i])
        BY <2>3
      <4>3. QED
        BY <4>1, <4>2, <2>3
    <3>2. Waits(r.about)
      BY <2>3 DEF Waits
    <3>3. ASSUME NEW n, NEW i \in DOMAIN back', back'[i].about = n PROVE Waits(n)
      BY <2>3, <3>3 DEF Waits
    <3>4. QED
      BY <3>1, <3>2, <3>3
  <2>9. /\ \A n : (\E i \in DOMAIN back' : back'[i].about = n) => Waits(n)'
        /\ \A n : Waits(n)' => (\E i \in DOMAIN back' : back'[i].about = n)
                              \/ (n = r.about /\ toFront # <<>>)
        /\ \A n : toFront # <<>> /\ n = r.about => Waits(n)'
    <3>1. toFront # <<>> => 1 \in DOMAIN front'
      BY <1>3, <2>2
    <3>2. toFront = <<>> => DOMAIN front' = {}
      BY <2>2
    <3>3. \A n : toFront # <<>> /\ n = r.about => Waits(n)'
      BY <3>1, <2>5 DEF Waits
    <3>4. \A n : Waits(n)' => (\E i \in DOMAIN back' : back'[i].about = n)
                           \/ (n = r.about /\ toFront # <<>>)
      BY <2>5, <3>2 DEF Waits
    <3>5. QED
      BY <3>3, <3>4 DEF Waits
  <2>10. QED
    BY <2>4, <2>6, <2>7, <2>8, <2>9
<1>4. QED
  BY <1>2, <1>3

\* The rounds of the dispatcher, as cases of ProcessLanes.
LEMMA RoundIs ==
  ASSUME TypeOK, LaneInv
  PROVE  /\ DropSignal \/ Answer \/ Panic => Process(<<>>, <<>>)
         /\ <<>> \in Seq(OwnSignal)
         /\ SignalSelf => /\ front = <<>>
                          /\ Process(<<[Received EXCEPT !.own = TRUE]>>, <<>>)
                          /\ <<[Received EXCEPT !.own = TRUE]>> \in Seq(OwnSignal)
<1>1. DropSignal \/ Answer \/ Panic => Process(<<>>, <<>>)
  BY DEF DropSignal, Answer, Panic, Drop
<1>2. <<>> \in Seq(OwnSignal)
  BY EmptySeq
<1>3. ASSUME SignalSelf
      PROVE  /\ front = <<>>
             /\ Process(<<[Received EXCEPT !.own = TRUE]>>, <<>>)
             /\ <<[Received EXCEPT !.own = TRUE]>> \in Seq(OwnSignal)
  <2>1. /\ Process(<<[Received EXCEPT !.own = TRUE]>>, <<>>) /\ Waiting /\ ~Received.own
    BY <1>3 DEF SignalSelf, SignalNext
  <2>2. Received \in OwnSignal \cup PacketSignal
    BY <2>1, WaitingType DEF TypeOK
  <2>3. [Received EXCEPT !.own = TRUE] \in OwnSignal
    BY <2>2 DEF OwnSignal, PacketSignal, Signal
  <2>4. front = <<>>
    <3>1. SUFFICES ASSUME front # <<>> PROVE FALSE
      OBVIOUS
    <3>2. Received \in OwnSignal
      BY <3>1, LaneFacts, HeadTailProperties DEF Received
    <3>3. QED
      BY <3>2, <2>1 DEF OwnSignal
  <2>5. QED
    BY <2>1, <2>3, <2>4
<1>4. QED
  BY <1>1, <1>2, <1>3

LEMMA LaneStep == TypeOK /\ LaneInv /\ [Next]_vars => LaneInv'
<1> SUFFICES ASSUME TypeOK, LaneInv, [Next]_vars PROVE LaneInv'
  OBVIOUS
<1> DEFINE laneVars == <<packets, inbound, task, front, back>>
<1>1. CASE Dispatch \/ Panic
  BY <1>1, RoundIs, ProcessLanes DEF Dispatch
<1>2. ASSUME NEW p \in Packet, ClientSends(p) PROVE LaneInv'
  <2>1. packets' = Append(packets, p) /\ UNCHANGED <<inbound, task, front, back>>
    BY <1>2 DEF ClientSends, SendPacket
  <2>2. \A n \in DOMAIN packets : packets'[n] = packets[n]
    BY <2>1, LaneFacts, AppendProperties
  <2>3. /\ \A i \in DOMAIN front : Exact(front[i])'
        /\ \A i \in DOMAIN back : Exact(back[i])'
    BY <2>1, <2>2, LaneFacts DEF LaneInv, Exact
  <2>4. QED
    BY <2>1, <2>3 DEF LaneInv, Exact
<1>3. CASE TakePacket
  <2> DEFINE n == inbound + 1
             signal == [to |-> GetId(packets[n]), about |-> n, own |-> FALSE]
  <2>1. /\ n \in DOMAIN packets /\ inbound' = n /\ task' = "running"
        /\ packets' = packets /\ front' = front
        /\ back' = IF Accepted(packets[n]) THEN Append(back, signal) ELSE back
    BY <1>3 DEF TakePacket, ProcessInbound, AfterPacket, iaClient
  <2>2. \A i \in DOMAIN front : Exact(front[i]) /\ front[i].about < n
    BY <2>1, LaneFacts DEF LaneInv, Exact
  <2>3. \A i \in DOMAIN back : Exact(back[i]) /\ back[i].about < n
    BY <2>1, LaneFacts DEF LaneInv, Exact
  <2>4. CASE Accepted(packets[n])
    <3>1. signal \in PacketSignal /\ Good(packets[n]) /\ signal.to = IdOf[packets[n]]
      <4>1. packets[n] \in Packet
        BY <2>1, LaneFacts
      <4>2. /\ GetId(packets[n]) \in Kind /\ GetId(packets[n]) = IdOf[packets[n]]
            /\ Good(packets[n])
        BY <4>1, <2>4, IngressAssumption DEF Accepted, GetId, Good
      <4>3. QED
        BY <4>2, <2>1, LaneFacts DEF PacketSignal, Signal
    <3>2. /\ DOMAIN back' = 1..(Len(back) + 1)
          /\ \A i \in DOMAIN back : back'[i] = back[i]
          /\ back'[Len(back) + 1] = signal
      BY <2>1, <2>4, <3>1, LaneFacts, AppendProperties
    <3>3. \A i, j \in DOMAIN back' : i < j => back'[i].about < back'[j].about
      <4>1. ASSUME NEW i \in 1..(Len(back) + 1), NEW j \in 1..(Len(back) + 1), i < j
            PROVE  back'[i].about < back'[j].about
        <5>1. i \in DOMAIN back
          BY <4>1, LaneFacts
        <5>2. CASE j \in DOMAIN back
          BY <4>1, <5>1, <5>2, <3>2 DEF LaneInv
        <5>3. CASE j = Len(back) + 1
          BY <5>1, <5>3, <3>2, <2>3
        <5>4. QED
          BY <5>2, <5>3, LaneFacts
      <4>2. QED
        BY <4>1, <3>2
    <3>4. \A j \in DOMAIN back' : j \in DOMAIN back \/ j = Len(back) + 1
      BY <3>2, LaneFacts
    <3>5. \A i \in DOMAIN front, j \in DOMAIN back' : front[i].about < back'[j].about
      BY <3>2, <3>4, <2>2 DEF LaneInv
    <3>6. \A j \in DOMAIN back' : /\ back'[j].about <= n /\ Good(packets[back'[j].about])
                                 /\ back'[j].to = IdOf[packets[back'[j].about]]
      <4>1. ASSUME NEW j \in DOMAIN back
            PROVE  /\ back'[j].about <= n /\ Good(packets[back'[j].about])
                   /\ back'[j].to = IdOf[packets[back'[j].about]]
        BY <3>2, <2>3, LaneFacts DEF Exact
      <4>2. QED
        BY <3>1, <3>2, <3>4, <4>1, LaneFacts
    <3>7. QED
      BY <2>1, <2>2, <3>3, <3>5, <3>6, LaneFacts DEF LaneInv, Exact
  <2>5. CASE ~Accepted(packets[n])
    BY <2>1, <2>2, <2>3, <2>5, LaneFacts DEF LaneInv, Exact
  <2>6. QED
    BY <2>4, <2>5
<1>4. CASE /\ UNCHANGED <<packets, inbound, front, back>>
           /\ task' = task \/ task' # "none"
  BY <1>4 DEF LaneInv, Exact
<1>5. CASE UNCHANGED laneVars
  BY <1>5 DEF LaneInv, Exact
<1>6. BuildProcessors \/ EndInbound => /\ UNCHANGED <<packets, inbound, front, back>>
                                       /\ task' = task \/ task' # "none"
  BY DEF BuildProcessors, SpawnAdapter, EndInbound, InboundEnds, iaVars, iaClient
<1>7. (\E p \in Users : WithNp(p)) \/ WithIngressAdapter
        \/ (\E topic \in Topic : WithTimeoutManager(topic)) \/ (\E kind \in Kind : WithSm(kind))
        \/ BuildMachines => UNCHANGED laneVars
  BY DEF WithNp, WithIngressAdapter, WithTimeoutManager, WithSm, Configure, BuildMachines, iaVars,
         iaClient
<1>8. ClientHangsUp \/ ClientLeaves \/ Outbound => UNCHANGED laneVars
  BY DEF ClientHangsUp, HangUp, ClientLeaves, Leave, Outbound, ProcessOutbound, iaClient
<1>9. (\E topic \in Topic : UserNotifies(topic)) \/ Manage
        \/ (\E p \in Users : UserProcessorEnds(p)) => UNCHANGED laneVars
  BY DEF UserNotifies, Manage, UserProcessorEnds, iaVars, iaClient
<1>10. UNCHANGED vars => UNCHANGED laneVars
  BY DEF vars, iaVars, iaClient
<1>11. QED
  BY <1>1, <1>2, <1>3, <1>4, <1>5, <1>6, <1>7, <1>8, <1>9, <1>10 DEF Next

LEMMA WhatFacts ==
  ASSUME TypeOK
  PROVE  /\ Len(what) \in Nat /\ DOMAIN what = 1..Len(what)
         /\ \A i \in DOMAIN what : what[i].body \in 0..Len(packets)
<1> DEFINE Message == [topic : Topic, lane : {"front", "back"}, body : Body]
<1>1. what \in Seq(Message) /\ Len(packets) \in Nat
  BY LenProperties DEF TypeOK, NmTypeOK, IaTypeOK
<1> HIDE DEF Message
<1>2. /\ Len(what) \in Nat /\ DOMAIN what = 1..Len(what)
      /\ \A i \in DOMAIN what : what[i] \in Message
  BY <1>1, LenProperties, ElementOfSeq
<1>3. \A i \in DOMAIN what : what[i].body \in Nat
  BY <1>2, ServiceAssumption DEF Message
<1>4. QED
  BY <1>1, <1>2, <1>3 DEF TypeOK

LEMMA AnswerKept ==
  ASSUME AnswerInv, UNCHANGED <<what, inbound, packets, machines, dispatcher>>,
         phase' # "running" => phase # "running", \A n : Waits(n)' <=> Waits(n)
  PROVE  AnswerInv'
<1>1. /\ \A n : Answerable(n)' <=> Answerable(n)
      /\ \A n : Answered(n)' <=> Answered(n)
  BY DEF Answerable, Answered, Good
<1>2. QED
  BY <1>1 DEF AnswerInv

\* Before a machine runs nothing is answered.
LEMMA NothingYet ==
  ASSUME TypeOK, LaneInv, AnswerInv, task = "none"
  PROVE  inbound = 0 /\ \A i \in DOMAIN what : what[i].body = 0
<1>1. inbound = 0
  BY DEF LaneInv
<1>2. QED
  BY <1>1, WhatFacts DEF AnswerInv

LEMMA AnswerStep == TypeOK /\ LaneInv /\ AnswerInv /\ [Next]_vars => AnswerInv'
<1> SUFFICES ASSUME TypeOK, LaneInv, AnswerInv, [Next]_vars PROVE AnswerInv'
  OBVIOUS
<1> DEFINE answerVars == <<what, inbound, packets, machines, dispatcher, phase, front, back>>
           a == Received.about
<1>1. ASSUME NEW kind \in Kind, WithSm(kind) PROVE AnswerInv'
  <2>1. /\ UNCHANGED <<what, inbound, phase, dispatcher>> /\ phase = "building"
    BY <1>1 DEF WithSm, Configure, iaVars, nmVars, nmTask
  <2>2. task = "none"
    BY <2>1, Zenon DEF TypeOK
  <2>3. inbound = 0 /\ \A i \in DOMAIN what : what[i].body = 0
    BY <2>2, NothingYet
  <2>4. QED
    BY <2>1, <2>3 DEF AnswerInv
<1>2. CASE BuildMachines
  <2>1. /\ UNCHANGED <<what, inbound, packets, machines, front, back>>
        /\ dispatcher = "none" /\ dispatcher' = "running" /\ phase' = "running"
    BY <1>2 DEF BuildMachines, AnswerInv, iaVars, iaClient, nmVars
  <2>2. /\ \A n : Answerable(n)' <=> Answerable(n)
        /\ \A n : Answered(n)' <=> Answered(n)
        /\ \A n : Waits(n)' <=> Waits(n)
    BY <2>1 DEF Answerable, Answered, Good, Waits
  <2>3. QED
    BY <2>1, <2>2 DEF AnswerInv
<1>3. ASSUME NEW p \in Packet, ClientSends(p) PROVE AnswerInv'
  <2>1. /\ packets' = Append(packets, p)
        /\ UNCHANGED <<what, inbound, machines, dispatcher, phase, front, back>>
    BY <1>3 DEF ClientSends, SendPacket, nmVars, builder
  <2>2. /\ \A n \in DOMAIN packets : packets'[n] = packets[n]
        /\ 1..inbound \subseteq DOMAIN packets
    BY <2>1, LaneFacts, AppendProperties
  <2>3. /\ \A n \in DOMAIN packets : Answerable(n)' <=> Answerable(n)
        /\ \A n : Answered(n)' <=> Answered(n)
        /\ \A n : Waits(n)' <=> Waits(n)
    BY <2>1, <2>2 DEF Answerable, Answered, Good, Waits
  <2>4. \A i \in DOMAIN what : what[i].body # 0 => what[i].body \in DOMAIN packets
    BY WhatFacts, LaneFacts
  <2>5. QED
    BY <2>1, <2>2, <2>3, <2>4 DEF AnswerInv
<1>4. CASE TakePacket
  <2> DEFINE n == inbound + 1
             signal == [to |-> GetId(packets[n]), about |-> n, own |-> FALSE]
  <2>1. /\ n \in DOMAIN packets /\ inbound' = n /\ front' = front
        /\ UNCHANGED <<packets, what, machines, dispatcher, phase>>
        /\ back' = IF Accepted(packets[n]) THEN Append(back, signal) ELSE back
    BY <1>4 DEF TakePacket, ProcessInbound, iaClient, nmVars, builder
  <2>2. packets[n] \in Packet /\ n \in 1..Len(packets) /\ inbound \in Nat
    BY <2>1, LaneFacts
  <2>3. \A k : Waits(k)' <=> Waits(k) \/ (k = n /\ Accepted(packets[n]))
    <3>1. CASE Accepted(packets[n])
      <4>1. signal \in PacketSignal
        BY <2>2, <3>1, LaneFacts, IngressAssumption DEF Accepted, GetId, PacketSignal, Signal
      <4>2. /\ DOMAIN back' = 1..(Len(back) + 1)
            /\ \A i \in DOMAIN back : back'[i] = back[i]
            /\ back'[Len(back) + 1] = signal
        BY <2>1, <3>1, <4>1, LaneFacts, AppendProperties
      <4>3. \A i \in DOMAIN back' : i \in DOMAIN back \/ back'[i].about = n
        BY <4>2, LaneFacts
      <4>4. Len(back) + 1 \in DOMAIN back' /\ DOMAIN back \subseteq DOMAIN back'
        BY <4>2, LaneFacts
      <4>5. \A k : Waits(k)' => Waits(k) \/ k = n
        BY <2>1, <4>2, <4>3 DEF Waits
      <4>6. \A k : Waits(k) \/ k = n => Waits(k)'
        BY <2>1, <4>2, <4>4 DEF Waits
      <4>7. QED
        BY <3>1, <4>5, <4>6
    <3>2. CASE ~Accepted(packets[n])
      BY <2>1, <3>2 DEF Waits
    <3>3. QED
      BY <3>1, <3>2
  <2>4. Answerable(n) => Accepted(packets[n])
    BY <2>2, IngressAssumption DEF Answerable, Good, Accepted, GetId
  <2>5. /\ \A k : Answerable(k)' <=> Answerable(k)
        /\ \A k : Answered(k)' <=> Answered(k)
    BY <2>1 DEF Answerable, Answered, Good
  <2>6. \A k \in 1..n : k \in 1..inbound \/ k = n
    BY <2>2
  <2>7. ASSUME NEW i \in DOMAIN what, what[i].body # 0
        PROVE  what[i].body < n /\ what[i].body <= n
    BY <2>2, <2>7, WhatFacts DEF AnswerInv
  <2>8. \A i \in DOMAIN what : what[i].body # 0 =>
          \A k \in 1..n : Waits(k)' => what[i].body < k
    BY <2>3, <2>6, <2>7 DEF AnswerInv
  <2>9. \A k \in 1..n : Answerable(k) =>
          \/ Answered(k)
          \/ Waits(k)'
          \/ dispatcher = "dead" /\ \A i \in DOMAIN what : what[i].body < k
    BY <2>3, <2>4, <2>6 DEF AnswerInv
  <2>10. QED
    BY <2>1, <2>5, <2>7, <2>8, <2>9 DEF AnswerInv
<1>5. ASSUME DropSignal \/ Answer \/ Panic
      PROVE  /\ UNCHANGED <<inbound, packets, machines, phase>>
             /\ Exact(Received) /\ a \in 1..inbound /\ Waits(a) /\ dispatcher = "running"
             /\ \A n : Waits(n) => n = a \/ Waits(n)'
             /\ \A n : Waits(n)' => Waits(n) /\ a < n
             /\ \A n : Answerable(n)' <=> Answerable(n)
  <2>1. Process(<<>>, <<>>)
    BY <1>5, RoundIs
  <2>2. UNCHANGED <<inbound, packets, machines, phase>> /\ dispatcher = "running"
    BY <2>1 DEF Process, iaClient
  <2>3. QED
    BY <2>1, <2>2, RoundIs, ProcessLanes DEF Answerable, Good
<1>6. DropSignal \/ Answer \/ Panic =>
        \A i \in DOMAIN what : what[i].body # 0 => what[i].body < a
  BY <1>5 DEF AnswerInv
<1>7. CASE DropSignal
  <2>1. UNCHANGED <<what, dispatcher>> /\ ~Answerable(a)
    BY <1>5, <1>7 DEF DropSignal, nmVars, Exact, Answerable
  <2>2. \A n : Answered(n)' <=> Answered(n)
    BY <2>1 DEF Answered
  <2>3. QED
    BY <1>5, <1>7, <2>1, <2>2 DEF AnswerInv
<1>8. CASE Answer
  <2>1. /\ what' = Append(what, [topic |-> IngressTopic, lane |-> "back", body |-> a])
        /\ dispatcher' = dispatcher /\ Answerable(a)
    BY <1>5, <1>8 DEF Answer, Send, SendTo, Exact, Answerable
  <2>2. /\ DOMAIN what' = 1..(Len(what) + 1)
        /\ \A i \in DOMAIN what : what'[i] = what[i]
        /\ what'[Len(what) + 1] = [topic |-> IngressTopic, lane |-> "back", body |-> a]
    BY <2>1, BodyAppended DEF TypeOK
  <2>3. \A i \in DOMAIN what' : i \in DOMAIN what \/ i = Len(what) + 1
    BY <2>2, WhatFacts
  <2>4. Len(what) + 1 \in DOMAIN what' /\ DOMAIN what \subseteq DOMAIN what'
    BY <2>2, WhatFacts
  <2>5. \A n : Answered(n) \/ n = a => Answered(n)'
    BY <2>2, <2>4 DEF Answered
  <2>6. \A i, j \in DOMAIN what' :
          i < j /\ what'[i].body # 0 /\ what'[j].body # 0 => what'[i].body < what'[j].body
    <3>1. ASSUME NEW i \in DOMAIN what', NEW j \in DOMAIN what', i < j,
                 what'[i].body # 0, what'[j].body # 0
          PROVE  what'[i].body < what'[j].body
      <4>1. i \in DOMAIN what
        BY <3>1, <2>2, <2>3, WhatFacts
      <4>2. CASE j \in DOMAIN what
        BY <3>1, <4>1, <4>2, <2>2 DEF AnswerInv
      <4>3. CASE j = Len(what) + 1
        BY <3>1, <4>1, <4>3, <2>2, <1>6, <1>8
      <4>4. QED
        BY <4>2, <4>3, <2>3
    <3>2. QED
      BY <3>1
  <2>7. \A i \in DOMAIN what' : what'[i].body # 0 =>
          /\ what'[i].lane = "back" /\ what'[i].topic = IngressTopic
          /\ what'[i].body <= inbound /\ Answerable(what'[i].body)
          /\ \A n \in 1..inbound : Waits(n)' => what'[i].body < n
    <3>1. ASSUME NEW i \in DOMAIN what, what[i].body # 0
          PROVE  /\ what[i].lane = "back" /\ what[i].topic = IngressTopic
                 /\ what[i].body <= inbound /\ Answerable(what[i].body)
                 /\ \A n \in 1..inbound : Waits(n)' => what[i].body < n
      BY <3>1, <1>5, <1>8 DEF AnswerInv
    <3>2. /\ a <= inbound
          /\ \A n \in 1..inbound : Waits(n)' => a < n
      BY <1>5, <1>8, LaneFacts
    <3>3. QED
      BY <3>1, <3>2, <2>1, <2>2, <2>3
  <2>8. \A n \in 1..inbound : Answerable(n) => Answered(n)' \/ Waits(n)'
    BY <1>5, <1>8, <2>5 DEF AnswerInv
  <2>9. QED
    BY <1>5, <1>8, <2>1, <2>6, <2>7, <2>8 DEF AnswerInv
<1>9. CASE Panic
  <2>1. what' = what /\ dispatcher' = "dead"
    BY <1>9 DEF Panic, nmVars
  <2>2. phase = "running"
    BY <1>5, <1>9 DEF AnswerInv
  <2>3. \A n : Answered(n)' <=> Answered(n)
    BY <2>1 DEF Answered
  <2>4. \A i \in DOMAIN what : what[i].body < a
    BY <1>5, <1>6, <1>9, WhatFacts, LaneFacts
  <2>5. QED
    BY <1>5, <1>9, <2>1, <2>2, <2>3, <2>4 DEF AnswerInv
<1>10. CASE SignalSelf
  <2>1. \A n : Waits(n)' <=> Waits(n)
    BY <1>10, RoundIs, ProcessLanes
  <2>2. UNCHANGED <<what, inbound, packets, machines, dispatcher, phase>>
    BY <1>10 DEF SignalSelf, SignalNext, Process, iaClient, nmVars
  <2>3. QED
    BY <2>1, <2>2, AnswerKept
<1>11. ASSUME NEW topic \in Topic, UserNotifies(topic) PROVE AnswerInv'
  <2>1. PICK lane \in {"front", "back"} :
          what' = Append(what, [topic |-> topic, lane |-> lane, body |-> 0])
    BY <1>11 DEF UserNotifies, Send, PrioritySend, SendTo
  <2>2. UNCHANGED <<inbound, packets, machines, dispatcher, phase, front, back>>
    BY <1>11 DEF UserNotifies, iaVars, iaClient, builder
  <2>3. /\ DOMAIN what' = 1..(Len(what) + 1)
        /\ \A i \in DOMAIN what : what'[i] = what[i]
        /\ what'[Len(what) + 1].body = 0
    BY <2>1, BodyAppended DEF TypeOK
  <2>4. /\ \A i \in DOMAIN what' : i \in DOMAIN what \/ what'[i].body = 0
        /\ DOMAIN what \subseteq DOMAIN what'
    BY <2>3, WhatFacts
  <2>5. /\ \A n : Answered(n) => Answered(n)'
        /\ \A n : Waits(n)' <=> Waits(n)
        /\ \A n : Answerable(n)' <=> Answerable(n)
    BY <2>2, <2>3, <2>4 DEF Answered, Waits, Answerable, Good
  <2>6. \A n \in 1..inbound : (\A i \in DOMAIN what : what[i].body < n) =>
          \A i \in DOMAIN what' : what'[i].body < n
    BY <2>3, <2>4, LaneFacts
  <2>7. QED
    BY <2>2, <2>3, <2>4, <2>5, <2>6 DEF AnswerInv
<1>12. CASE UNCHANGED answerVars
  BY <1>12, AnswerKept DEF Waits
<1>13. CASE BuildProcessors
  <2>1. UNCHANGED <<what, inbound, packets, machines, dispatcher, front, back>>
        /\ phase = "building"
    BY <1>13 DEF BuildProcessors, Start, SpawnAdapter, iaVars, iaClient, nmVars
  <2>2. QED
    BY <2>1, AnswerKept DEF Waits
<1>14. (\E p \in Users : WithNp(p)) \/ WithIngressAdapter
        \/ (\E topic \in Topic : WithTimeoutManager(topic)) => UNCHANGED answerVars
  BY DEF WithNp, WithIngressAdapter, WithTimeoutManager, Configure, iaVars, iaClient, nmVars
<1>15. ClientHangsUp \/ ClientLeaves \/ EndInbound \/ Outbound => UNCHANGED answerVars
  BY DEF ClientHangsUp, HangUp, ClientLeaves, Leave, EndInbound, InboundEnds, Outbound,
         ProcessOutbound, iaClient, nmVars, builder
<1>16. Manage \/ (\E p \in Users : UserProcessorEnds(p)) => UNCHANGED answerVars
  BY DEF Manage, Route, FanOut, UserProcessorEnds, Close, iaVars, iaClient, nmVars, builder
<1>17. UNCHANGED vars => UNCHANGED answerVars
  BY DEF vars, iaVars, iaClient, nmVars, builder
<1>18. QED
  BY <1>1, <1>2, <1>3, <1>4, <1>7, <1>8, <1>9, <1>10, <1>11, <1>12, <1>13, <1>14, <1>15, <1>16,
     <1>17 DEF Next, Dispatch

LEMMA ChannelFacts ==
  ASSUME TypeOK
  PROVE  /\ Adapter \in Processor /\ forwarded \in Nat
         /\ Len(channel[Adapter]) \in Nat /\ DOMAIN channel[Adapter] = 1..Len(channel[Adapter])
         /\ 1..forwarded \subseteq DOMAIN channel[Adapter]
         /\ \A k \in DOMAIN channel[Adapter] :
              channel[Adapter][k] \in DOMAIN what /\ Told(k) \in 0..Len(packets)
         /\ received \in Seq(1..Len(packets)) /\ Len(packets) \in Nat
         /\ \A i \in DOMAIN received : received[i] \in 1..Len(packets)
<1>1. /\ Adapter \in Processor /\ forwarded \in Nat
      /\ Len(channel[Adapter]) \in Nat /\ DOMAIN channel[Adapter] = 1..Len(channel[Adapter])
      /\ \A k \in DOMAIN channel[Adapter] : channel[Adapter][k] \in DOMAIN what
  BY ServiceAssumption, NmFacts DEF TypeOK, IaTypeOK
<1>2. received \in Seq(1..Len(packets)) /\ Len(packets) \in Nat
  BY LaneFacts DEF TypeOK, IaTypeOK
<1>3. \A i \in DOMAIN received : received[i] \in 1..Len(packets)
  BY <1>2, LenProperties, ElementOfSeq
<1>4. 1..forwarded \subseteq DOMAIN channel[Adapter]
  BY <1>1 DEF TypeOK
<1>5. QED
  BY <1>1, <1>2, <1>3, <1>4, WhatFacts DEF Told

\* Answers go through the channel of the adapter in the order they were given.
LEMMA OlderFirst ==
  ASSUME TypeOK, NmInv, AnswerInv,
         NEW m \in DOMAIN what, NEW n \in DOMAIN what, what[m].body # 0, what[n].body # 0,
         RoutedBefore(m, n)
  PROVE  m < n /\ what[m].body < what[n].body
<1>1. PICK i, j \in DOMAIN routed : i < j /\ routed[i] = m /\ routed[j] = n
  BY DEF RoutedBefore
<1>2. m # n /\ m \in Nat /\ n \in Nat
  BY <1>1, NmFacts, WhatFacts DEF NmInv, QueueInv
<1>3. what[m].lane = "back" /\ what[n].lane = "back"
  BY DEF AnswerInv
<1>4. ~(m > n)
  BY <1>1, <1>3 DEF NmInv, OrderInv, Overtakes
<1>5. m < n
  BY <1>2, <1>4
<1>6. QED
  BY <1>5 DEF AnswerInv

LEMMA ToldInOrder ==
  ASSUME TypeOK, NmInv, AnswerInv, NEW k \in DOMAIN channel[Adapter],
         NEW l \in DOMAIN channel[Adapter], k < l, Told(k) # 0, Told(l) # 0
  PROVE  Told(k) < Told(l)
<1>1. RoutedBefore(channel[Adapter][k], channel[Adapter][l])
  BY ChannelFacts DEF NmInv, ChannelInv, InOrder
<1>2. QED
  BY <1>1, ChannelFacts, OlderFirst DEF Told

LEMMA ReceivedKept ==
  ASSUME TypeOK, ReceivedInv, UNCHANGED <<received, forwarded>>, gone => gone',
         \A k \in 1..forwarded : Told(k)' = Told(k)
  PROVE  ReceivedInv'
<1>1. \A n : Has(received, n)' <=> Has(received, n)
  BY DEF Has
<1>2. QED
  BY <1>1 DEF ReceivedInv, Ascending, Has

LEMMA ReceivedStep == TypeOK /\ NmInv /\ AnswerInv /\ ReceivedInv /\ [Next]_vars => ReceivedInv'
<1> SUFFICES ASSUME TypeOK, NmInv, AnswerInv, ReceivedInv, [Next]_vars PROVE ReceivedInv'
  OBVIOUS
<1> DEFINE receivedVars == <<received, forwarded, gone, channel, what>>
<1>1. CASE Outbound
  <2> DEFINE k == forwarded + 1
             n == Told(k)
  <2>1. /\ forwarded' = k /\ UNCHANGED <<gone, channel, what>> /\ k \in DOMAIN channel[Adapter]
        /\ received' = IF n # 0 /\ ~gone THEN Append(received, n) ELSE received
    BY <1>1, ChannelFacts DEF Outbound, ProcessOutbound, iaClient, nmVars, nmTask, Told
  <2>2. \A l : Told(l)' = Told(l)
    BY <2>1 DEF Told
  <2>3. \A i \in DOMAIN received : n # 0 => received[i] < n
    <3>1. ASSUME NEW i \in DOMAIN received, n # 0 PROVE received[i] < n
      <4>1. PICK l \in 1..forwarded : Told(l) = received[i]
        BY DEF ReceivedInv
      <4>2. l \in DOMAIN channel[Adapter] /\ l < k /\ Told(l) # 0
        BY <4>1, ChannelFacts
      <4>3. QED
        BY <4>1, <4>2, <3>1, <2>1, ToldInOrder
    <3>2. QED
      BY <3>1
  <2>4. \A l \in 1..k : l \in 1..forwarded \/ l = k
    BY ChannelFacts
  <2>5. k \in 1..k /\ 1..forwarded \subseteq 1..k
    BY ChannelFacts
  <2>6. CASE n # 0 /\ ~gone
    <3>1. n \in 1..Len(packets) /\ 1..Len(packets) \in SUBSET Nat
          /\ received' = Append(received, n)
      BY <2>1, <2>6, ChannelFacts
    <3>2. Ascending(received')
      BY <3>1, <2>3, <2>6, ChannelFacts, AppendAscending DEF ReceivedInv
    <3>3. \A m : Has(received', m) <=> Has(received, m) \/ m = n
      BY <3>1, ChannelFacts, AppendHas
    <3>4. \A m : Has(received', m) => \E l \in 1..k : Told(l) = m
      <4>1. \A m : Has(received, m) => \E l \in 1..forwarded : Told(l) = m
        BY DEF ReceivedInv, Has
      <4>2. QED
        BY <3>3, <4>1, <2>5
    <3>5. \A i \in DOMAIN received' : \E l \in 1..k : Told(l) = received'[i]
      BY <3>4 DEF Has
    <3>6. \A l \in 1..k : Told(l) # 0 => Has(received', Told(l))
      BY <3>3, <2>4, <2>6 DEF ReceivedInv
    <3>7. QED
      BY <3>2, <3>5, <3>6, <2>1, <2>2 DEF ReceivedInv, Ascending, Has
  <2>7. CASE ~(n # 0 /\ ~gone)
    <3>1. received' = received /\ gone' = gone
      BY <2>1, <2>7
    <3>2. \A l \in 1..k : Told(l) # 0 =>
            Has(received, Told(l)) \/ (gone /\ \A i \in DOMAIN received : received[i] < Told(l))
      BY <2>3, <2>4, <2>7 DEF ReceivedInv
    <3>3. \A i \in DOMAIN received : \E l \in 1..k : Told(l) = received[i]
      BY <2>5 DEF ReceivedInv
    <3>4. QED
      BY <3>1, <3>2, <3>3, <2>1, <2>2 DEF ReceivedInv, Ascending, Has
  <2>8. QED
    BY <2>6, <2>7
<1>2. CASE Manage
  <2>1. UNCHANGED <<received, forwarded, gone, what>> /\ (Route \/ FanOut)
    BY <1>2 DEF Manage, Route, FanOut, iaVars, iaClient
  <2>2. \A k \in DOMAIN channel[Adapter] : channel'[Adapter][k] = channel[Adapter][k]
    <3>1. CASE Route
      BY <3>1 DEF Route
    <3>2. CASE FanOut
      <4>1. PICK i \in rest :
              channel' = IF GetsIt(i)
                         THEN [channel EXCEPT ![subscribed[i].name] = Append(@, current)]
                         ELSE channel
        BY <3>2 DEF FanOut
      <4>2. \/ channel'[Adapter] = channel[Adapter]
            \/ channel'[Adapter] = Append(channel[Adapter], current)
        BY <4>1, ChannelFacts DEF TypeOK, NmTypeOK
      <4>3. channel[Adapter] \in Seq(1..sent) /\ current \in 1..sent
        <5>1. NmTypeOK /\ Adapter \in Processor
          BY ChannelFacts DEF TypeOK
        <5>2. QED
          BY <4>1, <5>1 DEF NmTypeOK
      <4>4. \A k \in 1..Len(channel[Adapter]) :
              Append(channel[Adapter], current)[k] = channel[Adapter][k]
        BY <4>3, AppendProperties
      <4>5. QED
        BY <4>2, <4>4, ChannelFacts
    <3>3. QED
      BY <2>1, <3>1, <3>2
  <2>3. \A k \in 1..forwarded : Told(k)' = Told(k)
    BY <2>1, <2>2, ChannelFacts DEF Told
  <2>4. QED
    BY <2>1, <2>3, ReceivedKept
<1>3. ASSUME NEW topic, NEW lane, NEW body, UNCHANGED <<received, forwarded, gone, channel>>,
             what' = Append(what, [topic |-> topic, lane |-> lane, body |-> body])
      PROVE  ReceivedInv'
  <2>1. \A n \in DOMAIN what : what'[n] = what[n]
    BY <1>3, BodyAppended DEF TypeOK
  <2>2. \A k \in 1..forwarded : Told(k)' = Told(k)
    BY <1>3, <2>1, ChannelFacts DEF Told
  <2>3. QED
    BY <1>3, <2>2, ReceivedKept
<1>4. CASE Answer
  <2>1. /\ UNCHANGED <<received, forwarded, gone, channel>>
        /\ what' = Append(what, [topic |-> IngressTopic, lane |-> "back", body |-> Received.about])
    BY <1>4 DEF Answer, Drop, Process, Send, SendTo, iaClient, nmTask
  <2>2. QED
    BY <2>1, <1>3
<1>5. ASSUME NEW topic \in Topic, UserNotifies(topic) PROVE ReceivedInv'
  <2>1. PICK lane \in {"front", "back"} :
          what' = Append(what, [topic |-> topic, lane |-> lane, body |-> 0])
    BY <1>5 DEF UserNotifies, Send, PrioritySend, SendTo
  <2>2. UNCHANGED <<received, forwarded, gone, channel>>
    BY <1>5 DEF UserNotifies, Send, PrioritySend, SendTo, iaVars, iaClient, nmTask
  <2>3. QED
    BY <2>1, <2>2, <1>3
<1>6. CASE ClientLeaves
  <2>1. UNCHANGED <<received, forwarded, channel, what>> /\ gone'
    BY <1>6 DEF ClientLeaves, Leave, nmVars, nmTask
  <2>2. QED
    BY <2>1, ReceivedKept DEF Told
<1>7. CASE UNCHANGED receivedVars
  BY <1>7, ReceivedKept DEF Told
<1>8. (\E p \in Users : WithNp(p)) \/ WithIngressAdapter
        \/ (\E topic \in Topic : WithTimeoutManager(topic)) \/ (\E kind \in Kind : WithSm(kind))
        \/ BuildProcessors \/ BuildMachines => UNCHANGED receivedVars
  BY DEF WithNp, WithIngressAdapter, WithTimeoutManager, WithSm, Configure, BuildProcessors,
         BuildMachines, SpawnAdapter, Start, iaVars, iaClient, nmVars, nmTask
<1>9. DropSignal \/ SignalSelf \/ Panic => UNCHANGED receivedVars
  BY DEF DropSignal, SignalSelf, SignalNext, Panic, Drop, Process, iaClient, nmVars, nmTask
<1>10. (\E p \in Packet : ClientSends(p)) \/ ClientHangsUp \/ TakePacket \/ EndInbound
         \/ (\E p \in Users : UserProcessorEnds(p)) => UNCHANGED receivedVars
  BY DEF ClientSends, SendPacket, ClientHangsUp, HangUp, TakePacket, ProcessInbound, EndInbound,
         InboundEnds, UserProcessorEnds, Close, iaVars, iaClient, nmVars, nmTask
<1>11. UNCHANGED vars => UNCHANGED receivedVars
  BY DEF vars, iaVars, iaClient, nmVars, nmTask
<1>12. QED
  BY <1>1, <1>2, <1>4, <1>5, <1>6, <1>7, <1>8, <1>9, <1>10, <1>11 DEF Next, Dispatch

LEMMA InvAnswersInOrder == TypeOK /\ NmInv /\ AnswerInv /\ ReceivedInv => AnswersInOrder
<1> SUFFICES ASSUME TypeOK, NmInv, AnswerInv, ReceivedInv, NEW i \in DOMAIN received
             PROVE  /\ Answerable(received[i])
                    /\ \A n \in 1..received[i] : Answerable(n) => Has(received, n)
  BY DEF AnswersInOrder, ReceivedInv
<1>1. PICK k \in 1..forwarded : Told(k) = received[i]
  BY DEF ReceivedInv
<1> DEFINE u == channel[Adapter][k]
<1>2. /\ k \in DOMAIN channel[Adapter] /\ u \in DOMAIN what
      /\ what[u].body = received[i] /\ received[i] \in 1..Len(packets)
  BY <1>1, ChannelFacts DEF Told
<1>3. /\ Answerable(received[i]) /\ what[u].lane = "back" /\ what[u].topic = IngressTopic
      /\ received[i] <= inbound
  BY <1>2 DEF AnswerInv
<1>4. ASSUME NEW n \in 1..received[i], Answerable(n), n # received[i]
      PROVE  Has(received, n)
  <2>1. n \in 1..inbound /\ n < received[i]
    BY <1>2, <1>3, <1>4, LaneFacts
  <2>2. ~Waits(n)
    BY <1>2, <2>1 DEF AnswerInv
  <2>3. Answered(n)
    BY <1>2, <1>4, <2>1, <2>2 DEF AnswerInv
  <2>4. PICK t \in DOMAIN what : what[t].body = n
    BY <2>3 DEF Answered
  <2>5. what[t].lane = "back" /\ what[t].topic = IngressTopic /\ t < u /\ n # 0
    <3>1. what[t].lane = "back" /\ what[t].topic = IngressTopic /\ n # 0
      BY <2>1, <2>4 DEF AnswerInv
    <3>2. t # u /\ ~(u < t)
      BY <1>2, <2>1, <2>4 DEF AnswerInv
    <3>3. QED
      BY <3>1, <3>2, <1>2, WhatFacts
  <2>6. u \in Due(Adapter) /\ u \in SentTo(Adapter)
    BY <1>2, ChannelFacts DEF NmInv, ChannelInv, OwnTopics, SentTo
  <2>7. PICK j \in DOMAIN routed : routed[j] = u
    BY <2>6 DEF Due
  <2>8. Taken(t)
    <3>1. SUFFICES ASSUME ~Taken(t) PROVE FALSE
      OBVIOUS
    <3>2. PICK m \in queue : m.stamp = t
      BY <3>1, <2>4, WhatFacts, NmFacts DEF NmInv, QueueInv
    <3>3. routed[j] > m.stamp
      BY <3>2, <2>5, <2>7, <1>2, <2>4, WhatFacts
    <3>4. QED
      BY <3>2, <3>3, <2>7, <1>3 DEF NmInv, OrderInv, Overtakes
  <2>9. PICK l \in DOMAIN routed : routed[l] = t
    BY <2>8 DEF Taken
  <2>10. l < j
    <3>1. l # j /\ ~(j < l)
      BY <2>5, <2>7, <2>9, <1>2, <1>3, <2>4, WhatFacts DEF NmInv, OrderInv, Overtakes
    <3>2. QED
      BY <3>1, NmFacts DEF NmInv
  <2>11. t \in Due(Adapter) /\ RoutedBefore(t, u)
    BY <2>5, <2>6, <2>7, <2>9, <2>10, <1>3 DEF Due, SubscribedTo, RoutedBefore
  <2>12. t \in SentTo(Adapter)
    BY <2>6, <2>11, ChannelFacts DEF NmInv, ChannelInv, NoGap
  <2>13. PICK q \in DOMAIN channel[Adapter] : channel[Adapter][q] = t
    BY <2>12 DEF SentTo
  <2>14. Told(q) = n
    BY <2>4, <2>13 DEF Told
  <2>15. q < k
    <3>1. q # k
      BY <2>5, <2>13, <1>2, WhatFacts
    <3>2. ~(k < q)
      BY <1>1, <1>2, <2>1, <2>5, <2>14, ToldInOrder
    <3>3. QED
      <4>1. q \in Nat /\ k \in Nat
        BY <1>2, <2>13, ChannelFacts
      <4>2. QED
        BY <3>1, <3>2, <4>1
  <2>16. q \in 1..forwarded
    <3>1. q \in Nat /\ q >= 1 /\ forwarded \in Nat /\ k \in 1..forwarded
      <4>1. DOMAIN channel[Adapter] = 1..Len(channel[Adapter]) /\ forwarded \in Nat
        BY ChannelFacts
      <4>2. QED
        BY <1>2, <2>13, <4>1
    <3>2. QED
      BY <2>15, <3>1
  <2>17. QED
    BY <2>1, <2>5, <2>14, <2>16, <1>2 DEF ReceivedInv
<1>5. Has(received, received[i])
  BY DEF Has
<1>6. QED
  BY <1>3, <1>4, <1>5

-----------------------------------------------------------------------------
(* The invariant of a service, and what it shows. *)

ServiceInv ==
  /\ TypeOK
  /\ BuildInv
  /\ NmInv
  /\ InboundExact
  /\ LaneInv
  /\ AnswerInv
  /\ ReceivedInv

LEMMA ServiceInit == Init => ServiceInv
<1> SUFFICES ASSUME Init PROVE ServiceInv
  OBVIOUS
<1>1. TypeOK
  BY TypeInit
<1>2. BuildInv
  BY DEF Init, NmInit, BuildInv, Distinct
<1>3. NmInv
  BY NmInvInit DEF Init
<1>4. packets = <<>> /\ pushed = <<>> /\ front = <<>> /\ back = <<>> /\ received = <<>>
      /\ inbound = 0 /\ forwarded = 0 /\ what = <<>> /\ dispatcher = "none"
  BY DEF Init, IaInit, NmInit
<1>5. InboundExact
  BY <1>4 DEF InboundExact, Ascending, Has
<1>6. LaneInv
  BY <1>4 DEF LaneInv
<1>7. AnswerInv
  BY <1>4 DEF AnswerInv
<1>8. ReceivedInv
  BY <1>4 DEF ReceivedInv, Ascending
<1>9. QED
  BY <1>1, <1>2, <1>3, <1>5, <1>6, <1>7, <1>8 DEF ServiceInv

LEMMA ServiceStep == ServiceInv /\ [Next]_vars => ServiceInv'
<1> SUFFICES ASSUME ServiceInv, [Next]_vars PROVE ServiceInv'
  OBVIOUS
<1>1. TypeOK /\ BuildInv /\ NmInv /\ InboundExact /\ LaneInv /\ AnswerInv /\ ReceivedInv
  BY DEF ServiceInv
<1>2. QED
  BY <1>1, TypeStep, BuildStep, NmInvStep, InboundStep, LaneStep, AnswerStep, ReceivedStep
     DEF ServiceInv

LEMMA ServiceInvariant == Spec => []ServiceInv
<1>1. QED
  BY ServiceInit, ServiceStep, PTL DEF Spec

\* The service keeps its types, and every notification of a machine is about a packet.
THEOREM TypeCorrect == Spec => []TypeOK
<1>1. ServiceInv => TypeOK
  BY DEF ServiceInv
<1>2. QED
  BY <1>1, ServiceInvariant, PTL

\* The signals of a client are its good packets, in order: process_inbound never ends over a
\* bad packet, nor skips a good one.
THEOREM InboundCorrect == Spec => []InboundExact
<1>1. ServiceInv => InboundExact
  BY DEF ServiceInv
<1>2. QED
  BY <1>1, ServiceInvariant, PTL

\* No notification is lost between the queue and the task that takes it.
THEOREM NothingDroppedCorrect == Spec => []NothingDropped
<1>1. ServiceInv => NothingDropped
  BY InvNothingDropped DEF ServiceInv
<1>2. QED
  BY <1>1, ServiceInvariant, PTL

\* The loop over the subscribers sends every processor what is due to it, in one order.
THEOREM FanOutCorrect == Spec => []FanOutExact
<1>1. ServiceInv => FanOutExact
  BY InvFanOutExact DEF ServiceInv
<1>2. QED
  BY <1>1, ServiceInvariant, PTL

\* Only priority_send overtakes.
THEOREM OvertakenCorrect == Spec => []OvertakenByPriorityOnly
<1>1. ServiceInv => OvertakenByPriorityOnly
  BY InvOvertaken DEF ServiceInv
<1>2. QED
  BY <1>1, ServiceInvariant, PTL

\* Through two channels and two queues of two lanes a client's answers are in the order of its
\* packets, without a gap.
THEOREM AnswersCorrect == Spec => []AnswersInOrder
<1>1. ServiceInv => AnswersInOrder
  BY InvAnswersInOrder DEF ServiceInv
<1>2. QED
  BY <1>1, ServiceInvariant, PTL
=============================================================================
