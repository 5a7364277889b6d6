------------------------- MODULE NotificationManagerProofs -------------------------
(***************************************************************************)
(* What every operation of the NotificationManager preserves, for any      *)
(* topics, processors and subscriptions: its types, what is where between  *)
(* the queue and the channels, and the order of it.  RexServiceProofs puts *)
(* these lemmas together for a whole service.                              *)
(***************************************************************************)
EXTENDS NotificationManager, SequenceTheorems, TLAPS

-----------------------------------------------------------------------------
(* Type correctness. *)

LEMMA SentGrows ==
  ASSUME NmTypeOK, sent \in Nat, sent' = sent + 1
  PROVE  /\ 1..sent \subseteq 1..sent'
         /\ channel \in [Processor -> Seq(1..sent')]
         /\ routed \in Seq(1..sent')
<1>1. 1..sent \subseteq 1..sent'
  OBVIOUS
<1>2. Seq(1..sent) \subseteq Seq(1..sent')
  BY <1>1, SeqMonotonic
<1>3. QED
  BY <1>1, <1>2 DEF NmTypeOK

LEMMA SendToType ==
  ASSUME NmTypeOK, NEW lane \in {"front", "back"}, NEW topic \in Topic, NEW body \in Body,
         SendTo(lane, topic, body)
  PROVE  /\ NmTypeOK'
         /\ what' = Append(what, [topic |-> topic, lane |-> lane, body |-> body])
         /\ sent \in Nat /\ Len(what) = sent
<1>1. sent \in Nat /\ Len(what) = sent
  BY LenProperties DEF NmTypeOK
<1>2. sent' = sent + 1
  BY DEF SendTo, Queue!Send
<1>3. queue' \subseteq [lane : {"front", "back"}, stamp : 1..sent']
  BY <1>1, <1>2 DEF SendTo, Queue!Send, NmTypeOK
<1>4. /\ what' \in Seq([topic : Topic, lane : {"front", "back"}, body : Body])
      /\ Len(what') = sent'
  BY <1>1, <1>2, AppendProperties DEF SendTo, NmTypeOK
<1>5. /\ channel' \in [Processor -> Seq(1..sent')]
      /\ routed' \in Seq(1..sent')
      /\ current' \in 0..sent'
  BY <1>1, <1>2, SentGrows DEF SendTo, NmTypeOK, nmTask
<1>6. QED
  BY <1>1, <1>2, <1>3, <1>4, <1>5 DEF SendTo, NmTypeOK, nmTask

LEMMA BodyAppended ==
  ASSUME NmTypeOK, NEW topic, NEW lane, NEW body,
         what' = Append(what, [topic |-> topic, lane |-> lane, body |-> body])
  PROVE  /\ Len(what) \in Nat /\ DOMAIN what = 1..Len(what) /\ DOMAIN what' = 1..(Len(what) + 1)
         /\ \A n \in DOMAIN what : what'[n] = what[n]
         /\ what'[Len(what) + 1] = [topic |-> topic, lane |-> lane, body |-> body]
BY LenProperties DEF NmTypeOK

LEMMA StartType ==
  ASSUME NmTypeOK, managed <=> subscribed # <<>>,
         NEW given \in Seq(Subscription), Start(given)
  PROVE  NmTypeOK' /\ rest = {}
<1>1. rest = {}
  BY DEF Start, NmTypeOK
<1>2. QED
  BY <1>1 DEF Start, NmTypeOK

LEMMA RouteType ==
  ASSUME NmTypeOK, Route
  PROVE  NmTypeOK'
<1>1. PICK m \in queue : /\ queue' = queue \ {m}
                         /\ routed' = Append(routed, m.stamp)
                         /\ rest' = Subscribers(what[m.stamp].topic)
                         /\ current' = Fanned(m.stamp, rest')
  BY DEF Route
<1>2. m.stamp \in 1..sent
  BY DEF NmTypeOK
<1>3. routed' \in Seq(1..sent)
  BY <1>1, <1>2, AppendProperties DEF NmTypeOK
<1>4. rest' \subseteq DOMAIN subscribed
  BY <1>1 DEF Subscribers
<1>5. sent \in Nat
  BY LenProperties DEF NmTypeOK
<1>6. current' \in 0..sent /\ (current' = 0 <=> rest' = {})
  BY <1>1, <1>2, <1>5 DEF Fanned
<1>7. QED
  BY <1>1, <1>3, <1>4, <1>6 DEF Route, NmTypeOK

LEMMA FanOutType ==
  ASSUME NmTypeOK, FanOut
  PROVE  NmTypeOK' /\ \A p \in Processor : Len(channel[p]) <= Len(channel'[p])
<1>1. PICK i \in rest :
        /\ channel' = IF GetsIt(i)
                      THEN [channel EXCEPT ![subscribed[i].name] = Append(@, current)]
                      ELSE channel
        /\ rest' = Left(i)
        /\ current' = Fanned(current, rest')
  BY DEF FanOut
<1>2. sent \in Nat
  BY LenProperties DEF NmTypeOK
<1>3. current \in 1..sent
  BY <1>1, <1>2 DEF NmTypeOK
<1>4. \A p \in Processor :
        /\ Append(channel[p], current) \in Seq(1..sent)
        /\ Len(channel[p]) <= Len(Append(channel[p], current))
        /\ Len(channel[p]) \in Nat
  BY <1>3, AppendProperties, LenProperties DEF NmTypeOK
<1>5. channel' \in [Processor -> Seq(1..sent)]
  BY <1>1, <1>4 DEF NmTypeOK
<1>6. \A p \in Processor : Len(channel[p]) <= Len(channel'[p])
  BY <1>1, <1>4 DEF NmTypeOK
<1>7. rest' \subseteq DOMAIN subscribed
  BY <1>1 DEF Left, NmTypeOK
<1>8. current' \in 0..sent /\ (current' = 0 <=> rest' = {})
  BY <1>1, <1>2, <1>3 DEF Fanned
<1>9. QED
  BY <1>5, <1>6, <1>7, <1>8 DEF FanOut, NmTypeOK

LEMMA CloseType ==
  ASSUME NmTypeOK, NEW p \in Processor, Close(p)
  PROVE  NmTypeOK'
BY DEF Close, NmTypeOK, nmTask

-----------------------------------------------------------------------------
(* The invariant. *)

\* No processor is given twice.
Distinct(given) == \A i, j \in DOMAIN given : given[i].name = given[j].name => i = j

\* Nothing is taken before there is a task to take it.
IdleInv ==
  ~managed => subscribed = <<>> /\ routed = <<>> /\ \A p \in Processor : channel[p] = <<>>

\* What was sent is either in the queue, in its lane, or taken, and taken once.
Taken(n) == \E i \in DOMAIN routed : routed[i] = n
QueueInv ==
  /\ \A m \in queue : m.lane = what[m.stamp].lane
  /\ \A n \in 1..sent : (\E m \in queue : m.stamp = n) <=> ~Taken(n)
  /\ \A i, j \in DOMAIN routed : routed[i] = routed[j] => i = j

\* The older of two notifications is taken first, but for the lanes.
Overtakes(m, n) == what[m].lane = "front" /\ what[n].lane = "back"
OrderInv ==
  /\ \A i \in DOMAIN routed : \A m \in queue :
       routed[i] > m.stamp => Overtakes(routed[i], m.stamp)
  /\ \A i, j \in DOMAIN routed :
       i < j /\ routed[i] > routed[j] => Overtakes(routed[i], routed[j])

\* The one being fanned out is the last one taken, and the rest still has to get it.
CurrentInv ==
  current # 0 =>
    /\ routed # <<>> /\ current = routed[Len(routed)]
    /\ \A i \in rest : /\ what[current].topic \in subscribed[i].topics
                       /\ current \notin SentTo(subscribed[i].name)

\* What has been sent to one processor, and what has not.
OwnTopics(p) == SentTo(p) \subseteq Due(p)
InOrder(p) ==
  \A i, j \in DOMAIN channel[p] : i < j => RoutedBefore(channel[p][i], channel[p][j])
NoGap(p) == \A n \in SentTo(p), m \in Due(p) : RoutedBefore(m, n) => m \in SentTo(p)
UpToDate(p) ==
  p \notin closed =>
    \A n \in Due(p) : n \in SentTo(p) \/ (n = current /\ \E i \in rest : subscribed[i].name = p)
ChannelInv == \A p \in Processor : OwnTopics(p) /\ InOrder(p) /\ NoGap(p) /\ UpToDate(p)

NmInv ==
  /\ NmTypeOK
  /\ Distinct(subscribed)
  /\ IdleInv
  /\ QueueInv
  /\ OrderInv
  /\ CurrentInv
  /\ ChannelInv

\* Facts about the sequences, as the steps below need them.
LEMMA NmFacts ==
  ASSUME NmTypeOK
  PROVE  /\ sent \in Nat /\ Len(what) = sent /\ DOMAIN what = 1..sent
         /\ Len(routed) \in Nat /\ DOMAIN routed = 1..Len(routed)
         /\ \A i \in DOMAIN routed : routed[i] \in 1..sent
         /\ \A p \in Processor : /\ channel[p] \in Seq(1..sent)
                                /\ Len(channel[p]) \in Nat
                                /\ DOMAIN channel[p] = 1..Len(channel[p])
                                /\ \A i \in DOMAIN channel[p] : channel[p][i] \in 1..sent
         /\ \A m \in queue : m.stamp \in 1..sent /\ m.lane \in {"front", "back"}
         /\ \A i \in DOMAIN subscribed : subscribed[i].name \in Processor
<1>1. /\ sent \in Nat /\ Len(what) = sent /\ DOMAIN what = 1..sent
      /\ Len(routed) \in Nat /\ DOMAIN routed = 1..Len(routed)
  BY LenProperties DEF NmTypeOK
<1>2. \A i \in DOMAIN routed : routed[i] \in 1..sent
  BY <1>1, ElementOfSeq DEF NmTypeOK
<1>3. \A p \in Processor : channel[p] \in Seq(1..sent)
  BY DEF NmTypeOK
<1>4. \A p \in Processor : /\ Len(channel[p]) \in Nat
                          /\ DOMAIN channel[p] = 1..Len(channel[p])
                          /\ \A i \in DOMAIN channel[p] : channel[p][i] \in 1..sent
  BY <1>3, LenProperties, ElementOfSeq
<1>5. \A i \in DOMAIN subscribed : subscribed[i] \in Subscription
  BY LenProperties, ElementOfSeq DEF NmTypeOK
<1>6. QED
  BY <1>1, <1>2, <1>3, <1>4, <1>5 DEF NmTypeOK, Subscription

\* As long as the task takes nothing and nobody is sent anything, what is due stays.
LEMMA DueKept ==
  ASSUME NmTypeOK, routed' = routed, subscribed' = subscribed, channel' = channel,
         \A n \in 1..sent : what'[n] = what[n]
  PROVE  \A p \in Processor :
           /\ Due(p)' = Due(p) /\ SentTo(p)' = SentTo(p)
           /\ (OwnTopics(p) => OwnTopics(p)') /\ (InOrder(p) => InOrder(p)')
           /\ (NoGap(p) => NoGap(p)')
<1>1. \A m, n : RoutedBefore(m, n)' <=> RoutedBefore(m, n)
  BY DEF RoutedBefore
<1>2. \A i \in DOMAIN routed : what'[routed[i]] = what[routed[i]]
  BY NmFacts
<1>3. \A p : Due(p)' = Due(p)
  BY <1>2 DEF Due, SubscribedTo
<1>4. \A p : SentTo(p)' = SentTo(p)
  BY DEF SentTo
<1>5. QED
  BY <1>1, <1>3, <1>4 DEF OwnTopics, InOrder, NoGap

LEMMA NmInvInit ==
  ASSUME NmInit PROVE NmInv
<1>1. queue = {} /\ sent = 0 /\ what = <<>> /\ channel = [p \in Processor |-> <<>>]
  BY DEF NmInit, Queue!MbInit
<1>2. /\ what \in Seq([topic : Topic, lane : {"front", "back"}, body : Body])
      /\ Len(what) = sent
  BY <1>1, EmptySeq
<1>3. channel \in [Processor -> Seq(1..sent)]
  BY <1>1, EmptySeq
<1>4. /\ subscribed = <<>> /\ routed = <<>> /\ rest = {} /\ current = 0
      /\ managed = FALSE /\ closed = {}
  BY DEF NmInit
<1>5. subscribed \in Seq(Subscription) /\ routed \in Seq(1..sent)
  BY <1>4, EmptySeq
<1>6. managed \in BOOLEAN /\ closed \in SUBSET Processor /\ rest \subseteq DOMAIN subscribed
  BY <1>4
<1>7. /\ queue \subseteq [lane : {"front", "back"}, stamp : 1..sent]
      /\ current \in 0..sent /\ (current = 0 <=> rest = {})
  BY <1>1, <1>4
<1>8. NmTypeOK
  BY <1>2, <1>3, <1>5, <1>6, <1>7 DEF NmTypeOK
<1>9. Distinct(subscribed) /\ IdleInv /\ CurrentInv
  BY <1>1, <1>4 DEF Distinct, IdleInv, CurrentInv
<1>10. QueueInv /\ OrderInv
  BY <1>1, <1>4 DEF QueueInv, OrderInv, Taken
<1>11. ChannelInv
  BY <1>1, <1>4 DEF ChannelInv, OwnTopics, InOrder, NoGap, UpToDate, SentTo, Due
<1>12. QED
  BY <1>8, <1>9, <1>10, <1>11 DEF NmInv

LEMMA SendToInv ==
  ASSUME NmInv, NEW lane \in {"front", "back"}, NEW topic \in Topic, NEW body \in Body,
         SendTo(lane, topic, body)
  PROVE  NmInv'
<1> DEFINE message == [lane |-> lane, stamp |-> sent + 1]
<1>1. /\ NmTypeOK /\ NmTypeOK'
      /\ what' = Append(what, [topic |-> topic, lane |-> lane, body |-> body])
      /\ sent \in Nat /\ Len(what) = sent
  BY SendToType DEF NmInv
<1>2. sent' = sent + 1 /\ queue' = queue \cup {message} /\ UNCHANGED <<nmTask, closed>>
  BY DEF SendTo, Queue!Send
<1>3. (\A n \in 1..sent : what'[n] = what[n]) /\ what'[sent + 1].lane = lane
  BY <1>1, NmFacts, BodyAppended
<1>4. Distinct(subscribed)' /\ IdleInv'
  BY <1>2 DEF NmInv, Distinct, IdleInv, nmTask
<1>5. QueueInv'
  <2>1. \A n : Taken(n)' <=> Taken(n)
    BY <1>2 DEF Taken, nmTask
  <2>2. ~Taken(sent + 1)
    BY <1>1, NmFacts DEF Taken
  <2>3. \A m \in queue' : m.lane = what'[m.stamp].lane
    BY <1>1, <1>2, <1>3, NmFacts DEF NmInv, QueueInv
  <2>4. \A n \in 1..sent' : (\E m \in queue' : m.stamp = n) <=> ~Taken(n)
    <3>1. ASSUME NEW n \in 1..sent'
          PROVE  (\E m \in queue' : m.stamp = n) <=> ~Taken(n)
      <4>1. CASE n \in 1..sent
        BY <4>1, <1>1, <1>2 DEF NmInv, QueueInv
      <4>2. CASE n = sent + 1
        <5>1. message \in queue' /\ message.stamp = n
          BY <4>2, <1>2
        <5>2. QED
          BY <4>2, <5>1, <2>2
      <4>3. QED
        BY <4>1, <4>2, <1>1, <1>2
    <3>2. QED
      BY <3>1
  <2>5. \A i, j \in DOMAIN routed' : routed'[i] = routed'[j] => i = j
    BY <1>2 DEF NmInv, QueueInv, nmTask
  <2>6. QED
    BY <2>1, <2>3, <2>4, <2>5 DEF QueueInv
<1>6. OrderInv'
  <2>1. \A m, n \in 1..sent : Overtakes(m, n) => Overtakes(m, n)'
    BY <1>3 DEF Overtakes
  <2>2. ASSUME NEW i \in DOMAIN routed, NEW m \in queue', routed[i] > m.stamp
        PROVE  Overtakes(routed[i], m.stamp)'
    <3>1. m \in queue
      BY <1>1, <1>2, <2>2, NmFacts
    <3>2. QED
      BY <1>1, <2>1, <2>2, <3>1, <1>2, NmFacts DEF NmInv, OrderInv, nmTask
  <2>3. ASSUME NEW i \in DOMAIN routed, NEW j \in DOMAIN routed, i < j, routed[i] > routed[j]
        PROVE  Overtakes(routed[i], routed[j])'
    BY <1>1, <1>2, <2>1, <2>3, NmFacts DEF NmInv, OrderInv, nmTask
  <2>4. routed' = routed
    BY <1>2 DEF nmTask
  <2>5. QED
    BY <2>2, <2>3, <2>4 DEF OrderInv, Overtakes
<1>7. CurrentInv'
  BY <1>1, <1>2, <1>3, NmFacts DEF NmInv, CurrentInv, nmTask, SentTo, NmTypeOK
<1>8. ChannelInv'
  <2>1. routed' = routed /\ subscribed' = subscribed /\ channel' = channel
        /\ closed' = closed /\ current' = current /\ rest' = rest
    BY <1>2 DEF nmTask
  <2>2. QED
    BY <1>1, <1>3, <2>1, DueKept DEF NmInv, ChannelInv, UpToDate
<1>9. QED
  BY <1>1, <1>4, <1>5, <1>6, <1>7, <1>8 DEF NmInv

LEMMA StartInv ==
  ASSUME NmInv, managed <=> subscribed # <<>>,
         NEW given \in Seq(Subscription), Distinct(given), Start(given)
  PROVE  NmInv'
<1>1. NmTypeOK' /\ rest = {}
  BY StartType DEF NmInv
<1>2. /\ managed' = TRUE /\ subscribed' = given
      /\ UNCHANGED <<queue, sent, what, current, rest, channel, closed, routed>>
  BY DEF Start
<1>3. /\ routed = <<>> /\ \A p \in Processor : channel[p] = <<>>
      /\ current = 0
  BY <1>1 DEF Start, NmInv, NmTypeOK, IdleInv
<1>4. Distinct(subscribed)' /\ IdleInv'
  BY <1>2 DEF Distinct, IdleInv
<1>5. QueueInv' /\ OrderInv' /\ CurrentInv'
  BY <1>2, <1>3 DEF NmInv, QueueInv, OrderInv, CurrentInv, Taken, Overtakes
<1>6. ChannelInv'
  BY <1>2, <1>3 DEF ChannelInv, OwnTopics, InOrder, NoGap, UpToDate, SentTo, Due
<1>7. QED
  BY <1>1, <1>4, <1>5, <1>6 DEF NmInv

LEMMA CloseInv ==
  ASSUME NmInv, NEW p \in Processor, Close(p)
  PROVE  NmInv'
<1>1. NmTypeOK' /\ NmTypeOK
  BY CloseType DEF NmInv
<1>2. /\ closed' = closed \cup {p}
      /\ UNCHANGED <<queue, sent, what, managed, subscribed, current, rest, channel, routed>>
  BY DEF Close, nmTask
<1>3. Distinct(subscribed)' /\ IdleInv'
  BY <1>2 DEF NmInv, Distinct, IdleInv
<1>4. QueueInv' /\ OrderInv' /\ CurrentInv'
  BY <1>2 DEF NmInv, QueueInv, OrderInv, CurrentInv, Taken, Overtakes, SentTo
<1>5. ChannelInv'
  BY <1>1, <1>2, DueKept DEF NmInv, ChannelInv, UpToDate
<1>6. QED
  BY <1>1, <1>3, <1>4, <1>5 DEF NmInv

\* The task takes a notification: what is due grows by it, and by nothing else.
LEMMA RouteInv ==
  ASSUME NmInv, Route
  PROVE  NmInv'
<1>1. PICK m \in queue : /\ First(m)
                         /\ queue' = queue \ {m}
                         /\ routed' = Append(routed, m.stamp)
                         /\ rest' = Subscribers(what[m.stamp].topic)
                         /\ current' = Fanned(m.stamp, rest')
  BY DEF Route
<1>2. /\ managed /\ current = 0
      /\ UNCHANGED <<sent, what, managed, subscribed, channel, closed>>
  BY DEF Route
<1>3. NmTypeOK /\ NmTypeOK'
  BY RouteType DEF NmInv
<1> DEFINE n == m.stamp
           last == Len(routed) + 1
<1>4. /\ n \in 1..sent /\ sent \in Nat /\ m.lane = what[n].lane
      /\ Len(routed) \in Nat /\ DOMAIN routed = 1..Len(routed) /\ DOMAIN routed' = 1..last
      /\ Len(routed') = last /\ routed'[last] = n
      /\ \A i \in DOMAIN routed : routed'[i] = routed[i] /\ routed[i] \in 1..sent
  <2>1. /\ Len(routed) \in Nat /\ DOMAIN routed = 1..Len(routed) /\ routed \in Seq(1..sent)
        /\ sent \in Nat /\ \A i \in DOMAIN routed : routed[i] \in 1..sent
    BY <1>3, NmFacts DEF NmTypeOK
  <2>2. n \in 1..sent /\ m.lane = what[n].lane
    BY <1>1, <1>3, NmFacts DEF NmInv, QueueInv
  <2>3. /\ Len(routed') = last /\ DOMAIN routed' = 1..last /\ routed'[last] = n
        /\ \A i \in DOMAIN routed : routed'[i] = routed[i]
    BY <1>1, <2>1, <2>2, AppendProperties
  <2>4. QED
    BY <2>1, <2>2, <2>3
<1>5. ~Taken(n)
  BY <1>1, <1>4 DEF NmInv, QueueInv
<1>6. \A k : Taken(k)' <=> Taken(k) \/ k = n
  <2>1. \A k : Taken(k)' => Taken(k) \/ k = n
    BY <1>4 DEF Taken
  <2>2. \A k : Taken(k) => Taken(k)'
    BY <1>4 DEF Taken
  <2>3. Taken(n)'
    BY <1>4 DEF Taken
  <2>4. QED
    BY <2>1, <2>2, <2>3
<1>7. Distinct(subscribed)' /\ IdleInv'
  BY <1>2 DEF NmInv, Distinct, IdleInv
<1>8. QueueInv'
  <2>1. \A k \in queue : k.stamp = n => k = m
    <3>1. \A k \in queue : k = [lane |-> what[k.stamp].lane, stamp |-> k.stamp]
      BY <1>3 DEF NmInv, QueueInv, NmTypeOK
    <3>2. QED
      BY <1>1, <3>1
  <2>2. \A k \in queue' : k.lane = what'[k.stamp].lane
    BY <1>1, <1>2 DEF NmInv, QueueInv
  <2>3. ASSUME NEW k \in 1..sent
        PROVE  (\E q \in queue' : q.stamp = k) <=> ~Taken(k)'
    BY <1>1, <1>4, <1>5, <1>6, <2>1 DEF NmInv, QueueInv
  <2>4. ASSUME NEW i \in DOMAIN routed', NEW j \in DOMAIN routed', routed'[i] = routed'[j]
        PROVE  i = j
    BY <1>4, <1>5, <2>4 DEF NmInv, QueueInv, Taken
  <2>5. QED
    BY <1>2, <2>2, <2>3, <2>4 DEF QueueInv
<1>9. OrderInv'
  <2>1. \A k \in queue' : n > k.stamp => Overtakes(n, k.stamp)
    <3>1. ASSUME NEW k \in queue', n > k.stamp
          PROVE  Overtakes(n, k.stamp)
      <4>1. k \in queue /\ k # m /\ k.stamp \in 1..sent /\ k.lane = what[k.stamp].lane
        BY <1>1, <1>3, NmFacts DEF NmInv, QueueInv
      <4>2. Queue!Before(m, k)
        BY <1>1, <4>1 DEF First
      <4>3. m.lane = "front" /\ k.lane = "back"
        BY <1>4, <4>1, <4>2, <3>1 DEF Queue!Before
      <4>4. QED
        BY <1>4, <4>1, <4>3 DEF Overtakes
    <3>2. QED
      BY <3>1
  <2>2. \A j \in DOMAIN routed : routed[j] > n => Overtakes(routed[j], n)
    BY <1>1 DEF NmInv, OrderInv
  <2>3. ASSUME NEW i \in DOMAIN routed', NEW k \in queue', routed'[i] > k.stamp
        PROVE  Overtakes(routed'[i], k.stamp)
    BY <1>1, <1>4, <2>1, <2>3 DEF NmInv, OrderInv
  <2>4. ASSUME NEW i \in DOMAIN routed', NEW j \in DOMAIN routed', i < j, routed'[i] > routed'[j]
        PROVE  Overtakes(routed'[i], routed'[j])
    BY <1>4, <2>2, <2>4 DEF NmInv, OrderInv
  <2>5. QED
    BY <1>2, <2>3, <2>4 DEF OrderInv, Overtakes
<1>10. \A p \in Processor : SentTo(p)' = SentTo(p) /\ \A k \in SentTo(p) : Taken(k)
  BY <1>2 DEF NmInv, ChannelInv, OwnTopics, SentTo, Due, Taken
<1>11. CurrentInv'
  <2>1. ASSUME current' # 0
        PROVE  current' = n /\ rest' = Subscribers(what[n].topic)
    BY <1>1, <2>1 DEF Fanned
  <2>2. \A i \in Subscribers(what[n].topic) :
          /\ what[n].topic \in subscribed[i].topics
          /\ n \notin SentTo(subscribed[i].name)
    BY <1>3, <1>5, <1>10, NmFacts DEF Subscribers
  <2>3. routed' # <<>>
    BY <1>4
  <2>4. ASSUME current' # 0
        PROVE  /\ current' = routed'[Len(routed')]
               /\ \A i \in rest' : /\ what[current'].topic \in subscribed[i].topics
                                   /\ current' \notin SentTo(subscribed[i].name)
    BY <1>4, <2>1, <2>2, <2>4
  <2>5. QED
    BY <1>2, <2>3, <2>4 DEF CurrentInv, SentTo
<1>12. \A k, l : RoutedBefore(k, l)' <=> RoutedBefore(k, l) \/ (l = n /\ Taken(k))
  <2>1. \A k, l : RoutedBefore(k, l)' => RoutedBefore(k, l) \/ (l = n /\ Taken(k))
    BY <1>4 DEF RoutedBefore, Taken
  <2>2. \A k, l : RoutedBefore(k, l) => RoutedBefore(k, l)'
    BY <1>4 DEF RoutedBefore
  <2>3. \A k : Taken(k) => RoutedBefore(k, n)'
    BY <1>4 DEF RoutedBefore, Taken
  <2>4. QED
    BY <2>1, <2>2, <2>3
<1>13. \A p \in Processor : /\ Due(p) \subseteq Due(p)' /\ Due(p)' \subseteq Due(p) \cup {n}
                            /\ n \in Due(p)' => SubscribedTo(p, what[n].topic)
  BY <1>2, <1>4 DEF Due, SubscribedTo
<1>14. ChannelInv'
  <2> SUFFICES ASSUME NEW p \in Processor
               PROVE  OwnTopics(p)' /\ InOrder(p)' /\ NoGap(p)' /\ UpToDate(p)'
    BY DEF ChannelInv
  <2>1. OwnTopics(p) /\ InOrder(p) /\ NoGap(p) /\ UpToDate(p)
    BY DEF NmInv, ChannelInv
  <2>2. OwnTopics(p)'
    BY <2>1, <1>10, <1>13 DEF OwnTopics
  <2>3. InOrder(p)'
    BY <2>1, <1>2, <1>12 DEF InOrder
  <2>4. NoGap(p)'
    <3>1. \A k, l : RoutedBefore(k, l) => Taken(k)
      BY DEF RoutedBefore, Taken
    <3>2. QED
      BY <2>1, <3>1, <1>5, <1>10, <1>12, <1>13 DEF NoGap
  <2>5. UpToDate(p)'
    <3>1. ASSUME p \notin closed, NEW k \in Due(p)'
          PROVE  k \in SentTo(p) \/ (k = current' /\ \E i \in rest' : subscribed[i].name = p)
      <4>1. CASE k \in Due(p)
        BY <4>1, <3>1, <2>1, <1>2, <1>3, <1>4 DEF UpToDate, NmTypeOK
      <4>2. CASE k = n
        <5>1. PICK i \in DOMAIN subscribed :
                subscribed[i].name = p /\ what[n].topic \in subscribed[i].topics
          BY <4>2, <3>1, <1>13 DEF SubscribedTo
        <5>2. i \in rest' /\ current' = n
          BY <5>1, <1>1 DEF Subscribers, Fanned
        <5>3. QED
          BY <4>2, <5>1, <5>2
      <4>3. QED
        BY <4>1, <4>2, <3>1, <1>13
    <3>2. QED
      BY <3>1, <1>2, <1>10 DEF UpToDate
  <2>6. QED
    BY <2>2, <2>3, <2>4, <2>5
<1>15. QED
  BY <1>3, <1>7, <1>8, <1>9, <1>11, <1>14 DEF NmInv

\* The task sends to one more processor, which has had everything before.
LEMMA FanOutInv ==
  ASSUME NmInv, FanOut
  PROVE  NmInv'
<1>1. PICK i \in rest :
        /\ channel' = IF GetsIt(i)
                      THEN [channel EXCEPT ![subscribed[i].name] = Append(@, current)]
                      ELSE channel
        /\ rest' = Left(i)
        /\ current' = Fanned(current, rest')
  BY DEF FanOut
<1>2. UNCHANGED <<queue, sent, what, managed, subscribed, closed, routed>>
  BY DEF FanOut
<1>3. NmTypeOK /\ NmTypeOK'
  BY FanOutType DEF NmInv
<1> DEFINE to == subscribed[i].name
           n == current
<1>4. /\ i \in DOMAIN subscribed /\ to \in Processor
      /\ n # 0 /\ n \in 1..sent /\ sent \in Nat
  <2>1. current # 0 /\ i \in DOMAIN subscribed
    BY <1>3 DEF NmTypeOK
  <2>2. to \in Processor /\ sent \in Nat
    BY <1>3, <2>1, NmFacts
  <2>3. QED
    BY <1>3, <2>1, <2>2 DEF NmTypeOK
<1>5. /\ Len(routed) \in DOMAIN routed /\ n = routed[Len(routed)]
      /\ what[n].topic \in subscribed[i].topics /\ n \notin SentTo(to)
      /\ DOMAIN routed = 1..Len(routed) /\ Len(routed) \in Nat
  <2>1. /\ routed # <<>> /\ n = routed[Len(routed)]
        /\ what[n].topic \in subscribed[i].topics /\ n \notin SentTo(to)
    BY <1>4 DEF NmInv, CurrentInv
  <2>2. QED
    BY <2>1, <1>3, NmFacts, EmptySeq DEF NmTypeOK
<1>6. \A p \in Processor : Due(p)' = Due(p)
  BY <1>2 DEF Due, SubscribedTo
<1>7. n \in Due(to)
  BY <1>4, <1>5 DEF Due, SubscribedTo
<1>8. \A k \in Due(to) : k = n \/ RoutedBefore(k, n)
  BY <1>5 DEF Due, RoutedBefore
<1>9. \A k : ~RoutedBefore(n, k)
  BY <1>5 DEF RoutedBefore, NmInv, QueueInv
<1>10. \A p \in Processor : p # to \/ to \in closed => channel'[p] = channel[p]
  BY <1>1, <1>3, <1>4 DEF GetsIt, NmTypeOK
<1>11. to \notin closed => channel'[to] = Append(channel[to], n)
  BY <1>1, <1>3, <1>4 DEF GetsIt, NmTypeOK
<1>12. ASSUME to \notin closed
       PROVE  /\ Len(channel[to]) \in Nat /\ DOMAIN channel[to] = 1..Len(channel[to])
              /\ DOMAIN channel'[to] = 1..(Len(channel[to]) + 1)
              /\ \A j \in DOMAIN channel[to] : channel'[to][j] = channel[to][j]
              /\ channel'[to][Len(channel[to]) + 1] = n
  <2>1. channel[to] \in Seq(1..sent) /\ Len(channel[to]) \in Nat
        /\ DOMAIN channel[to] = 1..Len(channel[to])
    BY <1>3, <1>4, NmFacts
  <2>2. QED
    BY <2>1, <1>4, <1>11, <1>12, AppendProperties
<1>13. \A p \in Processor : SentTo(p)' = IF p = to /\ to \notin closed THEN SentTo(p) \cup {n}
                                          ELSE SentTo(p)
  <2>1. ASSUME NEW p \in Processor, p # to \/ to \in closed
        PROVE  SentTo(p)' = SentTo(p)
    BY <2>1, <1>10 DEF SentTo
  <2>2. ASSUME NEW p \in Processor, p = to, to \notin closed
        PROVE  SentTo(p)' = SentTo(p) \cup {n}
    <3>1. \A k \in SentTo(p) \cup {n} : \E j \in DOMAIN channel'[p] : channel'[p][j] = k
      BY <2>2, <1>12 DEF SentTo
    <3>2. \A j \in DOMAIN channel'[p] : channel'[p][j] \in SentTo(p) \cup {n}
      BY <2>2, <1>12 DEF SentTo
    <3>3. QED
      BY <3>1, <3>2 DEF SentTo
  <2>3. QED
    BY <2>1, <2>2
<1>14. IdleInv' /\ Distinct(subscribed)'
  BY <1>2, <1>4, <1>3 DEF NmInv, IdleInv, Distinct, NmTypeOK
<1>15. QueueInv' /\ OrderInv'
  BY <1>2 DEF NmInv, QueueInv, OrderInv, Taken, Overtakes
<1>16. rest' = rest \ {i} /\ (rest' # {} => current' = n) /\ (current' # 0 => current' = n)
  BY <1>1 DEF Left, Fanned
<1>17. CurrentInv'
  <2>1. ASSUME current' # 0, NEW j \in rest'
        PROVE  /\ what[n].topic \in subscribed[j].topics
               /\ subscribed[j].name \in Processor /\ subscribed[j].name # to
               /\ n \notin SentTo(subscribed[j].name)
    <3>1. j \in rest /\ j # i /\ j \in DOMAIN subscribed
      BY <1>3, <1>16 DEF NmTypeOK
    <3>2. QED
      BY <3>1, <1>3, <1>4, NmFacts DEF NmInv, CurrentInv, Distinct
  <2>2. ASSUME current' # 0, NEW j \in rest'
        PROVE  n \notin SentTo(subscribed[j].name)'
    BY <2>1, <2>2, <1>2, <1>10 DEF SentTo
  <2>3. routed # <<>>
    BY <1>4 DEF NmInv, CurrentInv
  <2>4. QED
    BY <2>1, <2>2, <2>3, <1>2, <1>5, <1>16 DEF CurrentInv
<1>18. ChannelInv'
  <2> SUFFICES ASSUME NEW p \in Processor
               PROVE  OwnTopics(p)' /\ InOrder(p)' /\ NoGap(p)' /\ UpToDate(p)'
    BY DEF ChannelInv
  <2>1. OwnTopics(p) /\ InOrder(p) /\ NoGap(p) /\ UpToDate(p)
    BY DEF NmInv, ChannelInv
  <2>2. \A k, l : RoutedBefore(k, l)' <=> RoutedBefore(k, l)
    BY <1>2 DEF RoutedBefore
  <2>3. OwnTopics(p)'
    BY <2>1, <1>6, <1>7, <1>13 DEF OwnTopics
  <2>4. InOrder(p)'
    <3>1. CASE p # to \/ to \in closed
      BY <3>1, <2>1, <2>2, <1>10 DEF InOrder
    <3>2. CASE p = to /\ to \notin closed
      <4>1. \A j \in DOMAIN channel[to] : RoutedBefore(channel[to][j], n)
        BY <3>2, <2>1, <1>5, <1>8 DEF OwnTopics, SentTo
      <4>2. QED
        BY <3>2, <4>1, <2>1, <2>2, <1>12 DEF InOrder
    <3>3. QED
      BY <3>1, <3>2
  <2>5. NoGap(p)'
    <3>1. CASE p # to \/ to \in closed
      BY <3>1, <2>1, <2>2, <1>6, <1>13 DEF NoGap
    <3>2. CASE p = to /\ to \notin closed
      <4>1. \A k \in Due(p) : k = n \/ k \in SentTo(p)
        BY <3>2, <2>1 DEF UpToDate
      <4>2. QED
        BY <3>2, <4>1, <1>6, <1>13 DEF NoGap
    <3>3. QED
      BY <3>1, <3>2
  <2>6. UpToDate(p)'
    <3>1. ASSUME p \notin closed, NEW k \in Due(p)
          PROVE  k \in SentTo(p)' \/ (k = current' /\ \E j \in rest' : subscribed[j].name = p)
      <4>1. CASE k \in SentTo(p)
        BY <4>1, <1>13
      <4>2. CASE k = n /\ p = to
        BY <4>2, <3>1, <1>13
      <4>3. CASE k \notin SentTo(p) /\ p # to
        <5>1. k = n /\ \E j \in rest : subscribed[j].name = p
          BY <4>3, <3>1, <2>1 DEF UpToDate
        <5>2. QED
          BY <4>3, <5>1, <1>16
      <4>4. CASE k \notin SentTo(p) /\ k # n
        BY <4>4, <3>1, <2>1 DEF UpToDate
      <4>5. QED
        BY <4>1, <4>2, <4>3, <4>4
    <3>2. QED
      BY <3>1, <1>2, <1>6 DEF UpToDate
  <2>7. QED
    BY <2>3, <2>4, <2>5, <2>6
<1>19. QED
  BY <1>3, <1>14, <1>15, <1>17, <1>18 DEF NmInv

-----------------------------------------------------------------------------
(* What the invariant says of the processors. *)

LEMMA InvFanOutExact == NmInv => FanOutExact
<1> SUFFICES ASSUME NmInv, NEW p \in Processor
             PROVE  /\ SentTo(p) \subseteq Due(p)
                    /\ \A i, j \in DOMAIN channel[p] :
                         i < j => RoutedBefore(channel[p][i], channel[p][j])
                    /\ \A n \in SentTo(p), m \in Due(p) : RoutedBefore(m, n) => m \in SentTo(p)
                    /\ p \notin closed => Due(p) \ {current} \subseteq SentTo(p)
  BY DEF FanOutExact
<1>1. OwnTopics(p) /\ InOrder(p) /\ NoGap(p) /\ UpToDate(p)
  BY DEF NmInv, ChannelInv
<1>2. QED
  BY <1>1 DEF OwnTopics, InOrder, NoGap, UpToDate

LEMMA InvOvertaken == NmInv => OvertakenByPriorityOnly
<1> SUFFICES ASSUME NmInv, NEW p \in Processor,
                    NEW i \in DOMAIN channel[p], NEW j \in DOMAIN channel[p],
                    i < j, channel[p][i] > channel[p][j]
             PROVE  Overtakes(channel[p][i], channel[p][j])
  BY DEF OvertakenByPriorityOnly, Overtakes
<1>1. RoutedBefore(channel[p][i], channel[p][j])
  BY DEF NmInv, ChannelInv, InOrder
<1>2. QED
  BY <1>1 DEF RoutedBefore, NmInv, OrderInv

=============================================================================
