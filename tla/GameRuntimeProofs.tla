----------------------------- MODULE GameRuntimeProofs -----------------------------
(***************************************************************************)
(* What holds of the game for any number of menus, plays and hits: its     *)
(* types, that no machine panics, that there is one packet per play, that  *)
(* an end is reported and its verdict stands, and that no timer outlives a *)
(* play.  One inductive invariant carries all of it.                       *)
(***************************************************************************)
EXTENDS GameRuntime, FiniteSetTheorems, SequenceTheorems, TLAPS

-----------------------------------------------------------------------------
\* The inductive invariant.

\* Plays are numbered as they start; users asked at least for those that started and those
\* that their signals in the queue can start.  A menu and its tree know each other.
UserSignals == {i \in DOMAIN Queue : Queue[i].input \in {"play", "other"}}
PlaysInv ==
  /\ Started = 1..Cardinality(Started)
  /\ Cardinality(Started) + Cardinality(UserSignals) <= asked
  /\ \A m \in Menu : tree[m] # 0 => menuOf[tree[m]] = m
  /\ \A n \in Started : tree[menuOf[n]] # 0
  /\ \A n \in Play, k \in Kind : child[n][k] = "none" <=> n \notin Started

\* Whatever is on its way is for a play that has started and for somebody who can take it.
HitsKept(id, hits) == hits <= IF id.kind = "ping" THEN Rally + 1 ELSE Rally
MenuSignalOK(s) == s.input \in {"complete", "failed"} => tree[s.to] # 0
ChildSignalOK(s) ==
  /\ s.to.play \in Started
  /\ s.input = "start" => s.to.kind = "ping"
  /\ s.input = "packet" /\ s.to.kind = "pong" => s.hits <= Rally + 1
  /\ s.input = "returned" => HitsKept(s.to, s.hits)
SignalOK(s) == IF s.to \in Menu THEN MenuSignalOK(s) ELSE ChildSignalOK(s)
RequestOK(r) ==
  /\ r.id \in Menu => r.op = "cancel"
  /\ r.id \notin Menu => r.id.play \in Started
  /\ r.op = "retain" => HitsKept(r.id, r.hits)
ItemsInv ==
  /\ \A i \in DOMAIN Queue : SignalOK(Queue[i])
  /\ \A i \in DOMAIN requests : RequestOK(requests[i])
  /\ \A id \in armed : id.play \in Started
  /\ \A x \in held : x.id.play \in Started /\ HitsKept(x.id, x.hits)
  /\ IsFiniteSet(held)

\* The last packet of a rally is on its way to Ping exactly when Pong is done.
Final(s) == s.input = "packet" /\ s.to.kind = "ping" /\ s.hits > Rally
PongDone(n) == child[n]["pong"] = "done"
PingEnded(n) == child[n]["ping"] \in Terminal
RallyOf(n) ==
  /\ \A i \in Queued(n) : PingEnded(n) \/ (Final(Queue[i]) <=> PongDone(n))
  /\ Retaining(n) \cup Retained(n) # {} => PingEnded(n) \/ ~PongDone(n)
RallyInv == \A n \in Started : RallyOf(n)

\* A packet is in one place.
Single(n) ==
  /\ \A i, j \in Queued(n) : i = j
  /\ \A i, j \in Retaining(n) : i = j
  /\ \A x, y \in Retained(n) : x = y
  /\ Queued(n) = {} \/ Retaining(n) = {}
  /\ Queued(n) = {} \/ Retained(n) = {}
  /\ Retaining(n) = {} \/ Retained(n) = {}
Somewhere(n) == Queued(n) # {} \/ Retaining(n) # {} \/ Retained(n) # {}
PacketOf(n) == Single(n) /\ (~Over(n) => Somewhere(n))
PacketInv == \A n \in Started : PacketOf(n)

\* Reported(n) is what EndIsReported says of a play.
Reported(n) ==
  Over(n) =>
    \/ menu[menuOf[n]] \in Terminal
    \/ \E i \in DOMAIN Queue :
         Queue[i].to = menuOf[n] /\ Queue[i].input \in {"complete", "failed"}
ReportInv == \A n \in Started : Reported(n)

\* Where a menu is done, or is told so, there is a play of it in which both are done.
DoneIn(m) == \E n \in Started : menuOf[n] = m /\ \A k \in Kind : child[n][k] = "done"
VerdictInv ==
  /\ \A i \in DOMAIN Queue : Queue[i].to \in Menu /\ Queue[i].input = "complete" =>
       DoneIn(Queue[i].to) \/ menu[Queue[i].to] = "failed"
  /\ \A m \in Menu :
       /\ menu[m] = "failed" => \A k \in Kind : child[tree[m]][k] = "failed"
       /\ menu[m] = "done" => DoneIn(m)

\* No timer is armed, or going to be, that is not cancelled by a later request.
Cancelled(id, i) ==
  \E j \in DOMAIN requests : j > i /\ requests[j].op = "cancel" /\ requests[j].id = id
Disarmed(id) ==
  /\ id \in armed => Cancelled(id, 0)
  /\ \A i \in DOMAIN requests : requests[i].op = "set" /\ requests[i].id = id => Cancelled(id, i)
DisarmedInv ==
  /\ \A id \in Id : StateOf(id) = "done" => Disarmed(id)
  /\ \A m \in Menu : menu[m] = "failed" => \A k \in Kind : Disarmed([play |-> tree[m], kind |-> k])

Inv ==
  /\ TypeOK
  /\ PlaysInv
  /\ ItemsInv
  /\ RallyInv
  /\ PacketInv
  /\ ReportInv
  /\ VerdictInv
  /\ DisarmedInv

-----------------------------------------------------------------------------
\* The queue: both lanes, one after the other.

LEMMA IdFacts ==
  /\ \A id \in Id : /\ id \notin Menu /\ id.play \in Play /\ id.kind \in Kind
                    /\ Peer(id) \in Id /\ Peer(id).play = id.play
                    /\ Peer(id).kind = IF id.kind = "ping" THEN "pong" ELSE "ping"
  /\ \A n \in Play, k \in Kind : [play |-> n, kind |-> k] \in Id
  /\ Play \subseteq Nat /\ 0 \notin Play
  BY GameAssumption, MenusApart DEF Id, Peer, Kind, Play

LEMMA SignalFacts ==
  /\ \A s \in FrontSignal : s \in ChildSignal /\ s.to \notin Menu /\ s.input \in {"returned", "timeout"}
  /\ \A s \in BackSignal : s.to \in Menu => s \in MenuSignal
  /\ \A s \in BackSignal : s.to \notin Menu => s \in ChildSignal /\ s.input \in {"start", "packet"}
  /\ \A s \in MenuSignal : s.to \in Menu /\ s.input \in {"play", "complete", "failed", "other"}
                           /\ s.who \in Kind \cup {None}
  /\ \A s \in ChildSignal : s.to \in Id /\ s.to \notin Menu /\ s.hits \in 0..(Rally + 2)
                            /\ s.input \in {"start", "packet", "returned", "timeout"}
  BY IdFacts DEF FrontSignal, BackSignal, MenuSignal, ChildSignal

LEMMA QueueFacts ==
  ASSUME TypeOK
  PROVE  /\ Queue \in Seq(FrontSignal \cup BackSignal)
         /\ Len(Queue) = Len(front) + Len(back)
         /\ DOMAIN Queue = 1..Len(Queue)
         /\ \A i \in 1..Len(front) : Queue[i] = front[i]
         /\ \A i \in 1..Len(back) : Queue[Len(front) + i] = back[i]
         /\ Waiting => Len(Queue) > 0 /\ Signal = Queue[1]
<1>1. front \in Seq(FrontSignal \cup BackSignal) /\ back \in Seq(FrontSignal \cup BackSignal)
  BY DEF TypeOK
<1>2. /\ Queue \in Seq(FrontSignal \cup BackSignal)
      /\ Len(Queue) = Len(front) + Len(back)
      /\ DOMAIN Queue = 1..Len(Queue)
  BY <1>1 DEF Queue
<1>3. \A i \in 1..Len(front) : Queue[i] = front[i]
  BY <1>1 DEF Queue
<1>4. \A i \in 1..Len(back) : Queue[Len(front) + i] = back[i]
  BY <1>1 DEF Queue
<1>5. ASSUME Waiting PROVE Len(Queue) > 0 /\ Signal = Queue[1]
  <2>1. CASE front # <<>>
    BY <1>1, <1>2, <1>3, <2>1 DEF Signal
  <2>2. CASE front = <<>>
    <3>1. back # <<>> /\ Len(front) = 0
      BY <1>5, <2>2 DEF Waiting
    <3>2. Len(back) > 0 /\ Head(back) = back[1]
      BY <1>1, <3>1
    <3>3. Queue[Len(front) + 1] = back[1]
      BY <1>1, <1>4, <3>2
    <3>4. QED
      BY <1>1, <1>2, <2>2, <3>1, <3>2, <3>3 DEF Signal
  <2>3. QED
    BY <2>1, <2>2
<1>6. QED
  BY <1>2, <1>3, <1>4, <1>5

\* What a step of the dispatching task takes and what it emits.
Took(s, pushed, notified) ==
  /\ Waiting /\ s = Signal
  /\ pushed \in Seq(BackSignal) /\ notified \in Seq(Request)
  /\ Process(pushed, notified)

\* The lanes are typed after it, the signal was the first, the others move up.
LEMMA TookQueue ==
  ASSUME TypeOK, NEW s, NEW pushed, NEW notified, Took(s, pushed, notified)
  PROVE  /\ front' \in Seq(FrontSignal) /\ back' \in Seq(BackSignal)
         /\ Len(Queue) > 0 /\ s = Queue[1] /\ s \in FrontSignal \cup BackSignal
         /\ Queue' \in Seq(FrontSignal \cup BackSignal) /\ DOMAIN Queue' = 1..Len(Queue')
         /\ Len(Queue') = Len(Queue) - 1 + Len(pushed)
         /\ \A i \in 1..(Len(Queue) - 1) : Queue'[i] = Queue[i + 1]
         /\ \A i \in 1..Len(pushed) : Queue'[Len(Queue) - 1 + i] = pushed[i]
<1> DEFINE All == FrontSignal \cup BackSignal
<1>1. front \in Seq(FrontSignal) /\ back \in Seq(BackSignal) /\ pushed \in Seq(BackSignal)
  BY DEF TypeOK, Took
<1>2. front \in Seq(All) /\ back \in Seq(All) /\ pushed \in Seq(All)
  BY <1>1
<1>3. front' \in Seq(FrontSignal) /\ back' \in Seq(BackSignal)
  <2>1. CASE front # <<>>
    BY <1>1, <2>1 DEF Took, Process
  <2>2. CASE front = <<>>
    <3>1. back # <<>>
      BY <2>2 DEF Took, Waiting
    <3>2. Tail(back) \in Seq(BackSignal)
      BY <1>1, <3>1
    <3>3. QED
      BY <1>1, <2>2, <3>2 DEF Took, Process
  <2>3. QED
    BY <2>1, <2>2
<1>4. /\ Len(Queue) > 0 /\ s = Queue[1] /\ s \in All
  BY QueueFacts DEF Took
<1>5. Queue' = Tail(Queue) \o pushed
  <2>1. CASE front # <<>>
    <3>1. Queue' = Tail(front) \o (back \o pushed)
      BY <2>1 DEF Took, Process, Queue
    <3>2. Tail(front) \in Seq(All) /\ Tail(front \o back) = Tail(front) \o back
      BY <1>2, <2>1
    <3>3. Tail(front) \o (back \o pushed) = (Tail(front) \o back) \o pushed
      BY <1>2, <3>2
    <3>4. QED
      BY <3>1, <3>2, <3>3 DEF Queue
  <2>2. CASE front = <<>>
    <3>1. back # <<>>
      BY <2>2 DEF Took, Waiting
    <3>2. Queue = back
      BY <1>2, <2>2 DEF Queue
    <3>3. front' = <<>> /\ back' = Tail(back) \o pushed
      BY <2>2 DEF Took, Process
    <3>4. Tail(back) \o pushed \in Seq(All)
      BY <1>2, <3>1
    <3>5. QED
      BY <3>2, <3>3, <3>4 DEF Queue
  <2>3. QED
    BY <2>1, <2>2
<1>6. Queue \in Seq(All)
  BY QueueFacts
<1>7. /\ Tail(Queue) \in Seq(All) /\ Len(Tail(Queue)) = Len(Queue) - 1
      /\ \A i \in 1..(Len(Queue) - 1) : Tail(Queue)[i] = Queue[i + 1]
  BY <1>4, <1>6
<1>8. QED
  BY <1>2, <1>3, <1>4, <1>5, <1>7

LEMMA TookRequests ==
  ASSUME TypeOK, NEW s, NEW pushed, NEW notified, Took(s, pushed, notified)
  PROVE  /\ requests' \in Seq(Request) /\ DOMAIN requests' = 1..Len(requests')
         /\ Len(requests') = Len(requests) + Len(notified)
         /\ \A i \in 1..Len(requests) : requests'[i] = requests[i]
         /\ \A i \in 1..Len(notified) : requests'[Len(requests) + i] = notified[i]
         /\ armed' = armed /\ held' = held /\ asked' = asked
<1>1. requests \in Seq(Request) /\ notified \in Seq(Request) /\ requests' = requests \o notified
  BY DEF TypeOK, Took, Process
<1>2. QED
  BY <1>1 DEF Took, Process

\* A step that pushes no signal of a user leaves no more of them, and one less if it took one.
LEMMA TookUsers ==
  ASSUME TypeOK, NEW s, NEW pushed, NEW notified, Took(s, pushed, notified),
         \A i \in 1..Len(pushed) : pushed[i].input \notin {"play", "other"}
  PROVE  /\ Cardinality(UserSignals) \in Nat /\ Cardinality(UserSignals') \in Nat
         /\ Cardinality(UserSignals') <= Cardinality(UserSignals)
         /\ s.input \in {"play", "other"} => Cardinality(UserSignals') < Cardinality(UserSignals)
<1> DEFINE f == [i \in UserSignals' |-> i + 1]
<1>1. DOMAIN Queue = 1..Len(Queue) /\ Len(Queue) \in Nat
  BY QueueFacts
<1>2. IsFiniteSet(UserSignals)
  <2>1. UserSignals \in SUBSET (1..Len(Queue))
    BY <1>1 DEF UserSignals
  <2>2. IsFiniteSet(1..Len(Queue))
    BY <1>1, FS_Interval
  <2>3. QED
    BY <2>1, <2>2, FS_Subset
<1>3. IsFiniteSet(UserSignals \ {1})
      /\ Cardinality(UserSignals \ {1}) =
           IF 1 \in UserSignals THEN Cardinality(UserSignals) - 1 ELSE Cardinality(UserSignals)
  BY <1>2, FS_RemoveElement
<1>4. \A i \in UserSignals' : i \in Nat /\ i > 0 /\ i + 1 \in UserSignals
  <2> SUFFICES ASSUME NEW i \in UserSignals' PROVE i \in Nat /\ i > 0 /\ i + 1 \in UserSignals
    OBVIOUS
  <2> DEFINE j == i - (Len(Queue) - 1)
  <2>1. i \in 1..Len(Queue') /\ Queue'[i].input \in {"play", "other"}
    BY TookQueue DEF UserSignals
  <2>2. Len(pushed) \in Nat /\ Len(Queue') = Len(Queue) - 1 + Len(pushed)
    BY TookQueue DEF Took
  <2>3. CASE i <= Len(Queue) - 1
    <3>1. i \in 1..(Len(Queue) - 1)
      BY <1>1, <2>1, <2>2, <2>3
    <3>2. Queue'[i] = Queue[i + 1] /\ i \in Nat /\ i > 0 /\ i + 1 \in DOMAIN Queue
      BY <1>1, <3>1, TookQueue
    <3>3. QED
      BY <2>1, <3>2 DEF UserSignals
  <2>4. CASE i > Len(Queue) - 1
    <3>1. j \in 1..Len(pushed) /\ i = Len(Queue) - 1 + j
      BY <1>1, <2>1, <2>2, <2>4
    <3>2. Queue'[i] = pushed[j]
      BY <3>1, TookQueue
    <3>3. QED
      BY <2>1, <3>1, <3>2
  <2>5. QED
    BY <1>1, <2>1, <2>3, <2>4
<1>5. f \in [UserSignals' -> UserSignals \ {1}]
  BY <1>4
<1>6. f \in Injection(UserSignals', UserSignals \ {1})
  BY <1>4, <1>5 DEF Injection, IsInjective
<1>7. IsFiniteSet(UserSignals') /\ Cardinality(UserSignals') <= Cardinality(UserSignals \ {1})
  BY <1>3, <1>6, FS_Injection
<1>8. Cardinality(UserSignals) \in Nat /\ Cardinality(UserSignals') \in Nat
  BY <1>2, <1>7, FS_CardinalityType
<1>9. s.input \in {"play", "other"} => 1 \in UserSignals
  BY <1>1, TookQueue DEF UserSignals
<1>10. QED
  BY <1>3, <1>7, <1>8, <1>9

LEMMA TookItems ==
  ASSUME TypeOK, ItemsInv, NEW s, NEW pushed, NEW notified, Took(s, pushed, notified),
         Started \subseteq Started', \A m \in Menu : tree[m] # 0 => tree'[m] # 0,
         \A i \in 1..Len(pushed) : SignalOK(pushed[i])',
         \A i \in 1..Len(notified) : RequestOK(notified[i])'
  PROVE  ItemsInv'
<1>1. ASSUME NEW x, SignalOK(x) PROVE SignalOK(x)'
  BY <1>1 DEF SignalOK, MenuSignalOK, ChildSignalOK, HitsKept
<1>2. ASSUME NEW x, RequestOK(x) PROVE RequestOK(x)'
  BY <1>2 DEF RequestOK, HitsKept
<1>3. ASSUME NEW i \in DOMAIN Queue', NEW x, x = Queue'[i] PROVE SignalOK(x)'
  <2>1. CASE i <= Len(Queue) - 1
    <3>1. x = Queue[i + 1] /\ i + 1 \in DOMAIN Queue
      <4>1. /\ DOMAIN Queue = 1..Len(Queue) /\ Len(Queue) \in Nat
            /\ i \in Nat /\ i >= 1 /\ Queue'[i] = Queue[i + 1]
        BY <1>3, <2>1, TookQueue, QueueFacts
      <4>2. QED
        BY <1>3, <2>1, <4>1
    <3>2. SignalOK(x)
      BY <3>1 DEF ItemsInv
    <3>3. QED
      BY <1>1, <3>2
  <2>2. CASE i > Len(Queue) - 1
    <3> DEFINE j == i - (Len(Queue) - 1)
    <3>1. j \in 1..Len(pushed) /\ i = Len(Queue) - 1 + j
      BY <1>3, <2>2, TookQueue, QueueFacts DEF Took
    <3>2. x = pushed[j]
      BY <1>3, <3>1, TookQueue
    <3>3. QED
      BY <3>1, <3>2
  <2>3. QED
    BY <1>3, <2>1, <2>2, TookQueue, QueueFacts
<1>4. ASSUME NEW i \in DOMAIN requests', NEW x, x = requests'[i] PROVE RequestOK(x)'
  <2> DEFINE j == i - Len(requests)
  <2>1. CASE i <= Len(requests)
    <3>1. x = requests[i] /\ i \in DOMAIN requests
      BY <1>4, <2>1, TookRequests DEF TypeOK
    <3>2. RequestOK(x)
      BY <3>1 DEF ItemsInv
    <3>3. QED
      BY <1>2, <3>2
  <2>2. CASE i > Len(requests)
    <3>1. j \in 1..Len(notified) /\ i = Len(requests) + j
      BY <1>4, <2>2, TookRequests DEF Took, TypeOK
    <3>2. x = notified[j]
      BY <1>4, <3>1, TookRequests
    <3>3. QED
      BY <3>1, <3>2
  <2>3. QED
    BY <1>4, <2>1, <2>2, TookRequests DEF TypeOK
<1>5. /\ \A id \in armed' : id.play \in Started'
      /\ \A x \in held' : x.id.play \in Started' /\ HitsKept(x.id, x.hits)
      /\ IsFiniteSet(held')
  BY TookRequests DEF ItemsInv
<1>6. QED
  BY <1>3, <1>4, <1>5 DEF ItemsInv, SignalOK, MenuSignalOK, ChildSignalOK, RequestOK, HitsKept

-----------------------------------------------------------------------------
\* What a step of the dispatching task does to each part of the invariant.

LEMMA PlaysKept ==
  ASSUME TypeOK, PlaysInv, NEW s, NEW pushed, NEW notified, Took(s, pushed, notified),
         \A i \in 1..Len(pushed) : pushed[i].input \notin {"play", "other"},
         tree' = tree, menuOf' = menuOf,
         \A n \in Play, k \in Kind : child'[n][k] = "none" <=> child[n][k] = "none"
  PROVE  PlaysInv'
<1>1. Started' = Started
  BY DEF Started
<1>2. Cardinality(UserSignals) \in Nat /\ Cardinality(UserSignals') \in Nat
      /\ Cardinality(UserSignals') <= Cardinality(UserSignals)
  BY TookUsers
<1>3. Started \in SUBSET Play /\ IsFiniteSet(Play)
  BY FS_Interval, GameAssumption DEF Started, Play
<1>4. Cardinality(Started) \in Nat
  BY <1>3, FS_Subset, FS_CardinalityType
<1>5. Cardinality(Started) + Cardinality(UserSignals') <= asked
  BY <1>2, <1>4, GameAssumption DEF PlaysInv, TypeOK
<1>6. QED
  BY <1>1, <1>5, TookRequests DEF PlaysInv

\* A signal that carries the packet of play n.
Carries(s, n) == s.to \notin Menu /\ s.to.play = n /\ s.input # "timeout"
Retains(r, n) == r.op = "retain" /\ r.id.play = n

LEMMA TookPlaces ==
  ASSUME TypeOK, NEW s, NEW pushed, NEW notified, Took(s, pushed, notified), NEW n
  PROVE  /\ \A i \in Queued(n)' :
              \/ i \in Nat /\ i + 1 \in Queued(n) /\ Queue'[i] = Queue[i + 1]
              \/ \E j \in 1..Len(pushed) :
                   i = Len(Queue) - 1 + j /\ Queue'[i] = pushed[j] /\ Carries(pushed[j], n)
         /\ \A i \in Queued(n) : i # 1 => i - 1 \in Queued(n)' /\ i \in Nat
         /\ \A j \in 1..Len(pushed) : Carries(pushed[j], n) => Len(Queue) - 1 + j \in Queued(n)'
         /\ 1 \in Queued(n) <=> Carries(s, n)
         /\ \A i \in Retaining(n)' :
              \/ i \in Retaining(n)
              \/ \E j \in 1..Len(notified) : i = Len(requests) + j /\ Retains(notified[j], n)
         /\ Retaining(n) \subseteq Retaining(n)'
         /\ \A j \in 1..Len(notified) : Retains(notified[j], n) => Len(requests) + j \in Retaining(n)'
         /\ Retained(n)' = Retained(n)
<1>1. DOMAIN Queue = 1..Len(Queue) /\ Len(Queue) \in Nat /\ Len(pushed) \in Nat
      /\ DOMAIN requests = 1..Len(requests) /\ Len(requests) \in Nat /\ Len(notified) \in Nat
  BY QueueFacts DEF Took, TypeOK
<1>2. ASSUME NEW i \in Queued(n)'
      PROVE  \/ i \in Nat /\ i + 1 \in Queued(n) /\ Queue'[i] = Queue[i + 1]
             \/ \E j \in 1..Len(pushed) :
                  i = Len(Queue) - 1 + j /\ Queue'[i] = pushed[j] /\ Carries(pushed[j], n)
  <2> DEFINE j == i - (Len(Queue) - 1)
  <2>1. i \in 1..Len(Queue') /\ Carries(Queue'[i], n)
    BY TookQueue DEF Queued, Carries
  <2>2. CASE i <= Len(Queue) - 1
    <3>1. i \in Nat /\ i + 1 \in DOMAIN Queue /\ Queue'[i] = Queue[i + 1]
      BY <1>1, <2>1, <2>2, TookQueue
    <3>2. QED
      BY <2>1, <3>1 DEF Queued, Carries
  <2>3. CASE i > Len(Queue) - 1
    <3>1. j \in 1..Len(pushed) /\ i = Len(Queue) - 1 + j
      BY <1>1, <2>1, <2>3, TookQueue
    <3>2. Queue'[i] = pushed[j]
      BY <3>1, TookQueue
    <3>3. QED
      BY <2>1, <3>1, <3>2
  <2>4. QED
    BY <1>1, <2>1, <2>2, <2>3
<1>3. ASSUME NEW i \in Queued(n), i # 1 PROVE i - 1 \in Queued(n)' /\ i \in Nat
  <2>1. i \in 2..Len(Queue) /\ Carries(Queue[i], n)
    BY <1>1, <1>3 DEF Queued, Carries
  <2>2. i - 1 \in 1..(Len(Queue) - 1) /\ i - 1 \in 1..Len(Queue')
    BY <1>1, <2>1, TookQueue
  <2>3. Queue'[i - 1] = Queue[i]
    BY <1>1, <2>1, <2>2, TookQueue
  <2>4. QED
    BY <2>1, <2>2, <2>3, TookQueue DEF Queued, Carries
<1>4. ASSUME NEW j \in 1..Len(pushed), Carries(pushed[j], n)
      PROVE  Len(Queue) - 1 + j \in Queued(n)'
  <2>1. Len(Queue) - 1 + j \in 1..Len(Queue') /\ Queue'[Len(Queue) - 1 + j] = pushed[j]
    BY <1>1, TookQueue
  <2>2. QED
    BY <1>4, <2>1, TookQueue DEF Queued, Carries
<1>5. 1 \in Queued(n) <=> Carries(s, n)
  BY <1>1, TookQueue DEF Queued, Carries
<1>6. ASSUME NEW i \in Retaining(n)'
      PROVE  \/ i \in Retaining(n)
             \/ \E j \in 1..Len(notified) : i = Len(requests) + j /\ Retains(notified[j], n)
  <2> DEFINE j == i - Len(requests)
  <2>1. i \in 1..Len(requests') /\ Retains(requests'[i], n)
    BY TookRequests DEF Retaining, Retains
  <2>2. CASE i <= Len(requests)
    BY <1>1, <2>1, <2>2, TookRequests DEF Retaining, Retains
  <2>3. CASE i > Len(requests)
    <3>1. j \in 1..Len(notified) /\ i = Len(requests) + j
      BY <1>1, <2>1, <2>3, TookRequests
    <3>2. requests'[i] = notified[j]
      BY <3>1, TookRequests
    <3>3. QED
      BY <2>1, <3>1, <3>2
  <2>4. QED
    BY <1>1, <2>1, <2>2, <2>3
<1>7. Retaining(n) \subseteq Retaining(n)'
  <2> SUFFICES ASSUME NEW i \in Retaining(n) PROVE i \in Retaining(n)'
    OBVIOUS
  <2>1. i \in 1..Len(requests) /\ Retains(requests[i], n)
    BY <1>1 DEF Retaining, Retains
  <2>2. i \in 1..Len(requests') /\ requests'[i] = requests[i]
    BY <1>1, <2>1, TookRequests
  <2>3. QED
    BY <2>1, <2>2, TookRequests DEF Retaining, Retains
<1>8. ASSUME NEW j \in 1..Len(notified), Retains(notified[j], n)
      PROVE  Len(requests) + j \in Retaining(n)'
  <2>1. Len(requests) + j \in 1..Len(requests') /\ requests'[Len(requests) + j] = notified[j]
    BY <1>1, TookRequests
  <2>2. QED
    BY <1>8, <2>1, TookRequests DEF Retaining, Retains
<1>9. Retained(n)' = Retained(n)
  BY TookRequests DEF Retained
<1>10. QED
  BY <1>2, <1>3, <1>4, <1>5, <1>6, <1>7, <1>8, <1>9

\* A play whose packet the step neither takes nor emits.
Untouched(s, pushed, notified, n) ==
  /\ ~Carries(s, n)
  /\ \A j \in 1..Len(pushed) : ~Carries(pushed[j], n)
  /\ \A j \in 1..Len(notified) : ~Retains(notified[j], n)

LEMMA PacketKept ==
  ASSUME TypeOK, NEW s, NEW pushed, NEW notified, Took(s, pushed, notified), NEW n,
         Untouched(s, pushed, notified, n), PacketOf(n), Over(n) => Over(n)'
  PROVE  PacketOf(n)'
<1>1. \A i \in Queued(n)' : i \in Nat /\ i + 1 \in Queued(n)
  BY TookPlaces DEF Untouched
<1>2. \A i \in Queued(n) : i \in Nat /\ i - 1 \in Queued(n)'
  BY TookPlaces DEF Untouched
<1>3. Retaining(n)' = Retaining(n) /\ Retained(n)' = Retained(n)
  BY TookPlaces, Zenon DEF Untouched
<1>4. \A i, j \in Queued(n)' : i = j
  BY <1>1 DEF PacketOf, Single
<1>5. Queued(n)' = {} <=> Queued(n) = {}
  BY <1>1, <1>2
<1>6. Single(n)'
  BY <1>3, <1>4, <1>5 DEF PacketOf, Single
<1>7. Somewhere(n)' <=> Somewhere(n)
  BY <1>3, <1>5 DEF Somewhere
<1>8. QED
  BY <1>6, <1>7 DEF PacketOf

LEMMA RallyKept ==
  ASSUME TypeOK, NEW s, NEW pushed, NEW notified, Took(s, pushed, notified), NEW n,
         Untouched(s, pushed, notified, n), RallyOf(n),
         PingEnded(n)' \/ (~PingEnded(n) /\ (PongDone(n)' <=> PongDone(n)))
  PROVE  RallyOf(n)'
<1>1. \A i \in Queued(n)' : i + 1 \in Queued(n) /\ Queue'[i] = Queue[i + 1]
  BY TookPlaces DEF Untouched
<1>2. Retaining(n)' = Retaining(n) /\ Retained(n)' = Retained(n)
  BY TookPlaces, Zenon DEF Untouched
<1>3. CASE PingEnded(n)'
  BY <1>3 DEF RallyOf
<1>4. CASE ~PingEnded(n) /\ (PongDone(n)' <=> PongDone(n))
  <2>1. \A i \in Queued(n)' : Final(Queue'[i]) <=> PongDone(n)'
    BY <1>1, <1>4 DEF RallyOf
  <2>2. Retaining(n)' \cup Retained(n)' # {} => ~PongDone(n)'
    BY <1>2, <1>4 DEF RallyOf
  <2>3. QED
    BY <2>1, <2>2 DEF RallyOf, Final
<1>5. QED
  BY <1>3, <1>4

\* A step that takes the packet of a play leaves it only where the step put it.
LEMMA PacketTaken ==
  ASSUME TypeOK, NEW s, NEW pushed, NEW notified, Took(s, pushed, notified), NEW n,
         Carries(s, n), Single(n)
  PROVE  /\ \A i \in Queued(n)' : \E j \in 1..Len(pushed) :
              i = Len(Queue) - 1 + j /\ Queue'[i] = pushed[j] /\ Carries(pushed[j], n)
         /\ \A i \in Retaining(n)' : \E j \in 1..Len(notified) :
              i = Len(requests) + j /\ Retains(notified[j], n)
         /\ Retained(n)' = {}
<1>1. 1 \in Queued(n)
  BY TookPlaces
<1>2. Queued(n) = {1} /\ Retaining(n) = {} /\ Retained(n) = {}
  BY <1>1 DEF Single
<1>3. \A i \in Nat : i + 1 \in Queued(n) => i = 0
  BY <1>2
<1>4. \A i \in Queued(n)' : i # 0
  BY TookQueue DEF Queued
<1>5. QED
  BY <1>2, <1>3, <1>4, TookPlaces

Reports(s, m) == s.to = m /\ s.input \in {"complete", "failed"}

LEMMA ReportKept ==
  ASSUME TypeOK, NEW s, NEW pushed, NEW notified, Took(s, pushed, notified), NEW n, Reported(n),
         Over(n)' => Over(n), menuOf'[n] = menuOf[n],
         menu[menuOf[n]] \in Terminal => menu'[menuOf[n]] \in Terminal,
         Reports(s, menuOf[n]) => menu'[menuOf[n]] \in Terminal
  PROVE  Reported(n)'
<1>1. SUFFICES ASSUME Over(n)', menu'[menuOf'[n]] \notin Terminal
               PROVE  \E i \in DOMAIN Queue' : Reports(Queue'[i], menuOf'[n])
  BY DEF Reported, Reports
<1>2. PICK i \in DOMAIN Queue : Reports(Queue[i], menuOf[n])
  BY <1>1 DEF Reported, Reports
<1>3. i \in 1..Len(Queue) /\ i # 1 /\ Len(pushed) \in Nat
  BY <1>1, <1>2, QueueFacts, TookQueue DEF Took
<1>4. i - 1 \in 1..(Len(Queue) - 1) /\ i - 1 \in DOMAIN Queue'
  BY <1>3, QueueFacts, TookQueue
<1>5. Queue'[i - 1] = Queue[i]
  BY <1>3, <1>4, TookQueue, QueueFacts
<1>6. QED
  BY <1>2, <1>4, <1>5

LEMMA ReportMade ==
  ASSUME TypeOK, NEW s, NEW pushed, NEW notified, Took(s, pushed, notified), NEW n,
         menuOf'[n] = menuOf[n], NEW j \in 1..Len(pushed), Reports(pushed[j], menuOf[n])
  PROVE  Reported(n)'
<1>1. Len(pushed) \in Nat /\ Len(Queue) \in Nat
  BY QueueFacts DEF Took
<1>2. Len(Queue) - 1 + j \in DOMAIN Queue' /\ Queue'[Len(Queue) - 1 + j] = pushed[j]
  BY <1>1, TookQueue
<1>3. QED
  BY <1>2 DEF Reported, Reports

LEMMA VerdictTook ==
  ASSUME TypeOK, VerdictInv, NEW s, NEW pushed, NEW notified, Took(s, pushed, notified),
         \A m \in Menu : DoneIn(m) => DoneIn(m)' \/ menu'[m] = "failed",
         \A m \in Menu : menu[m] = "failed" => menu'[m] = "failed",
         \A j \in 1..Len(pushed) : pushed[j].to \in Menu /\ pushed[j].input = "complete" =>
           DoneIn(pushed[j].to)',
         \A m \in Menu : menu'[m] = "failed" => \A k \in Kind : child'[tree'[m]][k] = "failed",
         \A m \in Menu : menu'[m] = "done" => DoneIn(m)'
  PROVE  VerdictInv'
<1>1. ASSUME NEW i \in DOMAIN Queue', NEW x, x = Queue'[i], x.to \in Menu, x.input = "complete"
      PROVE  DoneIn(x.to)' \/ menu'[x.to] = "failed"
  <2>1. Len(pushed) \in Nat /\ Len(Queue) \in Nat /\ DOMAIN Queue = 1..Len(Queue)
    BY QueueFacts DEF Took
  <2>2. CASE i <= Len(Queue) - 1
    <3>1. x = Queue[i + 1] /\ i + 1 \in DOMAIN Queue
      BY <1>1, <2>1, <2>2, TookQueue
    <3>2. DoneIn(x.to) \/ menu[x.to] = "failed"
      BY <1>1, <3>1 DEF VerdictInv
    <3>3. QED
      BY <1>1, <3>2
  <2>3. CASE i > Len(Queue) - 1
    <3> DEFINE j == i - (Len(Queue) - 1)
    <3>1. j \in 1..Len(pushed) /\ i = Len(Queue) - 1 + j
      BY <1>1, <2>1, <2>3, TookQueue
    <3>2. x = pushed[j]
      BY <1>1, <3>1, TookQueue
    <3>3. QED
      BY <1>1, <3>1, <3>2
  <2>4. QED
    BY <1>1, <2>1, <2>2, <2>3, TookQueue
<1>2. \A i \in DOMAIN Queue' : Queue'[i].to \in Menu /\ Queue'[i].input = "complete" =>
        DoneIn(Queue[i].to)' \/ menu'[Queue'[i].to] = "failed"
  BY <1>1 DEF DoneIn
<1>3. QED
  BY <1>2 DEF VerdictInv

Sets(r, id) == r.op = "set" /\ r.id = id

LEMMA DisarmedKept ==
  ASSUME TypeOK, NEW s, NEW pushed, NEW notified, Took(s, pushed, notified), NEW id, Disarmed(id),
         \A j \in 1..Len(notified) : ~Sets(notified[j], id)
  PROVE  Disarmed(id)'
<1>1. Len(notified) \in Nat /\ Len(requests) \in Nat /\ DOMAIN requests = 1..Len(requests)
  BY DEF Took, TypeOK
<1>2. ASSUME NEW i \in Nat, Cancelled(id, i) PROVE Cancelled(id, i)'
  BY <1>1, <1>2, TookRequests DEF Cancelled
<1>3. id \in armed' => Cancelled(id, 0)'
  BY <1>2, TookRequests DEF Disarmed
<1>4. ASSUME NEW i \in DOMAIN requests', Sets(requests'[i], id) PROVE Cancelled(id, i)'
  <2> DEFINE j == i - Len(requests)
  <2>1. ~ (i > Len(requests))
    <3>1. SUFFICES ASSUME i > Len(requests) PROVE FALSE
      OBVIOUS
    <3>2. j \in 1..Len(notified) /\ i = Len(requests) + j
      BY <1>1, <1>4, <3>1, TookRequests
    <3>3. requests'[i] = notified[j]
      BY <3>2, TookRequests
    <3>4. QED
      BY <1>4, <3>2, <3>3
  <2>2. i \in 1..Len(requests) /\ requests'[i] = requests[i]
    BY <1>1, <1>4, <2>1, TookRequests
  <2>3. Cancelled(id, i)
    BY <1>1, <1>4, <2>2 DEF Disarmed, Sets
  <2>4. QED
    BY <1>2, <2>2, <2>3
<1>5. QED
  BY <1>3, <1>4 DEF Disarmed, Sets

LEMMA DisarmedNow ==
  ASSUME TypeOK, NEW s, NEW pushed, NEW notified, Took(s, pushed, notified), NEW id,
         NEW c \in 1..Len(notified), notified[c].op = "cancel", notified[c].id = id,
         \A j \in 1..Len(notified) : ~Sets(notified[j], id)
  PROVE  Disarmed(id)'
<1>1. Len(notified) \in Nat /\ Len(requests) \in Nat /\ DOMAIN requests = 1..Len(requests)
  BY DEF Took, TypeOK
<1>2. \A i \in 0..Len(requests) : Cancelled(id, i)'
  <2>1. Len(requests) + c \in 1..Len(requests') /\ requests'[Len(requests) + c] = notified[c]
    BY <1>1, TookRequests
  <2>2. QED
    BY <1>1, <2>1, TookRequests DEF Cancelled
<1>3. ASSUME NEW i \in DOMAIN requests', Sets(requests'[i], id) PROVE Cancelled(id, i)'
  <2> DEFINE j == i - Len(requests)
  <2>1. ~ (i > Len(requests))
    <3>1. SUFFICES ASSUME i > Len(requests) PROVE FALSE
      OBVIOUS
    <3>2. j \in 1..Len(notified) /\ i = Len(requests) + j
      BY <1>1, <1>3, <3>1, TookRequests
    <3>3. requests'[i] = notified[j]
      BY <3>2, TookRequests
    <3>4. QED
      BY <1>3, <3>2, <3>3
  <2>2. QED
    BY <1>1, <1>2, <1>3, <2>1, TookRequests
<1>4. QED
  BY <1>1, <1>2, <1>3 DEF Disarmed, Sets

-----------------------------------------------------------------------------
\* The steps of Ping and Pong.

\* What such a step may do: its child gets state st and the step emits what it should.
ChildDoes(s, st, pushed, notified) ==
  /\ Took(s, pushed, notified) /\ s.to \in Id
  /\ menu' = menu /\ tree' = tree /\ menuOf' = menuOf /\ holder' = holder
  /\ st \in {"ready", "sending", "responding", "done", "failed"}
  /\ child' = [child EXCEPT ![s.to.play][s.to.kind] = st]
  /\ st = StateOf(s.to) \/ StateOf(s.to) \notin Terminal
  /\ \A j \in 1..Len(pushed) :
       /\ SignalOK(pushed[j])
       /\ pushed[j].to \in Menu => pushed[j].input \in {"complete", "failed"}
       /\ pushed[j].to \notin Menu => pushed[j].to.play = s.to.play
       /\ pushed[j].input \notin {"play", "other"}
  /\ \A j \in 1..Len(notified) :
       /\ RequestOK(notified[j]) /\ notified[j].id \in Id /\ notified[j].id.play = s.to.play
       /\ notified[j].op = "set" => notified[j].id = s.to /\ StateOf(s.to) \notin Terminal
                                    /\ st # "done"
  \* An end is reported, and a completion is said only by Ping after Pong.
  /\ st # StateOf(s.to) /\ (st = "failed" \/ (st = "done" /\ s.to.kind = "ping")) =>
       \E j \in 1..Len(pushed) : Reports(pushed[j], menuOf[s.to.play])
  /\ \A j \in 1..Len(pushed) : pushed[j].to \in Menu /\ pushed[j].input = "complete" =>
       /\ pushed[j].to = menuOf[s.to.play]
       /\ \A k \in Kind : child'[s.to.play][k] = "done"
  \* Who is done has cancelled its timeout.
  /\ st = "done" /\ st # StateOf(s.to) =>
       \E c \in 1..Len(notified) : notified[c].op = "cancel" /\ notified[c].id = s.to

LEMMA ChildTypes ==
  ASSUME TypeOK, NEW s, NEW st, NEW pushed, NEW notified, ChildDoes(s, st, pushed, notified)
  PROVE  TypeOK'
<1>1. Took(s, pushed, notified)
  BY DEF ChildDoes
<1>2. front' \in Seq(FrontSignal) /\ back' \in Seq(BackSignal)
  BY <1>1, TookQueue
<1>3. requests' \in Seq(Request) /\ armed' = armed /\ held' = held /\ asked' = asked
  BY <1>1, TookRequests
<1>4. child' \in [Play -> [Kind -> {"none", "ready", "sending", "responding"} \cup Terminal]]
  BY IdFacts DEF ChildDoes, TypeOK, Terminal
<1>5. QED
  BY <1>2, <1>3, <1>4 DEF TypeOK, ChildDoes

LEMMA ChildStep ==
  ASSUME Inv, NEW s, NEW st, NEW pushed, NEW notified, ChildDoes(s, st, pushed, notified),
         PacketOf(s.to.play)', RallyOf(s.to.play)'
  PROVE  Inv'
<1> DEFINE id == s.to
           p  == id.play
<1>1. TypeOK /\ Took(s, pushed, notified) /\ id \in Id /\ id \notin Menu
      /\ p \in Play /\ id.kind \in Kind /\ Play \subseteq Nat
  BY IdFacts DEF Inv, ChildDoes
<1>2. TypeOK'
  BY <1>1, ChildTypes
<1>3. p \in Started /\ menuOf[p] \in Menu /\ Started' = Started /\ Started \subseteq Play
  <2>1. SignalOK(s)
    <3>1. Len(Queue) > 0 /\ s = Queue[1]
      BY <1>1, TookQueue
    <3>2. DOMAIN Queue = 1..Len(Queue) /\ Len(Queue) \in Nat
      BY <1>1, QueueFacts
    <3>3. 1 \in DOMAIN Queue
      BY <3>1, <3>2
    <3>4. QED
      BY <3>1, <3>3 DEF Inv, ItemsInv
  <2>2. p \in Started
    BY <1>1, <2>1 DEF SignalOK, ChildSignalOK
  <2>3. QED
    <3>1. menuOf[p] \in Menu
      BY <1>1, <2>2, Zenon DEF Started, TypeOK
    <3>2. menuOf' = menuOf
      BY DEF ChildDoes
    <3>3. Started' = Started
      BY <3>2, Zenon DEF Started
    <3>4. Started \subseteq Play
      BY Zenon DEF Started
    <3>5. QED
      BY <2>2, <3>1, <3>3, <3>4
<1>4. /\ child[p][id.kind] # "none" /\ child'[p][id.kind] = st
      /\ \A k \in Kind : k # id.kind => child'[p][k] = child[p][k]
      /\ \A n \in Play : n # p => child'[n] = child[n]
  <2>1. child' = [child EXCEPT ![p][id.kind] = st]
    BY DEF ChildDoes
  <2>2. child \in [Play -> [Kind -> {"none", "ready", "sending", "responding"} \cup Terminal]]
    BY <1>1 DEF TypeOK
  <2>3. child[p][id.kind] # "none"
    BY <1>1, <1>3, Zenon DEF Inv, PlaysInv
  <2>4. QED
    BY <1>1, <2>1, <2>2, <2>3
<1>5. \A n \in Play, k \in Kind :
        /\ child'[n][k] # child[n][k] => n = p /\ k = id.kind
        /\ child[n][k] \in Terminal => child'[n][k] = child[n][k]
        /\ child'[n][k] = "none" <=> child[n][k] = "none"
  BY <1>1, <1>4 DEF ChildDoes, StateOf
<1>6. PlaysInv'
  BY <1>1, <1>5, PlaysKept DEF Inv, ChildDoes
<1>7. ItemsInv'
  <2>1. \A x : SignalOK(x) => SignalOK(x)'
    BY <1>3 DEF SignalOK, MenuSignalOK, ChildSignalOK, HitsKept, ChildDoes
  <2>2. \A x : RequestOK(x) => RequestOK(x)'
    BY <1>3 DEF RequestOK, HitsKept
  <2>3. /\ \A j \in 1..Len(pushed) : SignalOK(pushed[j])'
        /\ \A j \in 1..Len(notified) : RequestOK(notified[j])'
    BY <2>1, <2>2 DEF ChildDoes
  <2>4. QED
    BY <1>1, <1>3, <2>3, TookItems DEF Inv, ChildDoes
<1>8. \A n \in Started : n # p => Untouched(s, pushed, notified, n)
  BY <1>1 DEF ChildDoes, Untouched, Carries, Retains
<1>9. RallyInv'
  <2>1. ASSUME NEW n \in Started, n # p PROVE RallyOf(n)'
    <3>1. child'[n] = child[n]
      BY <1>3, <1>4, <2>1
    <3>2. RallyOf(n) /\ Untouched(s, pushed, notified, n)
      BY <1>8, <2>1 DEF Inv, RallyInv
    <3>3. QED
      BY <1>1, <3>1, <3>2, RallyKept DEF PingEnded, PongDone
  <2>2. QED
    BY <1>3, <2>1 DEF RallyInv
<1>10. PacketInv'
  <2>1. ASSUME NEW n \in Started, n # p PROVE PacketOf(n)'
    <3>1. child'[n] = child[n]
      BY <1>3, <1>4, <2>1
    <3>2. PacketOf(n) /\ Untouched(s, pushed, notified, n)
      BY <1>8, <2>1 DEF Inv, PacketInv
    <3>3. QED
      BY <1>1, <3>1, <3>2, PacketKept DEF Over
  <2>2. QED
    BY <1>3, <2>1 DEF PacketInv
<1>11. ReportInv'
  <2>1. ASSUME NEW n \in Started, Over(n)' => Over(n) PROVE Reported(n)'
    <3>1. Reported(n) /\ ~Reports(s, menuOf[n])
      BY <1>1, <2>1 DEF Inv, ReportInv, Reports, Started, TypeOK
    <3>2. QED
      BY <1>1, <2>1, <3>1, ReportKept DEF ChildDoes
  <2>2. ASSUME NEW n \in Started, Over(n)', ~Over(n) PROVE Reported(n)'
    <3>1. n = p /\ st # StateOf(id) /\ (st = "failed" \/ (st = "done" /\ id.kind = "ping"))
      BY <1>1, <1>3, <1>4, <1>5, <2>2 DEF Over, Terminal, Kind, StateOf, ChildDoes
    <3>2. PICK j \in 1..Len(pushed) : Reports(pushed[j], menuOf[n])
      BY <3>1 DEF ChildDoes
    <3>3. QED
      BY <1>1, <3>2, ReportMade DEF ChildDoes
  <2>3. QED
    BY <1>3, <2>1, <2>2 DEF ReportInv
<1>12. VerdictInv'
  <2>1. \A m \in Menu : DoneIn(m) => DoneIn(m)'
    BY <1>3, <1>5 DEF DoneIn, ChildDoes, Terminal
  <2>2. \A m \in Menu : menu[m] = "failed" => \A k \in Kind : child'[tree[m]][k] = "failed"
    <3> SUFFICES ASSUME NEW m \in Menu, menu[m] = "failed", NEW k \in Kind
                 PROVE  child'[tree[m]][k] = "failed"
      OBVIOUS
    <3>1. tree[m] \in Play /\ child[tree[m]][k] = "failed"
      BY <1>1 DEF Inv, VerdictInv, TypeOK
    <3>2. QED
      BY <1>5, <3>1 DEF Terminal
  <2>3. \A j \in 1..Len(pushed) : pushed[j].to \in Menu /\ pushed[j].input = "complete" =>
          DoneIn(pushed[j].to)'
    BY <1>3 DEF ChildDoes, DoneIn
  <2>4. QED
    BY <1>1, <2>1, <2>2, <2>3, VerdictTook DEF Inv, VerdictInv, ChildDoes
<1>13. DisarmedInv'
  <2>1. \A m \in Menu : menu[m] = "failed" => tree[m] \in Play
    BY DEF Inv, TypeOK
  <2>2. ASSUME NEW x \in Id, Disarmed(x), x # id \/ StateOf(x) \in Terminal PROVE Disarmed(x)'
    <3>1. \A j \in 1..Len(notified) : ~Sets(notified[j], x)
      BY <2>2 DEF ChildDoes, Sets
    <3>2. QED
      BY <1>1, <2>2, <3>1, DisarmedKept
  <2>3. ASSUME NEW x \in Id, StateOf(x)' = "done" PROVE Disarmed(x)'
    <3>1. CASE StateOf(x) = "done"
      BY <2>2, <3>1 DEF Inv, DisarmedInv, Terminal
    <3>2. CASE StateOf(x) # "done"
      <4>1. x.play \in Play /\ x.kind \in Kind /\ child'[x.play][x.kind] # child[x.play][x.kind]
        BY <2>3, <3>2, IdFacts DEF StateOf
      <4>2. x.play = p /\ x.kind = id.kind
        BY <1>5, <4>1
      <4>3. x = id /\ st = "done" /\ st # StateOf(id)
        BY <1>1, <1>4, <2>3, <3>2, <4>2 DEF Id, StateOf
      <4>4. PICK c \in 1..Len(notified) : notified[c].op = "cancel" /\ notified[c].id = id
        BY <4>3 DEF ChildDoes
      <4>5. \A j \in 1..Len(notified) : ~Sets(notified[j], id)
        BY <4>3 DEF ChildDoes, Sets
      <4>6. QED
        BY <1>1, <4>3, <4>4, <4>5, DisarmedNow
    <3>3. QED
      BY <3>1, <3>2
  <2>4. ASSUME NEW m \in Menu, menu[m] = "failed", NEW k \in Kind
        PROVE  Disarmed([play |-> tree[m], kind |-> k])'
    <3> DEFINE x == [play |-> tree[m], kind |-> k]
    <3>1. PICK y : y = x
      OBVIOUS
    <3>2. y \in Id /\ Disarmed(y) /\ StateOf(y) = "failed"
      BY <2>1, <2>4, <3>1, IdFacts DEF Inv, DisarmedInv, VerdictInv, StateOf
    <3>3. Disarmed(y)'
      BY <2>2, <3>2 DEF Terminal
    <3>4. y = [play |-> tree'[m], kind |-> k]
      BY <3>1 DEF ChildDoes
    <3>5. QED
      BY <3>3, <3>4 DEF Disarmed, Cancelled, ChildDoes
  <2>5. QED
    BY <2>3, <2>4 DEF DisarmedInv, ChildDoes, Disarmed, Cancelled
<1>14. QED
  BY <1>2, <1>6, <1>7, <1>9, <1>10, <1>11, <1>12, <1>13 DEF Inv

\* What is known of a signal to a child when it is taken.
LEMMA ChildTaken ==
  ASSUME Inv, Waiting, NEW s, s = Signal, s.to \notin Menu
  PROVE  /\ s \in ChildSignal /\ ChildSignalOK(s) /\ s.to \in Id /\ s.hits \in 0..(Rally + 2)
         /\ s.to.play \in Started /\ s.to.play \in Play /\ s.to.kind \in Kind
         /\ menuOf[s.to.play] \in Menu /\ tree[menuOf[s.to.play]] # 0
         /\ StateOf(s.to) \in {"ready", "sending", "responding", "done", "failed"}
         /\ child = [child EXCEPT ![s.to.play][s.to.kind] = StateOf(s.to)]
         /\ PacketOf(s.to.play) /\ RallyOf(s.to.play)
         /\ s.input # "timeout" => Carries(s, s.to.play)
         /\ Carries(s, s.to.play) => PingEnded(s.to.play) \/ (Final(s) <=> PongDone(s.to.play))
<1>1. TypeOK /\ Len(Queue) > 0 /\ s = Queue[1] /\ 1 \in DOMAIN Queue /\ s \in FrontSignal \cup BackSignal
  BY QueueFacts DEF Inv
<1>2. s \in ChildSignal /\ s.to \in Id /\ s.hits \in 0..(Rally + 2)
  BY <1>1, SignalFacts
<1>3. ChildSignalOK(s) /\ s.to.play \in Started /\ s.to.play \in Play /\ s.to.kind \in Kind
  BY <1>1, <1>2, IdFacts DEF Inv, ItemsInv, SignalOK, ChildSignalOK
<1>4. menuOf[s.to.play] \in Menu /\ tree[menuOf[s.to.play]] # 0
  BY <1>1, <1>3 DEF Inv, PlaysInv, Started, TypeOK
<1>5. child \in [Play -> [Kind -> {"none", "ready", "sending", "responding"} \cup Terminal]]
  BY <1>1 DEF TypeOK
<1>6. StateOf(s.to) \in {"ready", "sending", "responding", "done", "failed"}
  BY <1>3, <1>5 DEF Inv, PlaysInv, StateOf, Terminal
<1>7. child = [child EXCEPT ![s.to.play][s.to.kind] = StateOf(s.to)]
  BY <1>3, <1>5 DEF StateOf
<1>8. PacketOf(s.to.play) /\ RallyOf(s.to.play)
  BY <1>3 DEF Inv, PacketInv, RallyInv
<1>9. s.input # "timeout" => Carries(s, s.to.play)
  BY DEF Carries
<1>10. Carries(s, s.to.play) => PingEnded(s.to.play) \/ (Final(s) <=> PongDone(s.to.play))
  BY <1>1, <1>8 DEF Carries, Queued, RallyOf
<1>11. QED
  BY <1>2, <1>3, <1>4, <1>6, <1>7, <1>8, <1>9, <1>10

\* The packet is taken and passed on ...
LEMMA PacketPassed ==
  ASSUME TypeOK, NEW s, NEW x, NEW notified, Took(s, <<x>>, notified), NEW n,
         Carries(s, n), Single(n), Carries(x, n),
         \A j \in 1..Len(notified) : ~Retains(notified[j], n),
         PingEnded(n)' \/ (Final(x) <=> PongDone(n)')
  PROVE  PacketOf(n)' /\ RallyOf(n)'
<1>1. Len(<<x>>) = 1 /\ <<x>>[1] = x
  OBVIOUS
<1>2. \A i \in Queued(n)' : i = Len(Queue) - 1 + 1 /\ Queue'[i] = x
  BY <1>1, PacketTaken
<1>3. Retaining(n)' = {} /\ Retained(n)' = {}
  BY PacketTaken
<1>4. Len(Queue) - 1 + 1 \in Queued(n)'
  BY <1>1, TookPlaces
<1>5. PacketOf(n)'
  BY <1>2, <1>3, <1>4 DEF PacketOf, Single, Somewhere
<1>6. RallyOf(n)'
  BY <1>2, <1>3 DEF RallyOf, Final
<1>7. QED
  BY <1>5, <1>6

\* ... or it is given to the timer ...
LEMMA PacketHeld ==
  ASSUME TypeOK, NEW s, NEW r, NEW q, NEW notified, Took(s, <<>>, notified), NEW n,
         Len(notified) = 2, notified[1] = q, notified[2] = r,
         Carries(s, n), Single(n), ~Retains(q, n), Retains(r, n),
         PingEnded(n)' \/ ~PongDone(n)'
  PROVE  PacketOf(n)' /\ RallyOf(n)'
<1>1. Len(<<>>) = 0 /\ 1..Len(notified) = {1, 2}
  OBVIOUS
<1>2. Queued(n)' = {} /\ Retained(n)' = {}
  BY <1>1, PacketTaken
<1>3. \A i \in Retaining(n)' : i = Len(requests) + 2
  BY <1>1, PacketTaken
<1>4. Len(requests) + 2 \in Retaining(n)'
  BY <1>1, TookPlaces
<1>5. QED
  BY <1>2, <1>3, <1>4 DEF PacketOf, Single, Somewhere, RallyOf

\* ... or nobody needs it any more.
LEMMA PacketDropped ==
  ASSUME TypeOK, NEW s, NEW pushed, NEW notified, Took(s, pushed, notified), NEW n,
         Carries(s, n), Single(n), Over(n)',
         \A j \in 1..Len(pushed) : ~Carries(pushed[j], n),
         \A j \in 1..Len(notified) : ~Retains(notified[j], n)
  PROVE  PacketOf(n)' /\ RallyOf(n)'
<1>1. Queued(n)' = {} /\ Retaining(n)' = {} /\ Retained(n)' = {}
  BY PacketTaken
<1>2. QED
  BY <1>1 DEF PacketOf, Single, RallyOf

LEMMA EmptyFacts ==
  /\ <<>> \in Seq(BackSignal) /\ <<>> \in Seq(Request) /\ Len(<<>>) = 0 /\ 1..0 = {}
  OBVIOUS

LEMMA ChildIgnoresStep == Inv /\ ChildIgnores => Inv'
<1> SUFFICES ASSUME Inv, ChildIgnores PROVE Inv'
  OBVIOUS
<1> PICK s : s = Signal
  OBVIOUS
<1> DEFINE n == s.to.play
<1>1. Waiting /\ s.to \notin Menu /\ StateOf(s.to) \in Terminal /\ UNCHANGED store
  BY DEF ChildIgnores
<1>2. Took(s, <<>>, <<>>) /\ TypeOK
  BY <1>1, EmptyFacts DEF ChildIgnores, Took, Inv
<1>3. ChildDoes(s, StateOf(s.to), <<>>, <<>>)
  BY <1>1, <1>2, ChildTaken, EmptyFacts DEF ChildDoes, store
<1>4. PacketOf(n) /\ RallyOf(n) /\ child' = child
  BY <1>1, ChildTaken DEF store
<1>5. PacketOf(n)' /\ RallyOf(n)'
  <2>1. CASE Carries(s, n)
    <3>1. PingEnded(n) \/ (Final(s) <=> PongDone(n))
      BY <1>1, <2>1, ChildTaken
    <3>2. Over(n)
      BY <1>1, <3>1, ChildTaken DEF Over, PingEnded, PongDone, Final, StateOf, Terminal, Kind
    <3>3. Over(n)' /\ Single(n)
      BY <1>4, <3>2 DEF Over, PacketOf
    <3>4. QED
      BY <1>2, <2>1, <3>3, EmptyFacts, PacketDropped
  <2>2. CASE ~Carries(s, n)
    <3>1. Untouched(s, <<>>, <<>>, n)
      BY <2>2, EmptyFacts DEF Untouched
    <3>2. QED
      BY <1>2, <1>4, <3>1, PacketKept, RallyKept DEF Over, PingEnded, PongDone
  <2>3. QED
    BY <2>1, <2>2
<1>6. QED
  BY <1>3, <1>5, ChildStep

LEMMA HitsFacts ==
  /\ Rally \in Nat /\ 0 \in 0..(Rally + 2) /\ 0 <= Rally /\ 0 <= Rally + 1
  /\ \A h \in 0..(Rally + 2) : h \in Nat /\ (h <= Rally + 1 => h + 1 \in 0..(Rally + 2))
<1>1. Rally \in Nat
  BY GameAssumption
<1>2. QED
  BY <1>1

\* A packet that a child sends to the other, and a request that it makes.
LEMMA PassFacts ==
  ASSUME Inv, NEW id \in Id, id.play \in Started, NEW h \in 0..(Rally + 2),
         id.kind = "ping" => h <= Rally + 1,
         NEW x, x = [to |-> Peer(id), input |-> "packet", hits |-> h]
  PROVE  /\ <<x>> \in Seq(BackSignal) /\ Len(<<x>>) = 1 /\ <<x>>[1] = x
         /\ SignalOK(x) /\ Carries(x, id.play)
         /\ x.to \notin Menu /\ x.to.play = id.play /\ x.input = "packet" /\ x.hits = h
         /\ x.to.kind = IF id.kind = "ping" THEN "pong" ELSE "ping"
<1>1. Peer(id) \in Id /\ Peer(id) \notin Menu /\ Peer(id).play = id.play
      /\ Peer(id).kind = (IF id.kind = "ping" THEN "pong" ELSE "ping")
      /\ id.kind \in Kind
  BY IdFacts
<1>2. x \in ChildSignal /\ x.input = "packet"
  BY <1>1 DEF ChildSignal
<1>3. x \in BackSignal
  BY <1>2 DEF BackSignal
<1>4. SignalOK(x)
  BY <1>1 DEF SignalOK, ChildSignalOK, Kind
<1>5. Carries(x, id.play)
  BY <1>1 DEF Carries
<1>6. QED
  BY <1>1, <1>3, <1>4, <1>5

LEMMA RequestFacts ==
  ASSUME Inv, NEW id \in Id, id.play \in Started, NEW op \in {"set", "cancel", "retain"},
         NEW h \in 0..(Rally + 2), op = "retain" => HitsKept(id, h),
         NEW r, r = [op |-> op, id |-> id, hits |-> h]
  PROVE  r \in Request /\ RequestOK(r) /\ r.op = op /\ r.id = id /\ r.hits = h
<1>1. id \notin Menu
  BY IdFacts
<1>2. QED
  BY <1>1 DEF Request, RequestOK

\* A packet that is not the last one is taken by a child that goes on, and Pong is not done.
LEMMA GoesOn ==
  ASSUME Inv, Waiting, NEW s, s = Signal, s.to \notin Menu, Carries(s, s.to.play), ~Final(s),
         StateOf(s.to) \notin Terminal, NEW st \in {"ready", "sending", "responding"},
         child' = [child EXCEPT ![s.to.play][s.to.kind] = st]
  PROVE  PingEnded(s.to.play)' \/ ~PongDone(s.to.play)'
<1> DEFINE id == s.to
           n  == id.play
<1>1. /\ n \in Play /\ id.kind \in {"ping", "pong"} /\ "pong" \in Kind
      /\ PingEnded(n) \/ (Final(s) <=> PongDone(n))
  BY ChildTaken DEF Kind
<1>2. child \in [Play -> [Kind -> {"none", "ready", "sending", "responding"} \cup Terminal]]
  BY DEF Inv, TypeOK
<1>3. CASE id.kind = "ping"
  <2>1. ~PongDone(n) /\ child'[n]["pong"] = child[n]["pong"]
    BY <1>1, <1>2, <1>3 DEF PingEnded, StateOf
  <2>2. QED
    BY <2>1 DEF PongDone
<1>4. CASE id.kind = "pong"
  BY <1>1, <1>2, <1>4 DEF PongDone
<1>5. QED
  BY <1>1, <1>3, <1>4

LEMMA PassStep ==
  ASSUME Inv, Waiting, NEW s, s = Signal, s.to \notin Menu, Carries(s, s.to.play), ~Final(s),
         StateOf(s.to) \notin Terminal, NEW st \in {"ready", "sending", "responding"},
         child' = [child EXCEPT ![s.to.play][s.to.kind] = st],
         menu' = menu, tree' = tree, menuOf' = menuOf, holder' = holder,
         NEW h \in 0..(Rally + 2), h <= IF s.to.kind = "ping" THEN Rally + 1 ELSE Rally,
         NEW x, x = [to |-> Peer(s.to), input |-> "packet", hits |-> h],
         NEW q, q = [op |-> "set", id |-> s.to, hits |-> 0],
         NEW notified \in {<<>>, <<q>>}, Process(<<x>>, notified)
  PROVE  Inv'
<1> DEFINE id == s.to
           n  == id.play
<1>1. /\ id \in Id /\ n \in Started /\ id.kind \in {"ping", "pong"} /\ Single(n) /\ TypeOK
      /\ Rally \in Nat /\ 0 \in 0..(Rally + 2)
  BY ChildTaken, HitsFacts DEF PacketOf, Inv, Kind
<1>2. /\ <<x>> \in Seq(BackSignal) /\ Len(<<x>>) = 1 /\ <<x>>[1] = x /\ SignalOK(x) /\ Carries(x, n)
      /\ x.to \notin Menu /\ x.to.play = n /\ x.input = "packet" /\ ~Final(x)
  BY <1>1, PassFacts DEF Final
<1>3. q \in Request /\ RequestOK(q) /\ q.op = "set" /\ q.id = id
  BY <1>1, RequestFacts
<1>4. notified \in Seq(Request) /\ \A j \in 1..Len(notified) : notified[j] = q
  <2>1. CASE notified = <<>>
    BY <2>1, EmptyFacts
  <2>2. CASE notified = <<q>>
    BY <1>3, <2>2
  <2>3. QED
    BY <2>1, <2>2
<1>5. Took(s, <<x>>, notified)
  BY <1>2, <1>4 DEF Took
<1>6. \A j \in 1..Len(<<x>>) : <<x>>[j] = x
  BY <1>2
<1>7. ChildDoes(s, st, <<x>>, notified)
  BY <1>1, <1>2, <1>3, <1>4, <1>5, <1>6 DEF ChildDoes
<1>8. PingEnded(n)' \/ (Final(x) <=> PongDone(n)')
  BY <1>2, GoesOn
<1>9. PacketOf(n)' /\ RallyOf(n)'
  BY <1>1, <1>2, <1>3, <1>4, <1>5, <1>8, PacketPassed DEF Retains
<1>10. QED
  BY <1>7, <1>9, ChildStep

LEMMA HitStep ==
  ASSUME Inv, Waiting, NEW s, s = Signal, s.to \notin Menu, s.input = "packet",
         StateOf(s.to) \notin Terminal,
         s.to.kind = "ping" => s.hits <= Rally, s.to.kind = "pong" => s.hits < Rally, Hit,
         NEW st \in {"ready", "sending", "responding"},
         child' = [child EXCEPT ![s.to.play][s.to.kind] = st],
         menu' = menu, tree' = tree, menuOf' = menuOf, holder' = holder
  PROVE  Inv'
<1> DEFINE id == s.to
           n  == id.play
           h  == s.hits + 1
<1> PICK x : x = [to |-> Peer(id), input |-> "packet", hits |-> h]
  OBVIOUS
<1> PICK q : q = [op |-> "set", id |-> id, hits |-> 0]
  OBVIOUS
<1> PICK r : r = [op |-> "retain", id |-> id, hits |-> h]
  OBVIOUS
<1>1. /\ id \in Id /\ n \in Started /\ n \in Play /\ id.kind \in {"ping", "pong"} /\ s.hits \in 0..(Rally + 2)
      /\ Carries(s, n) /\ Single(n) /\ TypeOK
  BY ChildTaken DEF PacketOf, Inv, Kind
<1>2. h \in 0..(Rally + 2) /\ h <= Rally + 1 /\ HitsKept(id, h) /\ Rally \in Nat
  BY <1>1, GameAssumption DEF HitsKept
<1>4. /\ q \in Request /\ RequestOK(q) /\ q.op = "set" /\ q.id = id
      /\ r \in Request /\ RequestOK(r) /\ r.op = "retain" /\ r.id = id
  BY <1>1, <1>2, RequestFacts
<1>5. ~Final(s) /\ (PingEnded(n)' \/ ~PongDone(n)')
  <2>1. ~Final(s)
    BY <1>1, <1>2 DEF Final
  <2>2. QED
    BY <1>1, <2>1, GoesOn
<1>6. CASE holder[n] = id.kind
  <2>1. PICK both : both = <<q>> \o <<r>>
    OBVIOUS
  <2>2. /\ both \in Seq(Request) /\ Len(both) = 2 /\ both[1] = q /\ both[2] = r
        /\ \A j \in 1..Len(both) : both[j] = q \/ both[j] = r
    BY <1>4, <2>1
  <2>3. Took(s, <<>>, both)
    BY <1>6, <2>1, <2>2, EmptyFacts DEF Took, Hit, Passed, Notify
  <2>4. ChildDoes(s, st, <<>>, both)
    BY <1>1, <1>4, <2>2, <2>3, EmptyFacts DEF ChildDoes
  <2>5. PacketOf(n)' /\ RallyOf(n)'
    BY <1>1, <1>4, <1>5, <2>2, <2>3, PacketHeld DEF Retains
  <2>6. QED
    BY <2>4, <2>5, ChildStep
<1>7. CASE holder[n] # id.kind
  <2>1. Process(<<x>>, <<q>> \o <<>>) /\ <<q>> \o <<>> = <<q>>
    BY <1>7 DEF Hit, Passed, Notify, Push
  <2>2. PICK just : just = <<q>>
    BY Zenon
  <2>3. Process(<<x>>, just)
    BY <2>1, <2>2
  <2>4. QED
    BY <1>1, <1>2, <1>5, <2>2, <2>3, PassStep, Zenon DEF HitsKept
<1>8. QED
  BY <1>6, <1>7

LEMMA PingHitStep == Inv /\ PingHit => Inv'
<1> SUFFICES ASSUME Inv, PingHit PROVE Inv'
  OBVIOUS
<1> PICK s : s = Signal
  OBVIOUS
<1>1. /\ Waiting /\ s.to \notin Menu /\ s.to.kind = "ping" /\ StateOf(s.to) \notin Terminal
      /\ s.input = "packet" /\ s.hits <= Rally /\ Hit /\ UNCHANGED store
  BY DEF PingHit, Active, ToChild
<1>2. StateOf(s.to) \in {"ready", "sending", "responding"}
      /\ child' = [child EXCEPT ![s.to.play][s.to.kind] = StateOf(s.to)]
  BY <1>1, ChildTaken DEF Terminal, store
<1>3. PICK st : st = StateOf(s.to)
  OBVIOUS
<1>4. QED
  BY <1>1, <1>2, <1>3, HitStep, Zenon DEF store

LEMMA PongHitStep == Inv /\ PongHit => Inv'
<1> SUFFICES ASSUME Inv, PongHit PROVE Inv'
  OBVIOUS
<1> PICK s : s = Signal
  OBVIOUS
<1>1. /\ Waiting /\ s.to \notin Menu /\ s.to.kind = "pong" /\ StateOf(s.to) \notin Terminal
      /\ s.input = "packet" /\ s.hits < Rally /\ Hit
      /\ menu' = menu /\ tree' = tree /\ menuOf' = menuOf /\ holder' = holder
  BY DEF PongHit, Active, ToChild
<1>2. StateOf(s.to) \in {"ready", "sending", "responding"}
      /\ child = [child EXCEPT ![s.to.play][s.to.kind] = StateOf(s.to)]
  BY <1>1, ChildTaken DEF Terminal
<1>3. PICK st \in {"ready", "sending", "responding"} :
        child' = [child EXCEPT ![s.to.play][s.to.kind] = st]
  BY <1>2 DEF PongHit, Update
<1>4. QED
  BY <1>1, <1>3, HitStep, Zenon

LEMMA ReturnedStep == ASSUME Inv, NEW kind \in Kind, Returned(kind) PROVE Inv'
<1> PICK s : s = Signal
  OBVIOUS
<1> PICK x : x = [to |-> Peer(s.to), input |-> "packet", hits |-> s.hits]
  OBVIOUS
<1> PICK q : q = [op |-> "set", id |-> s.to, hits |-> 0]
  OBVIOUS
<1> PICK st : st = StateOf(s.to)
  OBVIOUS
<1> PICK just : just = <<q>>
  OBVIOUS
<1>1. /\ Waiting /\ s.to \notin Menu /\ StateOf(s.to) \notin Terminal /\ s.input = "returned"
      /\ Process(<<x>>, just) /\ UNCHANGED store
  BY DEF Returned, Active, ToChild, Push, Notify
<1>2. /\ st \in {"ready", "sending", "responding"} /\ s.hits \in 0..(Rally + 2)
      /\ child' = [child EXCEPT ![s.to.play][s.to.kind] = st]
      /\ Carries(s, s.to.play) /\ ~Final(s) /\ HitsKept(s.to, s.hits)
  BY <1>1, ChildTaken DEF Terminal, store, Final, ChildSignalOK
<1>3. QED
  BY <1>1, <1>2, PassStep DEF store, HitsKept

LEMMA PingStartStep == Inv /\ PingStart => Inv'
<1> SUFFICES ASSUME Inv, PingStart PROVE Inv'
  OBVIOUS
<1> PICK s : s = Signal
  OBVIOUS
<1> PICK x : x = [to |-> Peer(s.to), input |-> "packet", hits |-> 0]
  OBVIOUS
<1> PICK q : q = [op |-> "set", id |-> s.to, hits |-> 0]
  OBVIOUS
<1>1. /\ Waiting /\ s.to \notin Menu /\ StateOf(s.to) \notin Terminal /\ s.input = "start"
      /\ Process(<<x>>, <<>>) /\ child' = [child EXCEPT ![s.to.play][s.to.kind] = "sending"]
      /\ menu' = menu /\ tree' = tree /\ menuOf' = menuOf /\ holder' = holder
  BY DEF PingStart, Active, ToChild, Push, Update
<1>2. Carries(s, s.to.play) /\ ~Final(s) /\ 0 \in 0..(Rally + 2)
      /\ 0 <= IF s.to.kind = "ping" THEN Rally + 1 ELSE Rally
  BY <1>1, ChildTaken, HitsFacts DEF Final
<1>3. QED
  BY <1>1, <1>2, PassStep

\* The report of a child to its menu.
LEMMA TellFacts ==
  ASSUME Inv, NEW id \in Id, id.play \in Started, NEW input \in {"complete", "failed"},
         NEW x, <<x>> = Tell(id, input)
  PROVE  /\ <<x>> \in Seq(BackSignal) /\ Len(<<x>>) = 1 /\ <<x>>[1] = x
         /\ SignalOK(x) /\ x.input = input /\ x.to = menuOf[id.play] /\ x.to \in Menu
         /\ Reports(x, menuOf[id.play]) /\ \A n : ~Carries(x, n)
<1>1. menuOf[id.play] \in Menu /\ tree[menuOf[id.play]] # 0
  <2>1. id.play \in Play /\ menuOf[id.play] # None
    BY DEF Started
  <2>2. menuOf[id.play] \in Menu
    BY <2>1, Zenon DEF Inv, TypeOK
  <2>3. tree[menuOf[id.play]] # 0
    BY <2>1, IdFacts DEF Inv, PlaysInv
  <2>4. QED
    BY <2>2, <2>3
<1>2. x = [to |-> menuOf[id.play], input |-> input, who |-> None]
  BY DEF Tell
<1>3. x \in BackSignal
  BY <1>1, <1>2 DEF BackSignal, MenuSignal
<1>4. QED
  BY <1>1, <1>2, <1>3 DEF SignalOK, MenuSignalOK, Reports, Carries

LEMMA TimeoutStep == ASSUME Inv, NEW kind \in Kind, Timeout(kind) PROVE Inv'
<1> PICK s : s = Signal
  OBVIOUS
<1> DEFINE n == s.to.play
<1> PICK x : <<x>> = Tell(s.to, "failed")
  BY DEF Tell
<1>1. /\ Waiting /\ s.to \notin Menu /\ StateOf(s.to) \notin Terminal /\ s.input = "timeout"
      /\ Process(<<x>>, <<>>) /\ child' = [child EXCEPT ![n][s.to.kind] = "failed"]
      /\ menu' = menu /\ tree' = tree /\ menuOf' = menuOf /\ holder' = holder
  BY DEF Timeout, Active, ToChild, Report, Update
<1>2. /\ s.to \in Id /\ n \in Started /\ n \in Play /\ s.to.kind \in {"ping", "pong"} /\ TypeOK
      /\ PacketOf(n) /\ RallyOf(n) /\ ~Carries(s, n)
  BY <1>1, ChildTaken DEF Inv, Kind, Carries
<1>3. /\ <<x>> \in Seq(BackSignal) /\ Len(<<x>>) = 1 /\ <<x>>[1] = x
      /\ SignalOK(x) /\ x.input = "failed" /\ x.to = menuOf[n] /\ x.to \in Menu
      /\ Reports(x, menuOf[n]) /\ ~Carries(x, n)
  BY <1>2, TellFacts
<1>4. Took(s, <<x>>, <<>>)
  BY <1>1, <1>3, EmptyFacts DEF Took
<1>5. \A j \in 1..Len(<<x>>) : <<x>>[j] = x
  BY <1>3
<1>6. ChildDoes(s, "failed", <<x>>, <<>>)
  <2>1. 1 \in 1..Len(<<x>>) /\ Reports(<<x>>[1], menuOf[n])
    BY <1>3
  <2>2. QED
    BY <1>1, <1>2, <1>3, <1>4, <1>5, <2>1, EmptyFacts DEF ChildDoes
<1>7. Untouched(s, <<x>>, <<>>, n)
  BY <1>2, <1>3, <1>5, EmptyFacts DEF Untouched
<1>8. child'[n][s.to.kind] = "failed" /\ \A k \in Kind : k # s.to.kind => child'[n][k] = child[n][k]
  BY <1>1, <1>2 DEF TypeOK, Kind
<1>9. Over(n)'
  BY <1>2, <1>8 DEF Over, Terminal
<1>10. PingEnded(n)' \/ (~PingEnded(n) /\ (PongDone(n)' <=> PongDone(n)))
  BY <1>1, <1>2, <1>8 DEF PingEnded, PongDone, StateOf, Terminal, Kind
<1>11. PacketOf(n)' /\ RallyOf(n)'
  BY <1>2, <1>4, <1>7, <1>9, <1>10, PacketKept, RallyKept
<1>12. QED
  BY <1>6, <1>11, ChildStep

LEMMA PingCompleteStep == Inv /\ PingComplete => Inv'
<1> SUFFICES ASSUME Inv, PingComplete PROVE Inv'
  OBVIOUS
<1> PICK s : s = Signal
  OBVIOUS
<1> DEFINE n == s.to.play
<1> PICK x : <<x>> = Tell(s.to, "complete")
  BY DEF Tell
<1> PICK r : r = [op |-> "cancel", id |-> s.to, hits |-> 0]
  OBVIOUS
<1>1. /\ Waiting /\ s.to \notin Menu /\ StateOf(s.to) \notin Terminal /\ s.input = "packet"
      /\ s.to.kind = "ping" /\ s.hits > Rally
      /\ Process(<<x>>, <<r>>) /\ child' = [child EXCEPT ![n][s.to.kind] = "done"]
      /\ menu' = menu /\ tree' = tree /\ menuOf' = menuOf /\ holder' = holder
  BY DEF PingComplete, Active, ToChild, CancelOwn, Notify, Update
<1>2. /\ s.to \in Id /\ n \in Started /\ n \in Play /\ TypeOK /\ Single(n)
      /\ Carries(s, n) /\ Final(s) /\ (PingEnded(n) \/ PongDone(n))
  BY <1>1, ChildTaken DEF Inv, PacketOf, Final
<1>3. /\ <<x>> \in Seq(BackSignal) /\ Len(<<x>>) = 1 /\ <<x>>[1] = x
      /\ SignalOK(x) /\ x.input = "complete" /\ x.to = menuOf[n] /\ x.to \in Menu
      /\ Reports(x, menuOf[n]) /\ ~Carries(x, n)
  BY <1>2, TellFacts
<1>4. r \in Request /\ RequestOK(r) /\ r.op = "cancel" /\ r.id = s.to
  BY <1>2, RequestFacts, GameAssumption
<1>5. <<r>> \in Seq(Request) /\ Len(<<r>>) = 1 /\ <<r>>[1] = r
      /\ \A j \in 1..Len(<<r>>) : <<r>>[j] = r
  BY <1>4
<1>6. Took(s, <<x>>, <<r>>)
  BY <1>1, <1>3, <1>5 DEF Took
<1>7. \A j \in 1..Len(<<x>>) : <<x>>[j] = x
  BY <1>3
<1>8. child'[n]["ping"] = "done" /\ child'[n]["pong"] = child[n]["pong"]
  BY <1>1, <1>2 DEF TypeOK, Kind
<1>9. \A k \in Kind : child'[n][k] = "done"
  BY <1>1, <1>2, <1>8 DEF Kind, PingEnded, PongDone, StateOf
<1>10. ChildDoes(s, "done", <<x>>, <<r>>)
  <2>1. 1 \in 1..Len(<<x>>) /\ Reports(<<x>>[1], menuOf[n]) /\ 1 \in 1..Len(<<r>>)
    BY <1>3, <1>5
  <2>2. QED
    BY <1>1, <1>2, <1>3, <1>4, <1>5, <1>6, <1>7, <1>9, <2>1 DEF ChildDoes
<1>11. Over(n)'
  BY <1>8 DEF Over, Terminal
<1>12. PacketOf(n)' /\ RallyOf(n)'
  BY <1>2, <1>3, <1>4, <1>5, <1>6, <1>7, <1>11, PacketDropped DEF Retains
<1>13. QED
  BY <1>10, <1>12, ChildStep

LEMMA PongCompleteStep == Inv /\ PongComplete => Inv'
<1> SUFFICES ASSUME Inv, PongComplete PROVE Inv'
  OBVIOUS
<1> PICK s : s = Signal
  OBVIOUS
<1> DEFINE n == s.to.play
<1> PICK x : x = [to |-> Peer(s.to), input |-> "packet", hits |-> s.hits + 1]
  OBVIOUS
<1> PICK r : r = [op |-> "cancel", id |-> s.to, hits |-> 0]
  OBVIOUS
<1>1. /\ Waiting /\ s.to \notin Menu /\ StateOf(s.to) \notin Terminal /\ s.input = "packet"
      /\ s.to.kind = "pong" /\ s.hits >= Rally
      /\ Process(<<x>>, <<r>>) /\ child' = [child EXCEPT ![n][s.to.kind] = "done"]
      /\ menu' = menu /\ tree' = tree /\ menuOf' = menuOf /\ holder' = holder
  BY DEF PongComplete, Active, ToChild, CancelOwn, Notify, Push, Update
<1>2. /\ s.to \in Id /\ n \in Started /\ n \in Play /\ TypeOK /\ Single(n) /\ Carries(s, n)
      /\ s.hits + 1 \in 0..(Rally + 2) /\ s.hits + 1 > Rally
  <2>1. s.hits \in 0..(Rally + 2) /\ s.hits <= Rally + 1
    BY <1>1, ChildTaken DEF ChildSignalOK
  <2>2. s.hits + 1 \in 0..(Rally + 2) /\ s.hits + 1 > Rally
    BY <1>1, <2>1, HitsFacts
  <2>3. QED
    BY <1>1, <2>2, ChildTaken DEF Inv, PacketOf
<1>3. /\ <<x>> \in Seq(BackSignal) /\ Len(<<x>>) = 1 /\ <<x>>[1] = x /\ SignalOK(x) /\ Carries(x, n)
      /\ x.to \notin Menu /\ x.to.play = n /\ x.input = "packet" /\ Final(x)
  BY <1>1, <1>2, PassFacts DEF Final
<1>4. r \in Request /\ RequestOK(r) /\ r.op = "cancel" /\ r.id = s.to
  BY <1>2, RequestFacts, GameAssumption
<1>5. <<r>> \in Seq(Request) /\ Len(<<r>>) = 1 /\ <<r>>[1] = r
      /\ \A j \in 1..Len(<<r>>) : <<r>>[j] = r
  BY <1>4
<1>6. Took(s, <<x>>, <<r>>)
  BY <1>1, <1>3, <1>5 DEF Took
<1>7. \A j \in 1..Len(<<x>>) : <<x>>[j] = x
  BY <1>3
<1>8. ChildDoes(s, "done", <<x>>, <<r>>)
  <2>1. 1 \in 1..Len(<<r>>)
    BY <1>5
  <2>2. QED
    BY <1>1, <1>2, <1>3, <1>4, <1>5, <1>6, <1>7, <2>1 DEF ChildDoes
<1>9. PongDone(n)'
  BY <1>1, <1>2 DEF PongDone, TypeOK, Kind
<1>10. PacketOf(n)' /\ RallyOf(n)'
  BY <1>2, <1>3, <1>4, <1>5, <1>6, <1>9, PacketPassed DEF Retains
<1>11. QED
  BY <1>8, <1>10, ChildStep

-----------------------------------------------------------------------------
\* The steps of a menu.

LEMMA MenuTaken ==
  ASSUME Inv, Waiting, NEW s, s = Signal, s.to \in Menu
  PROVE  /\ s \in MenuSignal /\ MenuSignalOK(s) /\ TypeOK /\ \A n : ~Carries(s, n)
         /\ s.input = "complete" => DoneIn(s.to) \/ menu[s.to] = "failed"
<1>1. TypeOK /\ Len(Queue) > 0 /\ s = Queue[1] /\ 1 \in DOMAIN Queue /\ s \in FrontSignal \cup BackSignal
  BY QueueFacts DEF Inv
<1>2. s \in MenuSignal
  BY <1>1, SignalFacts
<1>3. MenuSignalOK(s)
  BY <1>1 DEF Inv, ItemsInv, SignalOK
<1>4. s.input = "complete" => DoneIn(s.to) \/ menu[s.to] = "failed"
  BY <1>1 DEF Inv, VerdictInv
<1>5. QED
  BY <1>1, <1>2, <1>3, <1>4 DEF Carries

\* A menu that starts nothing: it gets state st, pushes nothing, and may fail its whole tree.
MenuDoes(s, m, st, notified) ==
  /\ Took(s, <<>>, notified) /\ m = s.to /\ m \in Menu
  /\ st \in {"none", "ready", "done", "failed"} /\ (st = "none" <=> menu[m] = "none")
  /\ menu' = [menu EXCEPT ![m] = st]
  /\ tree' = tree /\ menuOf' = menuOf /\ holder' = holder
  /\ menu[m] \in Terminal => st = menu[m]
  /\ Reports(s, m) => st \in Terminal
  /\ st = "done" => DoneIn(m)
  /\ \A j \in 1..Len(notified) : RequestOK(notified[j]) /\ notified[j].op = "cancel"
  /\ \/ child' = child /\ st = menu[m]
     \/ child' = child /\ st # "failed"
     \/ /\ st = "failed" /\ menu[m] \notin Terminal /\ tree[m] # 0
        /\ child' = [child EXCEPT ![tree[m]] = [k \in Kind |-> "failed"]]
        /\ \A k \in Kind : \E c \in 1..Len(notified) :
             notified[c].op = "cancel" /\ notified[c].id = [play |-> tree[m], kind |-> k]

LEMMA MenuStep ==
  ASSUME Inv, NEW s, NEW m, NEW st, NEW notified, MenuDoes(s, m, st, notified)
  PROVE  Inv'
<1> DEFINE p == tree[m]
           Fails == st = "failed" /\ menu[m] \notin Terminal /\ p # 0
<1>1. /\ TypeOK /\ Took(s, <<>>, notified) /\ m \in Menu /\ m = s.to /\ Waiting /\ s = Signal
      /\ UNCHANGED <<tree, menuOf, holder>>
  BY DEF Inv, MenuDoes, Took
<1>2. /\ menu' \in [Menu -> {"none", "ready"} \cup Terminal]
      /\ menu'[m] = st /\ \A x \in Menu : x # m => menu'[x] = menu[x]
      /\ \A x \in Menu : menu[x] \in Terminal => menu'[x] = menu[x]
      /\ \A x \in Menu : menu'[x] = "none" <=> tree[x] = 0
  BY <1>1 DEF MenuDoes, TypeOK, Terminal
<1>3. Fails => p \in Started /\ p \in Play /\ menuOf[p] = m
  BY <1>1, GameAssumption DEF Inv, TypeOK, PlaysInv, Started
<1>4. /\ child' \in [Play -> [Kind -> {"none", "ready", "sending", "responding"} \cup Terminal]]
      /\ \A n \in Play : child'[n] = child[n] \/ (Fails /\ n = p)
      /\ Fails => \A k \in Kind : child'[p][k] = "failed"
  <2> DEFINE State == {"none", "ready", "sending", "responding"} \cup Terminal
             AllOf == [k \in Kind |-> "failed"]
  <2>1. child \in [Play -> [Kind -> State]]
    BY <1>1 DEF TypeOK
  <2>2. CASE child' = child /\ ~Fails
    BY <2>1, <2>2
  <2>3. CASE Fails /\ child' = [child EXCEPT ![p] = AllOf]
    <3>1. AllOf \in [Kind -> State]
      BY DEF Terminal
    <3>2. QED
      BY <1>3, <2>1, <2>3, <3>1
  <2>4. QED
    BY <2>2, <2>3 DEF MenuDoes, Terminal
<1>5. Started' = Started /\ Started \subseteq Play
  BY <1>1 DEF Started
<1>6. TypeOK'
  <2>1. front' \in Seq(FrontSignal) /\ back' \in Seq(BackSignal)
    BY <1>1, TookQueue
  <2>2. requests' \in Seq(Request) /\ UNCHANGED <<armed, held, asked>>
    BY <1>1, TookRequests
  <2>3. QED
    BY <1>1, <1>2, <1>4, <2>1, <2>2 DEF TypeOK
<1>7. PlaysInv'
  <2>1. \A n \in Play, k \in Kind : child'[n][k] = "none" <=> child[n][k] = "none"
    BY <1>3, <1>4 DEF Inv, PlaysInv
  <2>2. QED
    BY <1>1, <2>1, EmptyFacts, PlaysKept DEF Inv
<1>8. ItemsInv'
  <2>1. \A x : RequestOK(x) => RequestOK(x)'
    BY <1>5 DEF RequestOK, HitsKept
  <2>2. QED
    BY <1>1, <1>5, <2>1, EmptyFacts, TookItems DEF Inv, MenuDoes
<1>9. \A n : Untouched(s, <<>>, notified, n)
  BY <1>1, MenuTaken, EmptyFacts DEF Untouched, Retains, MenuDoes
<1>10. RallyInv'
  <2>1. ASSUME NEW n \in Started PROVE RallyOf(n)'
    <3>1. PingEnded(n)' \/ (~PingEnded(n) /\ (PongDone(n)' <=> PongDone(n)))
      BY <1>4, <1>5, <2>1 DEF PingEnded, PongDone, Terminal, Kind
    <3>2. QED
      BY <1>1, <1>9, <3>1, RallyKept DEF Inv, RallyInv
  <2>2. QED
    BY <1>5, <2>1 DEF RallyInv
<1>11. PacketInv'
  <2>1. ASSUME NEW n \in Started PROVE PacketOf(n)'
    <3>1. Over(n) => Over(n)'
      BY <1>4, <1>5, <2>1 DEF Over, Terminal, Kind
    <3>2. QED
      BY <1>1, <1>9, <3>1, PacketKept DEF Inv, PacketInv
  <2>2. QED
    BY <1>5, <2>1 DEF PacketInv
<1>12. ReportInv'
  <2>1. ASSUME NEW n \in Started PROVE Reported(n)'
    <3>1. menuOf[n] \in Menu /\ Reported(n)
      BY <1>1 DEF Inv, TypeOK, Started, ReportInv
    <3>2. CASE Fails /\ n = p
      BY <1>1, <1>2, <1>3, <3>2 DEF Reported, Terminal
    <3>3. CASE child'[n] = child[n]
      <4>1. Over(n)' => Over(n)
        BY <3>3 DEF Over
      <4>2. Reports(s, menuOf[n]) => menu'[menuOf[n]] \in Terminal
        BY <1>1, <1>2 DEF Reports, MenuDoes
      <4>3. menu[menuOf[n]] \in Terminal => menu'[menuOf[n]] \in Terminal
        BY <1>2, <3>1
      <4>4. QED
        BY <1>1, <3>1, <4>1, <4>2, <4>3, ReportKept
    <3>4. QED
      BY <1>4, <1>5, <3>2, <3>3
  <2>2. QED
    BY <1>5, <2>1 DEF ReportInv
<1>13. VerdictInv'
  <2>1. ASSUME NEW x \in Menu, DoneIn(x) PROVE DoneIn(x)' \/ menu'[x] = "failed"
    <3>1. PICK n \in Started : menuOf[n] = x /\ \A k \in Kind : child[n][k] = "done"
      BY <2>1 DEF DoneIn
    <3>2. CASE Fails /\ n = p
      BY <1>2, <1>3, <3>1, <3>2
    <3>3. CASE child'[n] = child[n]
      BY <1>1, <1>5, <3>1, <3>3 DEF DoneIn
    <3>4. QED
      BY <1>4, <1>5, <3>2, <3>3
  <2>2. \A x \in Menu : menu[x] = "failed" => menu'[x] = "failed"
    BY <1>2 DEF Terminal
  <2>3. ASSUME NEW x \in Menu, menu'[x] = "failed" PROVE \A k \in Kind : child'[tree[x]][k] = "failed"
    <3>1. CASE menu[x] = "failed"
      <4>1. tree[x] \in Play /\ \A k \in Kind : child[tree[x]][k] = "failed"
        BY <1>1, <3>1 DEF Inv, VerdictInv, TypeOK
      <4>2. QED
        BY <1>4, <4>1
    <3>2. CASE menu[x] # "failed"
      <4>1. x = m /\ Fails
        BY <1>1, <1>2, <2>3, <3>2 DEF MenuDoes
      <4>2. QED
        BY <1>4, <4>1
    <3>3. QED
      BY <3>1, <3>2
  <2>4. ASSUME NEW x \in Menu, menu'[x] = "done" PROVE DoneIn(x)'
    <3>1. DoneIn(x)
      BY <1>1, <1>2, <2>4 DEF MenuDoes, Inv, VerdictInv
    <3>2. QED
      BY <2>1, <2>4, <3>1
  <2>5. QED
    BY <1>1, <2>1, <2>2, <2>3, <2>4, EmptyFacts, VerdictTook DEF Inv
<1>14. DisarmedInv'
  <2>1. \A id : \A j \in 1..Len(notified) : ~Sets(notified[j], id)
    BY DEF MenuDoes, Sets
  <2>2. \A id : Disarmed(id) => Disarmed(id)'
    BY <1>1, <2>1, DisarmedKept
  <2>3. ASSUME NEW id \in Id, StateOf(id)' = "done" PROVE Disarmed(id)'
    <3>1. id.play \in Play /\ id.kind \in Kind
      BY IdFacts
    <3>2. StateOf(id) = "done"
      BY <1>4, <2>3, <3>1 DEF StateOf
    <3>3. QED
      BY <2>2, <3>2 DEF Inv, DisarmedInv
  <2>4. ASSUME NEW x \in Menu, menu'[x] = "failed", NEW k \in Kind, NEW id,
               id = [play |-> tree[x], kind |-> k]
        PROVE  Disarmed(id)'
    <3>1. CASE menu[x] = "failed"
      BY <2>2, <2>4, <3>1 DEF Inv, DisarmedInv
    <3>2. CASE menu[x] # "failed"
      <4>1. x = m /\ Fails
        BY <1>1, <1>2, <2>4, <3>2 DEF MenuDoes
      <4>2. PICK c \in 1..Len(notified) : notified[c].op = "cancel" /\ notified[c].id = id
        BY <2>4, <3>2, <4>1 DEF MenuDoes
      <4>3. QED
        BY <1>1, <2>1, <4>2, DisarmedNow
    <3>3. QED
      BY <3>1, <3>2
  <2>5. QED
    BY <1>1, <2>3, <2>4 DEF DisarmedInv, Disarmed, Cancelled
<1>15. QED
  BY <1>6, <1>7, <1>8, <1>10, <1>11, <1>12, <1>13, <1>14 DEF Inv

LEMMA MenuIgnoresStep == Inv /\ MenuIgnores => Inv'
<1> SUFFICES ASSUME Inv, MenuIgnores PROVE Inv'
  OBVIOUS
<1> PICK s : s = Signal
  OBVIOUS
<1> PICK m : m = s.to
  OBVIOUS
<1> PICK st : st = menu[m]
  OBVIOUS
<1>1. /\ Waiting /\ s.to \in Menu /\ (s.input = "other" \/ menu[m] \in Terminal)
      /\ Process(<<>>, <<>>) /\ UNCHANGED store
  BY DEF MenuIgnores, ToMenu
<1>2. /\ TypeOK /\ MenuSignalOK(s) /\ st \in {"none", "ready", "done", "failed"}
      /\ menu' = [menu EXCEPT ![m] = st]
  BY <1>1, MenuTaken DEF TypeOK, Terminal, store
<1>3. Took(s, <<>>, <<>>)
  BY <1>1, EmptyFacts DEF Took
<1>4. st = "done" => DoneIn(m)
  BY <1>1 DEF Inv, VerdictInv
<1>5. MenuDoes(s, m, st, <<>>)
  BY <1>1, <1>2, <1>3, <1>4, EmptyFacts DEF MenuDoes, Reports, store
<1>6. QED
  BY <1>5, MenuStep

LEMMA MenuCompleteStep == Inv /\ MenuComplete => Inv'
<1> SUFFICES ASSUME Inv, MenuComplete PROVE Inv'
  OBVIOUS
<1> PICK s : s = Signal
  OBVIOUS
<1> PICK m : m = s.to
  OBVIOUS
<1>1. /\ Waiting /\ s.to \in Menu /\ s.input = "complete" /\ menu[m] \notin Terminal
      /\ menu' = [menu EXCEPT ![m] = "done"] /\ Process(<<>>, <<>>)
      /\ tree' = tree /\ menuOf' = menuOf /\ holder' = holder /\ child' = child
  BY DEF MenuComplete, ToMenu
<1>2. TypeOK /\ DoneIn(m) /\ MenuSignalOK(s)
  BY <1>1, MenuTaken DEF Terminal
<1>3. menu[m] # "none"
  BY <1>1, <1>2 DEF MenuSignalOK, TypeOK
<1>4. Took(s, <<>>, <<>>)
  BY <1>1, EmptyFacts DEF Took
<1>5. MenuDoes(s, m, "done", <<>>)
  BY <1>1, <1>2, <1>3, <1>4, EmptyFacts DEF MenuDoes, Terminal
<1>6. QED
  BY <1>5, MenuStep

LEMMA MenuFailsStep == Inv /\ MenuFails => Inv'
<1> SUFFICES ASSUME Inv, MenuFails PROVE Inv'
  OBVIOUS
<1> PICK s : s = Signal
  OBVIOUS
<1> PICK m : m = s.to
  OBVIOUS
<1> PICK a : a = [op |-> "cancel", id |-> [play |-> tree[m], kind |-> "ping"], hits |-> 0]
  OBVIOUS
<1> PICK b : b = [op |-> "cancel", id |-> [play |-> tree[m], kind |-> "pong"], hits |-> 0]
  OBVIOUS
<1> PICK c : c = [op |-> "cancel", id |-> m, hits |-> 0]
  OBVIOUS
<1> PICK three : three = <<a>> \o <<b>> \o <<c>>
  OBVIOUS
<1>1. /\ Waiting /\ s.to \in Menu /\ s.input = "failed" /\ menu[m] \notin Terminal
      /\ menu' = [menu EXCEPT ![m] = "failed"] /\ Process(<<>>, three)
      /\ child' = [child EXCEPT ![tree[m]] = [k \in Kind |-> "failed"]]
      /\ tree' = tree /\ menuOf' = menuOf /\ holder' = holder
  BY DEF MenuFails, ToMenu, AllFailed, Notify
<1>2. TypeOK /\ MenuSignalOK(s)
  BY <1>1, MenuTaken
<1>3. /\ tree[m] # 0 /\ menu[m] # "none" /\ tree[m] \in Play /\ tree[m] \in Started
  BY <1>1, <1>2, GameAssumption DEF MenuSignalOK, TypeOK, Inv, PlaysInv, Started
<1>4. /\ a \in Request /\ a.op = "cancel" /\ RequestOK(a) /\ a.id = [play |-> tree[m], kind |-> "ping"]
      /\ b \in Request /\ b.op = "cancel" /\ RequestOK(b) /\ b.id = [play |-> tree[m], kind |-> "pong"]
  <2>1. \A k \in Kind : [play |-> tree[m], kind |-> k] \in Id
    BY <1>3, IdFacts
  <2>2. QED
    BY <1>3, <2>1, HitsFacts DEF Request, RequestOK, Kind
<1>5. c \in Request /\ c.op = "cancel" /\ RequestOK(c)
  BY <1>1, HitsFacts DEF Request, RequestOK
<1>6. /\ three \in Seq(Request) /\ Len(three) = 3 /\ three[1] = a /\ three[2] = b
      /\ \A j \in 1..Len(three) : three[j] = a \/ three[j] = b \/ three[j] = c
  <2> PICK two : two = <<a>> \o <<b>>
    OBVIOUS
  <2>1. /\ two \in Seq(Request) /\ Len(two) = 2 /\ two[1] = a /\ two[2] = b
        /\ \A j \in 1..Len(two) : two[j] = a \/ two[j] = b
    BY <1>4
  <2>2. three = two \o <<c>>
    OBVIOUS
  <2>3. QED
    BY <1>5, <2>1, <2>2
<1>7. Took(s, <<>>, three)
  BY <1>1, <1>6, EmptyFacts DEF Took
<1>8. \A k \in Kind : \E j \in 1..Len(three) :
        three[j].op = "cancel" /\ three[j].id = [play |-> tree[m], kind |-> k]
  <2>1. 1 \in 1..Len(three) /\ 2 \in 1..Len(three)
    BY <1>6
  <2>2. QED
    BY <1>4, <1>6, <2>1 DEF Kind
<1>9. \A j \in 1..Len(three) : RequestOK(three[j]) /\ three[j].op = "cancel"
  BY <1>4, <1>5, <1>6
<1>10. MenuDoes(s, m, "failed", three)
  BY <1>1, <1>3, <1>7, <1>8, <1>9 DEF MenuDoes, Terminal
<1>11. QED
  BY <1>10, MenuStep

\* A play that is not started has its number free, and nothing on its way.
LEMMA StartFacts ==
  ASSUME Inv, NEW n, n \notin Started
  PROVE  Queued(n) = {} /\ Retaining(n) = {} /\ Retained(n) = {}
<1>1. Queued(n) = {}
  <2> SUFFICES ASSUME NEW i \in DOMAIN Queue, Queue[i].to \notin Menu PROVE Queue[i].to.play # n
    BY DEF Queued
  <2>1. QED
    BY DEF Inv, ItemsInv, SignalOK, ChildSignalOK
<1>2. Retaining(n) = {}
  <2> SUFFICES ASSUME NEW i \in DOMAIN requests, requests[i].op = "retain" PROVE requests[i].id.play # n
    BY DEF Retaining
  <2>1. RequestOK(requests[i])
    BY DEF Inv, ItemsInv
  <2>2. QED
    BY <2>1 DEF RequestOK
<1>3. Retained(n) = {}
  BY DEF Inv, ItemsInv, Retained
<1>4. QED
  BY <1>1, <1>2, <1>3

LEMMA StartedFacts ==
  ASSUME Inv
  PROVE  /\ Started \subseteq Play /\ IsFiniteSet(Started) /\ Cardinality(Started) \in Nat
         /\ IsFiniteSet(UserSignals) /\ Cardinality(UserSignals) \in Nat
         /\ Cardinality(Started) + 1 \notin Started
<1>1. Started \in SUBSET Play /\ IsFiniteSet(Play)
  BY FS_Interval, GameAssumption DEF Started, Play
<1>2. IsFiniteSet(Started) /\ Cardinality(Started) \in Nat
  BY <1>1, FS_Subset, FS_CardinalityType
<1>3. UserSignals \in SUBSET (1..Len(Queue)) /\ Len(Queue) \in Nat
  BY QueueFacts DEF UserSignals, Inv
<1>4. IsFiniteSet(UserSignals) /\ Cardinality(UserSignals) \in Nat
  <2>1. IsFiniteSet(1..Len(Queue))
    BY <1>3, FS_Interval
  <2>2. QED
    BY <1>3, <2>1, FS_Subset, FS_CardinalityType
<1>5. Cardinality(Started) + 1 \notin 1..Cardinality(Started)
  BY <1>2
<1>6. QED
  BY <1>1, <1>2, <1>4, <1>5 DEF Inv, PlaysInv

LEMMA MenuPlayStep == Inv /\ MenuPlay => Inv'
<1> SUFFICES ASSUME Inv, MenuPlay PROVE Inv'
  OBVIOUS
<1> PICK s : s = Signal
  OBVIOUS
<1> PICK m : m = s.to
  OBVIOUS
<1> PICK p : p = Cardinality(Started) + 1
  OBVIOUS
<1> PICK id : id = [play |-> p, kind |-> "ping"]
  OBVIOUS
<1> PICK x : x = [to |-> id, input |-> "start", hits |-> 0]
  OBVIOUS
<1>1. /\ Waiting /\ m \in Menu /\ menu[m] \notin Terminal /\ s.input = "play" /\ Process(<<x>>, <<>>)
      /\ menu' = [menu EXCEPT ![m] = "ready"] /\ tree' = [tree EXCEPT ![m] = p]
      /\ menuOf' = [menuOf EXCEPT ![p] = m] /\ holder' = [holder EXCEPT ![p] = s.who]
      /\ child' = [child EXCEPT ![p] = [k \in Kind |-> "ready"]]
  BY DEF MenuPlay, ToMenu, Push, PingAndPong, Started
<1>2. TypeOK /\ s \in MenuSignal /\ s.who \in Kind \cup {None} /\ \A n : ~Carries(s, n)
  BY <1>1, MenuTaken, SignalFacts
<1>3. p \notin Started /\ p \in Play
  <2>1. 1 \in UserSignals
    BY <1>1, <1>2, QueueFacts DEF UserSignals
  <2>2. Cardinality(UserSignals) # 0
    BY <2>1, StartedFacts, FS_EmptySet
  <2>3. Cardinality(Started) + Cardinality(UserSignals) <= MaxAsked /\ MaxAsked \in Nat
    BY <1>2, StartedFacts, GameAssumption DEF Inv, PlaysInv, TypeOK
  <2>4. QED
    BY <2>2, <2>3, StartedFacts DEF Play
<1>4. id \in Id /\ id \notin Menu /\ id.play = p /\ id.kind = "ping"
  BY <1>3, IdFacts DEF Kind
<1>5. /\ x \in BackSignal /\ x.to = id /\ x.input = "start" /\ x.hits = 0 /\ ~Final(x) /\ Carries(x, p)
      /\ \A n : n # p => ~Carries(x, n)
  BY <1>4, HitsFacts DEF BackSignal, ChildSignal, Final, Carries
<1>6. /\ <<x>> \in Seq(BackSignal) /\ Len(<<x>>) = 1 /\ <<x>>[1] = x /\ 1 \in 1..Len(<<x>>)
      /\ \A j \in 1..Len(<<x>>) : <<x>>[j] = x
  BY <1>5
<1>7. Took(s, <<x>>, <<>>)
  BY <1>1, <1>6, EmptyFacts DEF Took
<1>8. /\ menuOf'[p] = m /\ \A n \in Play : n # p => menuOf'[n] = menuOf[n]
      /\ tree'[m] = p /\ \A y \in Menu : y # m => tree'[y] = tree[y]
      /\ menu'[m] = "ready" /\ \A y \in Menu : y # m => menu'[y] = menu[y]
      /\ (\A k \in Kind : child'[p][k] = "ready") /\ \A n \in Play : n # p => child'[n] = child[n]
  BY <1>1, <1>2, <1>3 DEF TypeOK
<1>9. Started' = Started \cup {p} /\ Started \subseteq Play /\ p # 0
  BY <1>1, <1>3, <1>8, GameAssumption, IdFacts DEF Started
<1>10. TypeOK'
  <2>1. /\ menuOf' \in [Play -> Menu \cup {None}] /\ holder' \in [Play -> Kind \cup {None}]
        /\ tree' \in [Menu -> Play \cup {0}] /\ menu' \in [Menu -> {"none", "ready"} \cup Terminal]
    BY <1>1, <1>2, <1>3 DEF TypeOK
  <2>2. child' \in [Play -> [Kind -> {"none", "ready", "sending", "responding"} \cup Terminal]]
    BY <1>1, <1>2, <1>3 DEF TypeOK
  <2>3. \A y \in Menu : menu'[y] = "none" <=> tree'[y] = 0
    BY <1>2, <1>8, <1>9 DEF TypeOK
  <2>4. QED
    BY <1>2, <1>7, <2>1, <2>2, <2>3, TookQueue, TookRequests DEF TypeOK
<1>11. PlaysInv'
  <2>1. Cardinality(Started') = Cardinality(Started) + 1
    BY <1>3, <1>9, StartedFacts, FS_AddElement
  <2>2. Started' = 1..Cardinality(Started')
    BY <1>9, <2>1, StartedFacts DEF Inv, PlaysInv
  <2>3. /\ Cardinality(UserSignals') \in Nat /\ Cardinality(UserSignals') < Cardinality(UserSignals)
        /\ asked' = asked /\ asked \in Nat
    <3>1. asked' = asked /\ asked \in Nat
      BY <1>2, <1>7, TookRequests, GameAssumption DEF TypeOK
    <3>2. \A j \in 1..Len(<<x>>) : <<x>>[j].input \notin {"play", "other"}
      BY <1>5, <1>6
    <3>3. QED
      BY <1>1, <1>2, <1>7, <3>1, <3>2, TookUsers
  <2>4. Cardinality(Started') + Cardinality(UserSignals') <= asked'
    BY <2>1, <2>3, StartedFacts DEF Inv, PlaysInv
  <2>5. \A y \in Menu : tree'[y] # 0 => menuOf'[tree'[y]] = y
    <3> SUFFICES ASSUME NEW y \in Menu, y # m, tree[y] # 0 PROVE menuOf'[tree[y]] = y
      BY <1>8
    <3>1. tree[y] \in Play /\ menuOf[tree[y]] = y
      BY <1>2 DEF TypeOK, Inv, PlaysInv
    <3>2. tree[y] # p
      BY <1>3, <3>1, GameAssumption DEF Started
    <3>3. QED
      BY <1>8, <3>1, <3>2
  <2>6. \A n \in Started' : tree'[menuOf'[n]] # 0
    <3> SUFFICES ASSUME NEW n \in Started, n # p PROVE tree'[menuOf'[n]] # 0
      BY <1>8, <1>9
    <3>1. n \in Play /\ menuOf'[n] = menuOf[n]
      BY <1>8, <1>9
    <3>2. menuOf[n] \in Menu /\ tree[menuOf[n]] # 0
      BY <1>2, <3>1 DEF Inv, PlaysInv, Started, TypeOK
    <3>3. QED
      BY <1>8, <1>9, <3>1, <3>2
  <2>7. \A n \in Play, k \in Kind : child'[n][k] = "none" <=> n \notin Started'
    BY <1>8, <1>9 DEF Inv, PlaysInv
  <2>8. QED
    BY <2>2, <2>4, <2>5, <2>6, <2>7 DEF PlaysInv
<1>12. ItemsInv'
  <2>1. SignalOK(x)'
    BY <1>4, <1>5, <1>9 DEF SignalOK, ChildSignalOK
  <2>2. \A y \in Menu : tree[y] # 0 => tree'[y] # 0
    BY <1>8, <1>9
  <2>3. QED
    BY <1>2, <1>6, <1>7, <1>9, <2>1, <2>2, EmptyFacts, TookItems DEF Inv
<1>13. \A n \in Started : n # p /\ Untouched(s, <<x>>, <<>>, n) /\ child'[n] = child[n]
  BY <1>2, <1>3, <1>5, <1>6, <1>8, <1>9, EmptyFacts DEF Untouched
<1>14. RallyOf(p)' /\ PacketOf(p)'
  <2>1. Queued(p) = {} /\ Retaining(p) = {} /\ Retained(p) = {}
    BY <1>3, StartFacts
  <2>2. /\ \A i \in Queued(p)' : i = Len(Queue) - 1 + 1 /\ Queue'[i] = x
        /\ Len(Queue) - 1 + 1 \in Queued(p)' /\ Retaining(p)' = {} /\ Retained(p)' = {}
    <3>1. \A i \in Queued(p)' : i = Len(Queue) - 1 + 1 /\ Queue'[i] = x
      BY <1>2, <1>6, <1>7, <2>1, TookPlaces
    <3>2. Len(Queue) - 1 + 1 \in Queued(p)'
      BY <1>2, <1>5, <1>6, <1>7, TookPlaces
    <3>3. Retaining(p)' = {} /\ Retained(p)' = {}
      BY <1>2, <1>7, <2>1, EmptyFacts, TookPlaces
    <3>4. QED
      BY <3>1, <3>2, <3>3
  <2>3. ~PongDone(p)'
    BY <1>8 DEF PongDone, Kind
  <2>4. RallyOf(p)'
    BY <1>5, <2>2, <2>3 DEF RallyOf, Final
  <2>5. PacketOf(p)'
    BY <2>2 DEF PacketOf, Single, Somewhere
  <2>6. QED
    BY <2>4, <2>5
<1>15. RallyInv'
  <2>1. \A n \in Started : RallyOf(n)'
    BY <1>2, <1>7, <1>13, RallyKept DEF Inv, RallyInv, PingEnded, PongDone
  <2>2. QED
    BY <1>9, <1>14, <2>1 DEF RallyInv
<1>16. PacketInv'
  <2>1. \A n \in Started : PacketOf(n)'
    BY <1>2, <1>7, <1>13, PacketKept DEF Inv, PacketInv, Over
  <2>2. QED
    BY <1>9, <1>14, <2>1 DEF PacketInv
<1>17. ReportInv'
  <2>1. ASSUME NEW n \in Started PROVE Reported(n)'
    <3>1. menuOf[n] \in Menu /\ menuOf'[n] = menuOf[n] /\ Reported(n)
      <4>1. n \in Play /\ menuOf'[n] = menuOf[n]
        BY <1>8, <1>9, <1>13
      <4>2. QED
        BY <1>2, <4>1 DEF Inv, ReportInv, Started, TypeOK
    <3>2. menu[menuOf[n]] \in Terminal => menu'[menuOf[n]] \in Terminal
      BY <1>1, <1>8, <3>1
    <3>3. (Over(n)' => Over(n)) /\ ~Reports(s, menuOf[n])
      BY <1>1, <1>13 DEF Over, Reports
    <3>4. QED
      BY <1>2, <1>7, <3>1, <3>2, <3>3, ReportKept
  <2>2. ~Over(p)'
    BY <1>8 DEF Over, Kind, Terminal
  <2>3. QED
    BY <1>9, <2>1, <2>2 DEF ReportInv, Reported
<1>18. VerdictInv'
  <2>1. \A y \in Menu : DoneIn(y) => DoneIn(y)'
    BY <1>8, <1>9, <1>13 DEF DoneIn
  <2>2. ASSUME NEW y \in Menu, menu'[y] \in Terminal
        PROVE  y # m /\ menu[y] = menu'[y] /\ tree'[y] = tree[y] /\ tree[y] \in Started
    <3>1. y # m /\ menu[y] = menu'[y] /\ tree'[y] = tree[y]
      BY <1>8, <2>2 DEF Terminal
    <3>2. menu[y] # "none"
      BY <2>2, <3>1 DEF Terminal
    <3>3. tree[y] # 0 /\ tree[y] \in Play /\ menuOf[tree[y]] = y
      BY <1>2, <3>2 DEF TypeOK, Inv, PlaysInv
    <3>4. QED
      BY <3>1, <3>3, GameAssumption DEF Started
  <2>3. \A y \in Menu : menu[y] = "failed" => menu'[y] = "failed"
    BY <1>1, <1>8 DEF Terminal
  <2>4. \A y \in Menu : menu'[y] = "failed" => \A k \in Kind : child'[tree'[y]][k] = "failed"
    BY <1>13, <2>2 DEF Inv, VerdictInv, Terminal
  <2>5. \A y \in Menu : menu'[y] = "done" => DoneIn(y)'
    BY <2>1, <2>2 DEF Inv, VerdictInv, Terminal
  <2>6. \A j \in 1..Len(<<x>>) : <<x>>[j].input # "complete"
    BY <1>5, <1>6
  <2>7. QED
    BY <1>2, <1>7, <2>1, <2>3, <2>4, <2>5, <2>6, VerdictTook DEF Inv
<1>19. DisarmedInv'
  <2>1. \A y : Disarmed(y) => Disarmed(y)'
    BY <1>2, <1>7, EmptyFacts, DisarmedKept
  <2>2. ASSUME NEW y \in Id, StateOf(y)' = "done" PROVE Disarmed(y)'
    <3>1. y.play \in Play /\ y.kind \in Kind
      BY IdFacts
    <3>2. StateOf(y) = "done"
      BY <1>8, <2>2, <3>1 DEF StateOf
    <3>3. QED
      BY <2>1, <3>2 DEF Inv, DisarmedInv
  <2>3. ASSUME NEW y \in Menu, menu'[y] = "failed", NEW k \in Kind, NEW z,
               z = [play |-> tree'[y], kind |-> k]
        PROVE  Disarmed(z)'
    <3>1. y # m
      BY <1>8, <2>3
    <3>2. menu[y] = "failed" /\ z = [play |-> tree[y], kind |-> k]
      BY <1>8, <2>3, <3>1
    <3>3. QED
      BY <2>1, <3>2 DEF Inv, DisarmedInv
  <2>4. QED
    BY <2>2, <2>3 DEF DisarmedInv, Disarmed, Cancelled
<1>20. QED
  BY <1>10, <1>11, <1>12, <1>15, <1>16, <1>17, <1>18, <1>19 DEF Inv

-----------------------------------------------------------------------------
\* The steps that put a signal into the queue: of a user, and of the timer.

Inserted(x, c) ==
  /\ c \in 1..(Len(Queue) + 1)
  /\ DOMAIN Queue' = 1..(Len(Queue) + 1)
  /\ \A i \in 1..(c - 1) : Queue'[i] = Queue[i]
  /\ Queue'[c] = x
  /\ \A i \in c..Len(Queue) : Queue'[i + 1] = Queue[i]
MovedBy(c, i) == IF i < c THEN i ELSE i + 1

LEMMA InsertedQueue ==
  ASSUME TypeOK, NEW x, NEW c, Inserted(x, c)
  PROVE  /\ \A i \in DOMAIN Queue' : i = c \/ \E j \in DOMAIN Queue : i = MovedBy(c, j)
         /\ \A j \in DOMAIN Queue : MovedBy(c, j) \in DOMAIN Queue' /\ Queue'[MovedBy(c, j)] = Queue[j]
         /\ c \in DOMAIN Queue' /\ Queue'[c] = x
<1>1. DOMAIN Queue = 1..Len(Queue) /\ Len(Queue) \in Nat
  BY QueueFacts
<1>2. ASSUME NEW i \in DOMAIN Queue', i # c PROVE \E j \in DOMAIN Queue : i = MovedBy(c, j)
  <2>1. CASE i < c
    BY <1>1, <1>2, <2>1 DEF Inserted, MovedBy
  <2>2. CASE i > c
    <3>1. i - 1 \in DOMAIN Queue /\ i = MovedBy(c, i - 1)
      BY <1>1, <1>2, <2>2 DEF Inserted, MovedBy
    <3>2. QED
      BY <3>1
  <2>3. QED
    BY <1>1, <1>2, <2>1, <2>2 DEF Inserted
<1>3. ASSUME NEW j \in DOMAIN Queue
      PROVE  MovedBy(c, j) \in DOMAIN Queue' /\ Queue'[MovedBy(c, j)] = Queue[j]
  BY <1>1 DEF Inserted, MovedBy
<1>4. QED
  BY <1>1, <1>2, <1>3 DEF Inserted

LEMMA InsertedUsers ==
  ASSUME Inv, NEW x, NEW c, Inserted(x, c)
  PROVE  /\ Cardinality(UserSignals') \in Nat
         /\ Cardinality(UserSignals') <= Cardinality(UserSignals) + 1
         /\ x.input \notin {"play", "other"} => Cardinality(UserSignals') <= Cardinality(UserSignals)
<1> DEFINE f == [i \in UserSignals' \ {c} |-> IF i < c THEN i ELSE i - 1]
<1>1. TypeOK /\ DOMAIN Queue = 1..Len(Queue) /\ Len(Queue) \in Nat /\ c \in Nat
  BY QueueFacts DEF Inv, Inserted
<1>2. ASSUME NEW i \in UserSignals' \ {c}
      PROVE  /\ i \in Nat /\ (IF i < c THEN i ELSE i - 1) \in UserSignals
  <2>1. i \in DOMAIN Queue' /\ i # c /\ Queue'[i].input \in {"play", "other"}
    BY DEF UserSignals
  <2>2. PICK j \in DOMAIN Queue : i = MovedBy(c, j)
    BY <1>1, <2>1, InsertedQueue
  <2>3. j \in UserSignals
    BY <1>1, <2>1, <2>2, InsertedQueue DEF UserSignals
  <2>4. i \in Nat /\ j = IF i < c THEN i ELSE i - 1
    BY <1>1, <2>2 DEF MovedBy
  <2>5. QED
    BY <2>3, <2>4
<1>3. f \in [UserSignals' \ {c} -> UserSignals]
  BY <1>2
<1>4. ASSUME NEW i \in UserSignals' \ {c}, NEW j \in UserSignals' \ {c}, f[i] = f[j] PROVE i = j
  <2>1. i \in Nat /\ j \in Nat /\ i # c /\ j # c
    BY <1>2
  <2>2. (IF i < c THEN i ELSE i - 1) = (IF j < c THEN j ELSE j - 1)
    BY <1>4
  <2>3. QED
    BY <1>1, <2>1, <2>2
<1>5. f \in Injection(UserSignals' \ {c}, UserSignals)
  BY <1>3, <1>4 DEF Injection, IsInjective
<1>6. /\ IsFiniteSet(UserSignals) /\ Cardinality(UserSignals) \in Nat
      /\ IsFiniteSet(UserSignals' \ {c})
      /\ Cardinality(UserSignals' \ {c}) <= Cardinality(UserSignals)
  BY <1>5, StartedFacts, FS_Injection
<1>7. Cardinality(UserSignals' \ {c}) \in Nat
  BY <1>6, FS_CardinalityType
<1>8. CASE c \in UserSignals'
  <2>1. UserSignals' = (UserSignals' \ {c}) \cup {c}
    BY <1>8
  <2>2. Cardinality(UserSignals') = Cardinality(UserSignals' \ {c}) + 1
    BY <1>6, <2>1, FS_AddElement
  <2>3. x.input \in {"play", "other"}
    BY <1>8 DEF UserSignals, Inserted
  <2>4. QED
    BY <1>6, <1>7, <2>2, <2>3
<1>9. CASE c \notin UserSignals'
  <2>1. UserSignals' \ {c} = UserSignals'
    BY <1>9
  <2>2. QED
    BY <1>6, <1>7, <2>1
<1>10. QED
  BY <1>8, <1>9

LEMMA InsertStep ==
  ASSUME Inv, TypeOK', NEW x, NEW c, Inserted(x, c), SignalOK(x), x.input # "complete",
         requests' = requests, UNCHANGED store,
         asked' = IF x.input \in {"play", "other"} THEN asked + 1 ELSE asked,
         armed' \subseteq armed,
         held' \subseteq held,
         \A n \in Started :
           \/ ~Carries(x, n) /\ Retained(n)' = Retained(n)
           \/ Carries(x, n) /\ ~Final(x) /\ \E y \in Retained(n) : Retained(n)' = Retained(n) \ {y}
  PROVE  Inv'
<1>1. /\ TypeOK /\ Started' = Started /\ menu' = menu /\ tree' = tree /\ menuOf' = menuOf
      /\ holder' = holder /\ child' = child
  BY DEF Inv, Started, store
<1>2. PlaysInv'
  <2>1. Cardinality(Started) + Cardinality(UserSignals') <= asked'
    <3>1. Cardinality(Started) + Cardinality(UserSignals) <= asked
      BY DEF Inv, PlaysInv
    <3>2. Cardinality(Started) \in Nat /\ Cardinality(UserSignals) \in Nat
      BY <1>1, StartedFacts
    <3>3. asked \in Nat
      BY <1>1, GameAssumption DEF TypeOK
    <3>4. /\ Cardinality(UserSignals') \in Nat
          /\ Cardinality(UserSignals') <= Cardinality(UserSignals) + 1
          /\ x.input \notin {"play", "other"} => Cardinality(UserSignals') <= Cardinality(UserSignals)
      BY InsertedUsers
    <3>5. CASE x.input \in {"play", "other"}
      BY <3>1, <3>2, <3>3, <3>4, <3>5
    <3>6. CASE x.input \notin {"play", "other"}
      BY <3>1, <3>2, <3>3, <3>4, <3>6
    <3>7. QED
      BY <3>5, <3>6
  <2>2. QED
    BY <1>1, <2>1 DEF Inv, PlaysInv
<1>3. ItemsInv'
  <2>1. \A y : SignalOK(y) => SignalOK(y)'
    BY <1>1 DEF SignalOK, MenuSignalOK, ChildSignalOK, HitsKept
  <2>2. ASSUME NEW i \in DOMAIN Queue', NEW y, y = Queue'[i] PROVE SignalOK(y)'
    <3>1. SignalOK(y)
      BY <1>1, <2>2, InsertedQueue DEF Inv, ItemsInv
    <3>2. QED
      BY <2>1, <3>1
  <2>3. IsFiniteSet(held')
    BY FS_Subset DEF Inv, ItemsInv
  <2>4. QED
    BY <1>1, <2>2, <2>3 DEF Inv, ItemsInv, SignalOK, MenuSignalOK, ChildSignalOK, RequestOK, HitsKept
<1>4. ASSUME NEW n
      PROVE  /\ \A i \in Queued(n)' : \/ i = c /\ Carries(x, n)
                                      \/ \E j \in Queued(n) : i = MovedBy(c, j) /\ Queue'[i] = Queue[j]
             /\ \A j \in Queued(n) : MovedBy(c, j) \in Queued(n)'
             /\ Carries(x, n) => c \in Queued(n)' /\ Queue'[c] = x
             /\ Retaining(n)' = Retaining(n)
  BY <1>1, InsertedQueue DEF Queued, Carries, Retaining
<1>5. ASSUME NEW n \in Started PROVE PacketOf(n)' /\ RallyOf(n)'
  <2>1. PacketOf(n) /\ RallyOf(n)
    BY DEF Inv, PacketInv, RallyInv
  <2>2. CASE ~Carries(x, n) /\ Retained(n)' = Retained(n)
    <3>1. \A i \in Queued(n)' : \E j \in Queued(n) : i = MovedBy(c, j) /\ Queue'[i] = Queue[j]
      BY <1>4, <2>2
    <3>2. Queued(n)' = {} <=> Queued(n) = {}
      BY <1>4, <3>1
    <3>3. \A i, j \in Queued(n)' : i = j
      BY <2>1, <3>1 DEF PacketOf, Single
    <3>4. PacketOf(n)'
      BY <1>1, <1>4, <2>1, <2>2, <3>2, <3>3 DEF PacketOf, Single, Somewhere, Over
    <3>5. RallyOf(n)'
      BY <1>1, <1>4, <2>1, <2>2, <3>1 DEF RallyOf, PingEnded, PongDone, Final
    <3>6. QED
      BY <3>4, <3>5
  <2>3. CASE Carries(x, n) /\ ~Final(x) /\ \E y \in Retained(n) : Retained(n)' = Retained(n) \ {y}
    <3>1. Retained(n) # {} /\ Retained(n)' = {} /\ Queued(n) = {} /\ Retaining(n) = {}
      BY <2>1, <2>3 DEF PacketOf, Single
    <3>2. Queued(n)' = {c} /\ Queue'[c] = x /\ Retaining(n)' = {}
      BY <1>4, <2>3, <3>1
    <3>3. PacketOf(n)'
      BY <3>1, <3>2 DEF PacketOf, Single, Somewhere
    <3>4. PingEnded(n) \/ ~PongDone(n)
      BY <2>1, <3>1 DEF RallyOf
    <3>5. RallyOf(n)'
      BY <1>1, <2>3, <3>1, <3>2, <3>4 DEF RallyOf, PingEnded, PongDone, Final
    <3>6. QED
      BY <3>3, <3>5
  <2>4. QED
    BY <2>2, <2>3
<1>6. RallyInv' /\ PacketInv'
  BY <1>1, <1>5 DEF RallyInv, PacketInv
<1>7. ReportInv'
  <2> SUFFICES ASSUME NEW n \in Started PROVE Reported(n)'
    BY <1>1 DEF ReportInv
  <2>1. Reported(n)
    BY DEF Inv, ReportInv
  <2>2. QED
    BY <1>1, <2>1, InsertedQueue DEF Reported, Over
<1>8. VerdictInv'
  <2>1. ASSUME NEW m \in Menu PROVE DoneIn(m)' <=> DoneIn(m)
    BY <1>1 DEF DoneIn
  <2>2. ASSUME NEW i \in DOMAIN Queue', NEW y, y = Queue'[i], y.to \in Menu, y.input = "complete"
        PROVE  DoneIn(y.to)' \/ menu[y.to] = "failed"
    <3>1. PICK j \in DOMAIN Queue : y = Queue[j]
      BY <1>1, <2>2, InsertedQueue
    <3>2. DoneIn(y.to) \/ menu[y.to] = "failed"
      BY <2>2, <3>1 DEF Inv, VerdictInv
    <3>3. QED
      BY <2>1, <2>2, <3>2
  <2>3. QED
    BY <1>1, <2>1, <2>2 DEF Inv, VerdictInv, DoneIn
<1>9. DisarmedInv'
  <2>1. \A y : Disarmed(y) => Disarmed(y)'
    BY DEF Disarmed, Cancelled
  <2>2. \A y \in Id : StateOf(y)' = StateOf(y)
    BY <1>1 DEF StateOf
  <2>3. ASSUME NEW m \in Menu, menu[m] = "failed", NEW k \in Kind, NEW y,
               y = [play |-> tree[m], kind |-> k]
        PROVE  Disarmed(y)'
    BY <2>1, <2>3 DEF Inv, DisarmedInv
  <2>4. QED
    BY <1>1, <2>1, <2>2, <2>3 DEF Inv, DisarmedInv, Disarmed, Cancelled
<1>10. QED
  BY <1>2, <1>3, <1>6, <1>7, <1>8, <1>9 DEF Inv

LEMMA ConcatFacts ==
  ASSUME NEW S, NEW a \in Seq(S), NEW b \in Seq(S), NEW q, q = a \o b
  PROVE  /\ DOMAIN q = 1..(Len(a) + Len(b))
         /\ \A i \in 1..Len(a) : q[i] = a[i]
         /\ \A i \in 1..Len(b) : q[Len(a) + i] = b[i]
  OBVIOUS

LEMMA FrontInserted ==
  ASSUME TypeOK, NEW x \in FrontSignal, front' = front \o <<x>>, back' = back
  PROVE  /\ front' \in Seq(FrontSignal) /\ Inserted(x, Len(front) + 1)
<1> DEFINE All == FrontSignal \cup BackSignal
<1>1. front \in Seq(FrontSignal) /\ front \in Seq(All) /\ back \in Seq(All)
  BY DEF TypeOK
<1>2. PICK more : more = front \o <<x>>
  OBVIOUS
<1>3. /\ more \in Seq(FrontSignal) /\ more \in Seq(All) /\ Len(more) = Len(front) + 1
      /\ \A i \in 1..Len(front) : more[i] = front[i]
      /\ more[Len(front) + 1] = x
  BY <1>1, <1>2
<1>4. Queue' = more \o back
  BY <1>2 DEF Queue
<1>5. PICK q : q = more \o back
  OBVIOUS
<1>6. /\ DOMAIN q = 1..(Len(front) + 1 + Len(back))
      /\ \A i \in 1..(Len(front) + 1) : q[i] = more[i]
      /\ \A i \in 1..Len(back) : q[Len(front) + 1 + i] = back[i]
  <2>1. more \in Seq(All) /\ back \in Seq(All) /\ q = more \o back
    BY <1>1, <1>3, <1>5
  <2>2. /\ DOMAIN q = 1..(Len(more) + Len(back))
        /\ \A i \in 1..Len(more) : q[i] = more[i]
        /\ \A i \in 1..Len(back) : q[Len(more) + i] = back[i]
    BY <2>1, ConcatFacts
  <2>3. QED
    BY <1>3, <2>2
<1>7. Len(Queue) = Len(front) + Len(back) /\ Len(front) \in Nat /\ Len(back) \in Nat
  BY <1>1, QueueFacts
<1>8. \A i \in 1..Len(front) : q[i] = Queue[i]
  BY <1>3, <1>6, <1>7, QueueFacts
<1>9. ASSUME NEW i \in (Len(front) + 1)..Len(Queue) PROVE q[i + 1] = Queue[i]
  <2> DEFINE j == i - Len(front)
  <2>1. j \in 1..Len(back) /\ i = Len(front) + j /\ i + 1 = Len(front) + 1 + j
    BY <1>7
  <2>2. q[Len(front) + 1 + j] = back[j]
    BY <1>6, <2>1
  <2>3. Queue[Len(front) + j] = back[j]
    BY <2>1, QueueFacts
  <2>4. QED
    BY <2>1, <2>2, <2>3
<1>10. q[Len(front) + 1] = x
  BY <1>3, <1>6, <1>7
<1>11. Len(front) + 1 \in 1..(Len(Queue) + 1) /\ DOMAIN q = 1..(Len(Queue) + 1)
  BY <1>6, <1>7
<1>12. (Len(front) + 1) - 1 = Len(front) /\ Queue' = q
  BY <1>4, <1>5, <1>7
<1>13. QED
  BY <1>2, <1>3, <1>8, <1>9, <1>10, <1>11, <1>12 DEF Inserted

LEMMA BackInserted ==
  ASSUME TypeOK, NEW x \in BackSignal, front' = front, back' = Append(back, x)
  PROVE  back' \in Seq(BackSignal) /\ Inserted(x, Len(Queue) + 1)
<1> DEFINE All == FrontSignal \cup BackSignal
<1>1. back \in Seq(BackSignal) /\ front \in Seq(All) /\ back \in Seq(All)
  BY DEF TypeOK
<1>2. Queue' = front \o Append(back, x) /\ Append(back, x) \in Seq(All)
  BY <1>1 DEF Queue
<1>3. front \o Append(back, x) = Append(front \o back, x)
  BY <1>1
<1>4. Queue' = Append(Queue, x) /\ Queue \in Seq(All)
  BY <1>2, <1>3, QueueFacts DEF Queue
<1>5. QED
  BY <1>1, <1>4 DEF Inserted

LEMMA AskStep ==
  ASSUME Inv, NEW m \in Menu, NEW input \in {"play", "other"}, NEW who \in Kind \cup {None},
         Ask(m, input, who)
  PROVE  Inv'
<1> PICK x : x = [to |-> m, input |-> input, who |-> who]
  OBVIOUS
<1>1. /\ TypeOK /\ asked < MaxAsked /\ asked' = asked + 1 /\ front' = front /\ back' = Append(back, x)
      /\ UNCHANGED <<requests, armed, held>> /\ UNCHANGED store
  BY DEF Ask, Inv
<1>2. x \in BackSignal /\ x.to = m /\ x.input \in {"play", "other"} /\ SignalOK(x)
  BY DEF BackSignal, MenuSignal, SignalOK, MenuSignalOK
<1>3. back' \in Seq(BackSignal) /\ Inserted(x, Len(Queue) + 1)
  BY <1>1, <1>2, BackInserted
<1>4. asked' \in 0..MaxAsked
  BY <1>1, GameAssumption DEF TypeOK
<1>5. TypeOK'
  BY <1>1, <1>3, <1>4 DEF TypeOK, store
<1>6. \A n : ~Carries(x, n) /\ Retained(n)' = Retained(n)
  BY <1>1, <1>2 DEF Carries, Retained
<1>7. QED
  BY <1>1, <1>2, <1>3, <1>5, <1>6, InsertStep

LEMMA ExpireStep == Inv /\ Expire => Inv'
<1> SUFFICES ASSUME Inv, Expire PROVE Inv'
  OBVIOUS
<1>1. PICK id \in armed : Timer!TpExpire(id)
  BY DEF Expire
<1> PICK x : x = [to |-> id, input |-> "timeout", hits |-> 0]
  OBVIOUS
<1>2. id \in Id /\ id \notin Menu /\ id.play \in Started
  BY IdFacts DEF Inv, TypeOK, ItemsInv
<1>3. /\ TypeOK /\ armed' = armed \ {id} /\ front' = front \o <<x>> /\ back' = back
      /\ UNCHANGED <<requests, held, asked>> /\ UNCHANGED store
  BY <1>1, <1>2 DEF Expire, Timer!TpExpire, Inv, Push
<1>4. x \in FrontSignal /\ x.to = id /\ x.input = "timeout" /\ SignalOK(x)
  BY <1>2, HitsFacts DEF FrontSignal, ChildSignal, SignalOK, ChildSignalOK
<1>5. front' \in Seq(FrontSignal) /\ Inserted(x, Len(front) + 1)
  BY <1>3, <1>4, FrontInserted
<1>6. TypeOK'
  BY <1>3, <1>5 DEF TypeOK, store
<1>7. \A n : ~Carries(x, n) /\ Retained(n)' = Retained(n)
  BY <1>3, <1>4 DEF Carries, Retained
<1>8. QED
  BY <1>3, <1>4, <1>5, <1>6, <1>7, InsertStep

LEMMA ReturnStep == ASSUME Inv, NEW y \in held, Return(y) PROVE Inv'
<1> PICK x : x = [to |-> y.id, input |-> "returned", hits |-> y.hits]
  OBVIOUS
<1>1. /\ TypeOK /\ held' = held \ {y} /\ front' = front \o <<x>> /\ back' = back
      /\ UNCHANGED <<requests, armed, asked>> /\ UNCHANGED store
  <2>1. y \in Packet
    BY DEF Inv, TypeOK
  <2>2. QED
    BY <2>1 DEF Return, Timer!TpReturn, Inv, Push
<1>2. /\ y.id \in Id /\ y.id \notin Menu /\ y.hits \in 0..(Rally + 2)
      /\ y.id.play \in Started /\ HitsKept(y.id, y.hits)
  BY <1>1, IdFacts DEF Inv, ItemsInv, TypeOK, Packet
<1>3. x \in FrontSignal /\ x.to = y.id /\ x.input = "returned" /\ SignalOK(x) /\ ~Final(x)
  BY <1>2 DEF FrontSignal, ChildSignal, SignalOK, ChildSignalOK, HitsKept, Final
<1>4. front' \in Seq(FrontSignal) /\ Inserted(x, Len(front) + 1)
  BY <1>1, <1>3, FrontInserted
<1>5. TypeOK'
  BY <1>1, <1>4 DEF TypeOK, store
<1>6. ASSUME NEW n \in Started
      PROVE  \/ ~Carries(x, n) /\ Retained(n)' = Retained(n)
             \/ Carries(x, n) /\ ~Final(x) /\ \E z \in Retained(n) : Retained(n)' = Retained(n) \ {z}
  <2>1. CASE y.id.play = n
    <3>1. y \in Retained(n) /\ Retained(n)' = Retained(n) \ {y}
      BY <1>1, <2>1 DEF Retained
    <3>2. QED
      BY <1>2, <1>3, <2>1, <3>1 DEF Carries
  <2>2. CASE y.id.play # n
    BY <1>1, <1>3, <2>2 DEF Retained, Carries
  <2>3. QED
    BY <2>1, <2>2
<1>7. QED
  BY <1>1, <1>3, <1>4, <1>5, <1>6, InsertStep

-----------------------------------------------------------------------------
\* The timer applies a request.

\* The request that is applied, and what becomes of the armed timers and the held packets.
LEMMA AppliedFacts ==
  ASSUME Inv, Apply, NEW r, r = Head(requests), NEW item, item = [id |-> r.id, hits |-> r.hits]
  PROVE  /\ r = requests[1] /\ 1 \in DOMAIN requests /\ r \in Request /\ RequestOK(r)
         /\ requests' \in Seq(Request) /\ DOMAIN requests' = 1..(Len(requests) - 1)
         /\ \A i \in DOMAIN requests' : i + 1 \in DOMAIN requests /\ requests'[i] = requests[i + 1]
         /\ r.op # "cancel" => r.id \in Id /\ r.id.play \in Started
         /\ armed' \in SUBSET Id
         /\ \A id \in armed' :
              \/ r.op = "set" /\ id = r.id
              \/ ~ (r.op = "cancel" /\ id = r.id) /\ id \in armed
         /\ held' = IF r.op = "retain" THEN held \cup {item} ELSE held
         /\ UNCHANGED <<front, back, store, asked>>
<1>1. TypeOK /\ requests \in Seq(Request) /\ requests # <<>> /\ armed \in SUBSET Id
  BY DEF Inv, TypeOK, Apply
<1>2. r = requests[1] /\ 1 \in DOMAIN requests /\ r \in Request
  BY <1>1
<1>3. RequestOK(r)
  BY <1>2 DEF Inv, ItemsInv
<1>4. /\ requests' \in Seq(Request) /\ DOMAIN requests' = 1..(Len(requests) - 1)
      /\ \A i \in DOMAIN requests' : i + 1 \in DOMAIN requests /\ requests'[i] = requests[i + 1]
  BY <1>1 DEF Apply
<1>5. r.op # "cancel" => r.id \in Id /\ r.id.play \in Started
  BY <1>2, <1>3 DEF Request, RequestOK
<1>6. /\ \/ r.op = "set" /\ Timer!TpSet(r.id)
         \/ r.op = "cancel" /\ Timer!TpCancel(r.id)
         \/ r.op = "retain" /\ Timer!TpRetain(item)
      /\ UNCHANGED <<back, store, asked>>
  BY DEF Apply
<1>7. CASE r.op = "set" /\ Timer!TpSet(r.id)
  BY <1>1, <1>2, <1>3, <1>4, <1>5, <1>6, <1>7 DEF Timer!TpSet
<1>8. CASE r.op = "cancel" /\ Timer!TpCancel(r.id)
  BY <1>1, <1>2, <1>3, <1>4, <1>5, <1>6, <1>8 DEF Timer!TpCancel
<1>9. CASE r.op = "retain" /\ Timer!TpRetain(item)
  BY <1>1, <1>2, <1>3, <1>4, <1>5, <1>6, <1>9 DEF Timer!TpRetain
<1>10. QED
  BY <1>6, <1>7, <1>8, <1>9

LEMMA ApplyStep == Inv /\ Apply => Inv'
<1> SUFFICES ASSUME Inv, Apply PROVE Inv'
  OBVIOUS
<1> PICK r : r = Head(requests)
  OBVIOUS
<1> PICK item : item = [id |-> r.id, hits |-> r.hits]
  OBVIOUS
<1>1. /\ TypeOK /\ Started' = Started /\ menu' = menu /\ tree' = tree /\ menuOf' = menuOf
      /\ holder' = holder /\ child' = child /\ front' = front /\ back' = back /\ Queue' = Queue
      /\ asked' = asked /\ held' = IF r.op = "retain" THEN held \cup {item} ELSE held
      /\ requests \in Seq(Request) /\ requests # <<>>
  BY AppliedFacts DEF Inv, Started, store, Apply, Queue, TypeOK
<1>2. /\ r = requests[1] /\ 1 \in DOMAIN requests /\ r \in Request /\ RequestOK(r)
      /\ requests' \in Seq(Request) /\ DOMAIN requests' = 1..(Len(requests) - 1)
      /\ \A i \in DOMAIN requests' : i + 1 \in DOMAIN requests /\ requests'[i] = requests[i + 1]
      /\ r.op # "cancel" => r.id \in Id /\ r.id.play \in Started
      /\ armed' \in SUBSET Id
      /\ \A id \in armed' :
           \/ r.op = "set" /\ id = r.id
           \/ ~ (r.op = "cancel" /\ id = r.id) /\ id \in armed
  BY AppliedFacts
<1>3. DOMAIN requests = 1..Len(requests) /\ Len(requests) \in Nat
  BY <1>1
<1>4. /\ item.id = r.id /\ item.hits = r.hits
      /\ r.op = "retain" => item \in Packet /\ HitsKept(item.id, item.hits)
  BY <1>2 DEF Request, RequestOK, Packet
<1>5. TypeOK'
  BY <1>1, <1>2, <1>4 DEF TypeOK
<1>6. PlaysInv'
  BY <1>1 DEF Inv, PlaysInv, UserSignals
<1>7. ItemsInv'
  <2>1. /\ \A y : SignalOK(y) <=> SignalOK(y)'
        /\ \A y : RequestOK(y) <=> RequestOK(y)'
    BY <1>1 DEF SignalOK, MenuSignalOK, ChildSignalOK, HitsKept, RequestOK
  <2>2. \A i \in DOMAIN Queue' : SignalOK(Queue'[i])
    BY <1>1 DEF Inv, ItemsInv
  <2>3. \A i \in DOMAIN requests' : RequestOK(requests'[i])
    BY <1>2 DEF Inv, ItemsInv
  <2>4. \A id \in armed' : id.play \in Started
    BY <1>2 DEF Inv, ItemsInv
  <2>5. \A y \in held' : y.id.play \in Started /\ HitsKept(y.id, y.hits)
    BY <1>1, <1>2, <1>4 DEF Inv, ItemsInv
  <2>6. IsFiniteSet(held')
    BY <1>1, FS_AddElement DEF Inv, ItemsInv
  <2>7. QED
    BY <1>1, <2>2, <2>3, <2>4, <2>5, <2>6
       DEF ItemsInv, SignalOK, MenuSignalOK, ChildSignalOK, RequestOK, HitsKept
<1>8. ASSUME NEW n \in Started PROVE PacketOf(n)' /\ RallyOf(n)'
  <2>1. PacketOf(n) /\ RallyOf(n)
    BY DEF Inv, PacketInv, RallyInv
  <2>2. Queued(n)' = Queued(n)
    BY <1>1 DEF Queued
  <2>3. \A i \in Retaining(n)' : i \in Nat /\ i # 0 /\ i + 1 \in Retaining(n)
    BY <1>2, <1>3 DEF Retaining
  <2>4. \A i \in Retaining(n) : i \in Nat /\ (i # 1 => i - 1 \in Retaining(n)')
    <3> SUFFICES ASSUME NEW i \in Retaining(n) PROVE i \in Nat /\ (i # 1 => i - 1 \in Retaining(n)')
      OBVIOUS
    <3>1. i \in 1..Len(requests) /\ requests[i].op = "retain" /\ requests[i].id.play = n
      BY <1>3 DEF Retaining
    <3>2. ASSUME i # 1 PROVE i - 1 \in DOMAIN requests' /\ requests'[i - 1] = requests[i]
      <4>1. i - 1 \in 1..(Len(requests) - 1) /\ (i - 1) + 1 = i
        BY <1>3, <3>1, <3>2
      <4>2. QED
        BY <1>2, <1>3, <4>1
    <3>3. QED
      BY <3>1, <3>2 DEF Retaining
  <2>5. CASE r.op = "retain" /\ r.id.play = n
    <3>1. 1 \in Retaining(n)
      BY <1>2, <2>5 DEF Retaining
    <3>2. Queued(n) = {} /\ Retaining(n) = {1} /\ Retained(n) = {}
      BY <2>1, <3>1 DEF PacketOf, Single
    <3>3. Retaining(n)' = {}
      <4> SUFFICES ASSUME NEW i \in Retaining(n)' PROVE FALSE
        OBVIOUS
      <4>1. i \in Nat /\ i # 0 /\ i + 1 = 1
        BY <2>3, <3>2
      <4>2. QED
        BY <4>1
    <3>4. Retained(n)' = {item}
      BY <1>1, <1>4, <2>5, <3>2 DEF Retained
    <3>5. PacketOf(n)'
      BY <2>2, <3>2, <3>3, <3>4 DEF PacketOf, Single, Somewhere
    <3>6. PingEnded(n) \/ ~PongDone(n)
      BY <2>1, <3>2 DEF RallyOf
    <3>7. RallyOf(n)'
      BY <1>1, <2>2, <3>2, <3>6 DEF RallyOf, PingEnded, PongDone
    <3>8. QED
      BY <3>5, <3>7
  <2>6. CASE ~ (r.op = "retain" /\ r.id.play = n)
    <3>1. 1 \notin Retaining(n)
      BY <1>2, <2>6 DEF Retaining
    <3>2. Retained(n)' = Retained(n)
      BY <1>1, <1>4, <2>6 DEF Retained
    <3>3. (Retaining(n)' = {} <=> Retaining(n) = {}) /\ \A i, j \in Retaining(n)' : i = j
      <4>1. Retaining(n)' = {} <=> Retaining(n) = {}
        BY <2>3, <2>4, <3>1
      <4>2. ASSUME NEW i \in Retaining(n)', NEW j \in Retaining(n)' PROVE i = j
        <5>1. i \in Nat /\ j \in Nat /\ i + 1 = j + 1
          BY <2>1, <2>3 DEF PacketOf, Single
        <5>2. QED
          BY <5>1
      <4>3. QED
        BY <4>1, <4>2
    <3>4. PacketOf(n)'
      BY <1>1, <2>1, <2>2, <3>2, <3>3 DEF PacketOf, Single, Somewhere, Over
    <3>5. RallyOf(n)'
      BY <1>1, <2>1, <2>2, <3>2, <3>3 DEF RallyOf, PingEnded, PongDone, Final
    <3>6. QED
      BY <3>4, <3>5
  <2>7. QED
    BY <2>5, <2>6
<1>9. RallyInv' /\ PacketInv'
  BY <1>1, <1>8 DEF RallyInv, PacketInv
<1>10. ReportInv' /\ VerdictInv'
  BY <1>1 DEF Inv, ReportInv, VerdictInv, Reported, DoneIn, Over
<1>11. DisarmedInv'
  <2>1. ASSUME NEW id, NEW i \in Nat, Cancelled(id, i + 1) PROVE Cancelled(id, i)'
    <3>1. PICK j \in DOMAIN requests : j > i + 1 /\ requests[j].op = "cancel" /\ requests[j].id = id
      BY <2>1 DEF Cancelled
    <3>2. j - 1 \in DOMAIN requests' /\ j - 1 > i /\ requests'[j - 1] = requests[j]
      BY <1>2, <1>3, <3>1
    <3>3. QED
      BY <3>1, <3>2 DEF Cancelled
  <2>2. ASSUME NEW id, Disarmed(id) PROVE Disarmed(id)'
    <3>1. ASSUME id \in armed' PROVE Cancelled(id, 1)
      <4>1. CASE r.op = "set" /\ r.id = id
        BY <1>2, <2>2, <4>1 DEF Disarmed
      <4>2. CASE ~ (r.op = "set" /\ r.id = id)
        <5>1. ~ (r.op = "cancel" /\ r.id = id) /\ id \in armed
          BY <1>2, <3>1, <4>2
        <5>2. PICK j \in DOMAIN requests : j > 0 /\ requests[j].op = "cancel" /\ requests[j].id = id
          BY <2>2, <5>1 DEF Disarmed, Cancelled
        <5>3. j # 1
          BY <1>2, <5>1, <5>2
        <5>4. j > 1
          BY <1>3, <5>2, <5>3
        <5>5. QED
          BY <5>2, <5>4 DEF Cancelled
      <4>3. QED
        BY <4>1, <4>2
    <3>2. id \in armed' => Cancelled(id, 0)'
      BY <2>1, <3>1
    <3>3. ASSUME NEW i \in DOMAIN requests', requests'[i].op = "set", requests'[i].id = id
          PROVE  Cancelled(id, i)'
      <4>1. i \in Nat /\ Cancelled(id, i + 1)
        BY <1>2, <1>3, <2>2, <3>3 DEF Disarmed
      <4>2. QED
        BY <2>1, <4>1
    <3>4. QED
      BY <3>2, <3>3 DEF Disarmed
  <2>3. \A y \in Id : StateOf(y)' = StateOf(y)
    BY <1>1 DEF StateOf
  <2>4. ASSUME NEW m \in Menu, menu[m] = "failed", NEW k \in Kind, NEW y,
               y = [play |-> tree[m], kind |-> k]
        PROVE  Disarmed(y)'
    BY <2>2, <2>4 DEF Inv, DisarmedInv
  <2>5. \A y \in Id : StateOf(y)' = "done" => Disarmed(y)'
    BY <2>2, <2>3 DEF Inv, DisarmedInv
  <2>6. QED
    BY <1>1, <2>4, <2>5 DEF DisarmedInv, Disarmed, Cancelled
<1>12. QED
  BY <1>5, <1>6, <1>7, <1>9, <1>10, <1>11 DEF Inv

-----------------------------------------------------------------------------
\* The invariant holds from the start, and every step keeps it.

LEMMA InvInit == Init => Inv
<1> SUFFICES ASSUME Init PROVE Inv
  OBVIOUS
<1>1. /\ front = <<>> /\ back = <<>> /\ requests = <<>> /\ armed = {} /\ held = {} /\ asked = 0
      /\ Queue = <<>> /\ MaxAsked \in Nat
  BY GameAssumption DEF Init, Queue
<1>2. Started = {} /\ UserSignals = {}
  BY <1>1 DEF Started, UserSignals, Init
<1>3. Cardinality({}) = 0 /\ 1..0 = {} /\ IsFiniteSet({})
  BY FS_EmptySet
<1>4. TypeOK
  <2>1. /\ menu \in [Menu -> {"none", "ready"} \cup Terminal] /\ tree \in [Menu -> Play \cup {0}]
        /\ \A m \in Menu : menu[m] = "none" <=> tree[m] = 0
        /\ menuOf \in [Play -> Menu \cup {None}] /\ holder \in [Play -> Kind \cup {None}]
        /\ child \in [Play -> [Kind -> {"none", "ready", "sending", "responding"} \cup Terminal]]
    BY DEF Init
  <2>2. QED
    BY <1>1, <2>1 DEF TypeOK
<1>5. PlaysInv
  BY <1>1, <1>2, <1>3 DEF Init, PlaysInv
<1>6. ItemsInv
  BY <1>1, <1>3 DEF ItemsInv
<1>7. RallyInv /\ PacketInv /\ ReportInv
  BY <1>2 DEF RallyInv, PacketInv, ReportInv
<1>8. VerdictInv
  BY <1>1 DEF Init, VerdictInv
<1>9. DisarmedInv
  BY <1>1, IdFacts DEF Init, DisarmedInv, Disarmed, StateOf
<1>10. QED
  BY <1>4, <1>5, <1>6, <1>7, <1>8, <1>9 DEF Inv

LEMMA InvDispatch == Inv /\ Dispatch => Inv'
  BY MenuIgnoresStep, MenuPlayStep, MenuCompleteStep, MenuFailsStep, ChildIgnoresStep, ReturnedStep,
     TimeoutStep, PingStartStep, PingHitStep, PingCompleteStep, PongHitStep, PongCompleteStep
     DEF Dispatch

LEMMA InvStep == Inv /\ [Next]_vars => Inv'
<1> SUFFICES ASSUME Inv, [Next]_vars PROVE Inv'
  OBVIOUS
<1>1. ASSUME NEW m \in Menu, NEW who \in Kind \cup {None}, Ask(m, "play", who) PROVE Inv'
  BY <1>1, AskStep
<1>2. ASSUME NEW m \in Menu, Ask(m, "other", None) PROVE Inv'
  BY <1>2, AskStep
<1>3. CASE Dispatch
  BY <1>3, InvDispatch
<1>4. CASE Apply
  BY <1>4, ApplyStep
<1>5. CASE Expire
  BY <1>5, ExpireStep
<1>6. ASSUME NEW x \in held, Return(x) PROVE Inv'
  BY <1>6, ReturnStep
<1>7. CASE UNCHANGED vars
  <2>1. /\ UNCHANGED <<front, back, requests, armed, held, asked>>
        /\ UNCHANGED <<menu, tree, menuOf, holder, child>> /\ Queue' = Queue /\ Started' = Started
    BY <1>7 DEF vars, store, Queue, Started
  <2>2. TypeOK' /\ PlaysInv' /\ ReportInv' /\ VerdictInv'
    BY <2>1 DEF Inv, TypeOK, PlaysInv, UserSignals, ReportInv, Reported, Over, VerdictInv, DoneIn
  <2>3. ItemsInv'
    BY <2>1 DEF Inv, ItemsInv, SignalOK, MenuSignalOK, ChildSignalOK, RequestOK, HitsKept
  <2>4. RallyInv' /\ PacketInv'
    BY <2>1 DEF Inv, RallyInv, RallyOf, PacketInv, PacketOf, Single, Somewhere, Queued, Retaining,
                Retained, PingEnded, PongDone, Final, Over
  <2>5. DisarmedInv'
    BY <2>1 DEF Inv, DisarmedInv, Disarmed, Cancelled, StateOf
  <2>6. QED
    BY <2>2, <2>3, <2>4, <2>5 DEF Inv
<1>8. QED
  BY <1>1, <1>2, <1>3, <1>4, <1>5, <1>6, <1>7 DEF Next

LEMMA InvHolds == Spec => []Inv
  BY InvInit, InvStep, PTL DEF Spec

-----------------------------------------------------------------------------
\* What it says.

\* Every variable keeps its type: only what is in a tree has a state, only timers push to the
\* front lane, no id has two timers, and no packet has more hits than Pong gives the last one.
THEOREM TypeCorrect == Spec => []TypeOK
<1>1. Inv => TypeOK
  BY DEF Inv
<1>2. QED
  BY <1>1, InvHolds, PTL

\* No signal makes a machine panic, which would end the dispatching task: whatever is taken
\* from the queue is for somebody in a tree, and for a child with a menu above it.
THEOREM DispatcherSurvives == Spec => []NobodyPanics
<1>1. ASSUME Inv PROVE NobodyPanics
  <2> SUFFICES ASSUME NEW i \in DOMAIN Queue, NEW s, s = Queue[i]
               PROVE  IF s.to \in Menu THEN s.input \in {"complete", "failed"} => tree[s.to] # 0
                      ELSE StateOf(s.to) # "none" /\ menuOf[s.to.play] # None
    BY DEF NobodyPanics
  <2>1. SignalOK(s) /\ s \in FrontSignal \cup BackSignal
    BY <1>1, QueueFacts DEF Inv, ItemsInv
  <2>2. CASE s.to \in Menu
    BY <2>1, <2>2 DEF SignalOK, MenuSignalOK
  <2>3. CASE s.to \notin Menu
    <3>1. s.to.play \in Started /\ s.to \in Id
      BY <2>1, <2>3, SignalFacts DEF SignalOK, ChildSignalOK
    <3>2. s.to.play \in Play /\ s.to.kind \in Kind /\ menuOf[s.to.play] # None
      BY <3>1, IdFacts DEF Started
    <3>3. QED
      BY <1>1, <2>3, <3>1, <3>2 DEF Inv, PlaysInv, StateOf
  <2>4. QED
    BY <2>2, <2>3
<1>2. QED
  BY <1>1, InvHolds, PTL

LEMMA OneOrNone ==
  ASSUME NEW S, \A x, y \in S : x = y
  PROVE  Cardinality(S) = IF S = {} THEN 0 ELSE 1
<1>1. CASE S = {}
  BY <1>1, FS_EmptySet
<1>2. CASE S # {}
  <2>1. PICK x : S = {x}
    BY <1>2
  <2>2. QED
    BY <1>2, <2>1, FS_Singleton
<1>3. QED
  BY <1>1, <1>2

\* The packet of a play is never in two places, and in one as long as both may still use it:
\* it is neither lost nor doubled on its way through the queue, the requests and the timer.
THEOREM PacketIsOne == Spec => []OnePacket
<1>1. ASSUME Inv PROVE OnePacket
  <2> SUFFICES ASSUME NEW n \in Started PROVE Packets(n) <= 1 /\ (~Over(n) => Packets(n) = 1)
    BY DEF OnePacket
  <2>1. Single(n) /\ (~Over(n) => Somewhere(n))
    BY <1>1 DEF Inv, PacketInv, PacketOf
  <2>2. /\ Cardinality(Queued(n)) = IF Queued(n) = {} THEN 0 ELSE 1
        /\ Cardinality(Retaining(n)) = IF Retaining(n) = {} THEN 0 ELSE 1
        /\ Cardinality(Retained(n)) = IF Retained(n) = {} THEN 0 ELSE 1
    BY <2>1, OneOrNone DEF Single
  <2>3. Packets(n) = IF Somewhere(n) THEN 1 ELSE 0
    BY <2>1, <2>2 DEF Packets, Somewhere, Single
  <2>4. QED
    BY <2>1, <2>3
<1>2. QED
  BY <1>1, InvHolds, PTL

\* A child that ends a play is heard of: its menu has ended, or a report is in the queue.
THEOREM EndsAreReported == Spec => []EndIsReported
<1>1. Inv => EndIsReported
  BY DEF Inv, ReportInv, Reported, EndIsReported
<1>2. QED
  BY <1>1, InvHolds, PTL

\* A menu that looks at a play, and no other play of that menu.
LEMMA SoloFacts ==
  ASSUME Inv, NEW m \in Menu, tree[m] # 0
  PROVE  /\ tree[m] \in Started /\ menuOf[tree[m]] = m
         /\ Solo(tree[m]) /\ menu[m] = "done" => \A k \in Kind : child[tree[m]][k] = "done"
<1>1. tree[m] \in Started /\ menuOf[tree[m]] = m
  BY GameAssumption DEF Inv, TypeOK, PlaysInv, Started
<1>2. ASSUME Solo(tree[m]), menu[m] = "done" PROVE \A k \in Kind : child[tree[m]][k] = "done"
  <2>1. PICK n \in Started : menuOf[n] = m /\ \A k \in Kind : child[n][k] = "done"
    BY <1>2 DEF Inv, VerdictInv, DoneIn
  <2>2. n = tree[m]
    BY <1>1, <1>2, <2>1 DEF Solo
  <2>3. QED
    BY <2>1, <2>2
<1>3. QED
  BY <1>1, <1>2

\* A failed menu has two failed children, and one that is done with its only play two done ones.
THEOREM VerdictsStand == Spec => []VerdictStands
<1>1. ASSUME Inv PROVE VerdictStands
  BY <1>1, SoloFacts DEF VerdictStands, Inv, VerdictInv
<1>2. QED
  BY <1>1, InvHolds, PTL

\* Once the menu of a play has ended and every request has arrived, neither child has a timer.
THEOREM TimersAreGone == Spec => []NoTimerLeftBehind
<1>1. ASSUME Inv PROVE NoTimerLeftBehind
  <2> SUFFICES ASSUME requests = <<>>, NEW n \in Play, Solo(n), menu[menuOf[n]] \in Terminal,
                      NEW id \in armed, id.play = n
               PROVE  FALSE
    BY DEF NoTimerLeftBehind
  <2>1. PICK m : m = menuOf[n]
    OBVIOUS
  <2>2. m \in Menu /\ n \in Started /\ tree[m] # 0
    BY <1>1, <2>1 DEF Solo, Started, Inv, TypeOK, PlaysInv
  <2>3. tree[m] = n
    BY <1>1, <2>1, <2>2, SoloFacts DEF Solo
  <2>4. id \in Id /\ id.play = n /\ id.kind \in Kind /\ id = [play |-> n, kind |-> id.kind]
    <3>1. id \in Id
      BY <1>1 DEF Inv, TypeOK
    <3>2. id = [play |-> id.play, kind |-> id.kind] /\ id.kind \in Kind
      BY <3>1 DEF Id
    <3>3. QED
      BY <3>1, <3>2
  <2>5. Disarmed(id)
    <3>1. CASE menu[m] = "failed"
      BY <1>1, <2>2, <2>3, <2>4, <3>1 DEF Inv, DisarmedInv
    <3>2. CASE menu[m] = "done"
      <4>1. StateOf(id) = "done"
        BY <1>1, <2>2, <2>3, <2>4, <3>2, SoloFacts DEF StateOf
      <4>2. QED
        BY <1>1, <2>4, <4>1 DEF Inv, DisarmedInv
    <3>3. QED
      BY <2>1, <3>1, <3>2 DEF Terminal
  <2>6. Cancelled(id, 0)
    BY <2>5 DEF Disarmed
  <2>7. QED
    BY <2>6 DEF Cancelled
<1>2. QED
  BY <1>1, InvHolds, PTL

\* Who is done or failed stays so, except that a menu that fails takes its whole tree with it.
THEOREM EndsAreFinal == Spec => EndIsFinal
<1> DEFINE Ends(n, k) == child[n][k] \in Terminal /\ child'[n][k] # child[n][k]
           Fails(n, k) == /\ child'[n][k] = "failed"
                          /\ menu[menuOf[n]] = "ready" /\ menu'[menuOf[n]] = "failed"
<1>1. ASSUME Inv, [Next]_vars, NEW n \in Play, NEW k \in Kind, Ends(n, k) PROVE Fails(n, k)
  <2>1. TypeOK /\ child \in [Play -> [Kind -> {"none", "ready", "sending", "responding"} \cup Terminal]]
    BY <1>1 DEF Inv, TypeOK
  <2>2. ~ UNCHANGED child
    BY <1>1
  <2>3. Dispatch
    BY <1>1, <2>2 DEF Next, vars, store, Ask, Apply, Expire, Return
  <2>4. ASSUME NEW s, s = Signal, Waiting, s.to \notin Menu, StateOf(s.to) \notin Terminal,
               NEW st, Update(s.to, st)
        PROVE  FALSE
    <3>1. s.to.play \in Play /\ s.to.kind \in Kind
      BY <1>1, <2>4, ChildTaken
    <3>2. n = s.to.play /\ k = s.to.kind
      BY <1>1, <2>1, <2>4, <3>1 DEF Update
    <3>3. QED
      BY <1>1, <2>4, <3>2 DEF StateOf
  <2>5. CASE MenuPlay
    <3>1. PICK p : p = Cardinality(Started) + 1
      OBVIOUS
    <3>2. child' = [child EXCEPT ![p] = PingAndPong]
      BY <2>5, <3>1 DEF MenuPlay, Started
    <3>3. n # p
      BY <1>1, <3>1, StartedFacts DEF Inv, PlaysInv, Terminal
    <3>4. QED
      BY <1>1, <2>1, <3>2, <3>3
  <2>6. CASE MenuFails
    <3>1. PICK s : s = Signal
      OBVIOUS
    <3>2. PICK m : m = s.to
      OBVIOUS
    <3>3. /\ Waiting /\ m \in Menu /\ menu[m] \notin Terminal /\ s.input = "failed"
          /\ menu' = [menu EXCEPT ![m] = "failed"]
          /\ child' = [child EXCEPT ![tree[m]] = [kind \in Kind |-> "failed"]]
      BY <2>6, <3>1, <3>2 DEF MenuFails, ToMenu, AllFailed
    <3>4. n = tree[m] /\ child'[n][k] = "failed"
      BY <1>1, <2>1, <3>3
    <3>5. tree[m] # 0 /\ menu[m] = "ready" /\ menu'[m] = "failed"
      BY <1>1, <2>1, <3>1, <3>2, <3>3, MenuTaken DEF MenuSignalOK, TypeOK, Terminal
    <3>6. menuOf[n] = m
      BY <1>1, <3>3, <3>4, <3>5, SoloFacts
    <3>7. QED
      BY <3>4, <3>5, <3>6
  <2>7. CASE \E kind \in Kind : Timeout(kind)
    BY <2>4, <2>7 DEF Timeout, Active, ToChild
  <2>8. CASE PingStart \/ PingComplete
    BY <2>4, <2>8 DEF PingStart, PingComplete, Active, ToChild
  <2>9. CASE PongHit \/ PongComplete
    BY <2>2, <2>4, <2>9 DEF PongHit, PongComplete, Active, ToChild
  <2>10. QED
    BY <2>2, <2>3, <2>5, <2>6, <2>7, <2>8, <2>9
       DEF Dispatch, MenuIgnores, MenuComplete, ChildIgnores, Returned, PingHit, store
<1>2. ASSUME Inv, [Next]_vars
      PROVE  [\A n \in Play, k \in Kind :
                child[n][k] \in Terminal /\ child'[n][k] # child[n][k] =>
                  /\ child'[n][k] = "failed"
                  /\ menu[menuOf[n]] = "ready" /\ menu'[menuOf[n]] = "failed"]_vars
  BY <1>1, <1>2
<1>3. QED
  BY <1>2, InvHolds, PTL DEF Spec, EndIsFinal
=============================================================================
