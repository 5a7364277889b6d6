-------------------------------- MODULE GameRuntime --------------------------------
(***************************************************************************)
(* The StateMachineManager of src/manager.rs at work: one task takes       *)
(* signals from the queue and runs the machine of their kind to its end.   *)
(* The machines are those of the game in its tests: a menu that sets up a  *)
(* Ping and a Pong, which pass a packet back and forth under timeouts.     *)
(*                                                                         *)
(* The other components appear as what they are shown to implement.  The   *)
(* signal queue is its two lanes (PriorityMailbox).  A tree is touched by  *)
(* the dispatching task only, in one step (StateForest).  Requests to the  *)
(* timer, all of which go through priority_send, arrive in their order     *)
(* (NotificationManager).  The timer is a TimerPool, the TimeoutManager    *)
(* without its clock: a request takes any time to arrive, a timer any time *)
(* to go off, and nothing is assumed of how deadlines are to each other.   *)
(***************************************************************************)
EXTENDS Naturals, Sequences, FiniteSets

CONSTANTS
  Menu,     \* the ids of menus
  None,     \* no menu
  Rally,    \* how many hits a packet has when Pong completes (20 in steps of 5)
  MaxAsked  \* bound: how many signals users ever push

ASSUME GameAssumption ==
  /\ None \notin Menu
  /\ Rally \in Nat
  /\ MaxAsked \in Nat

Play == 1..MaxAsked
Kind == {"ping", "pong"}
Id == [play : Play, kind : Kind]
ASSUME MenusApart == Menu \cap Id = {}
Peer(id) == [play |-> id.play, kind |-> IF id.kind = "ping" THEN "pong" ELSE "ping"]
Terminal == {"done", "failed"}

VARIABLES
  front,     \* the front lane of the signal queue: timeouts and returned items
  back,      \* the back lane
  requests,  \* notifications on their way to the TimeoutManager
  armed,     \* the ids with a timer
  held,      \* the packets the TimeoutManager retains
  menu,      \* the state of each menu in the tree that the index has for it
  tree,      \* the play which that tree belongs to, or 0
  menuOf,    \* the menu of each play: the root above its Ping and its Pong
  holder,    \* the WhoHolds that the packet of a play carries
  child,     \* the states of Ping and Pong of each play
  asked      \* how many signals users have pushed

store == <<menu, tree, menuOf, holder, child>>
vars == <<front, back, requests, armed, held, store, asked>>

MenuSignal == [to : Menu, input : {"play", "complete", "failed", "other"}, who : Kind \cup {None}]
ChildSignal == [to : Id, input : {"start", "packet", "returned", "timeout"}, hits : 0..(Rally + 2)]
FrontSignal == {s \in ChildSignal : s.input \in {"returned", "timeout"}}
BackSignal == MenuSignal \cup {s \in ChildSignal : s.input \in {"start", "packet"}}
\* A packet that the timer retains, and for whom.
Packet == [id : Id, hits : 0..(Rally + 2)]
Request == [op : {"set", "cancel", "retain"}, id : Id \cup Menu, hits : 0..(Rally + 2)]

\* Type invariant; only timers push to the front lane, and only what is stored has a state.
TypeOK ==
  /\ front \in Seq(FrontSignal)
  /\ back \in Seq(BackSignal)
  /\ requests \in Seq(Request)
  /\ armed \in SUBSET Id
  /\ held \in SUBSET Packet
  /\ menu \in [Menu -> {"none", "ready"} \cup Terminal]
  /\ tree \in [Menu -> Play \cup {0}]
  /\ \A m \in Menu : menu[m] = "none" <=> tree[m] = 0
  /\ menuOf \in [Play -> Menu \cup {None}]
  /\ holder \in [Play -> Kind \cup {None}]
  /\ child \in [Play -> [Kind -> {"none", "ready", "sending", "responding"} \cup Terminal]]
  /\ asked \in 0..MaxAsked

Init ==
  /\ front = <<>>
  /\ back = <<>>
  /\ requests = <<>>
  /\ armed = {}
  /\ held = {}
  /\ menu = [m \in Menu |-> "none"]
  /\ tree = [m \in Menu |-> 0]
  /\ menuOf = [n \in Play |-> None]
  /\ holder = [n \in Play |-> None]
  /\ child = [n \in Play |-> [k \in Kind |-> "none"]]
  /\ asked = 0

-----------------------------------------------------------------------------
\* A user pushes a signal to a menu: Play, or an input that is not the menu's.
Ask(m, input, who) ==
  /\ asked < MaxAsked
  /\ asked' = asked + 1
  /\ back' = Append(back, [to |-> m, input |-> input, who |-> who])
  /\ UNCHANGED <<front, requests, armed, held, store>>

-----------------------------------------------------------------------------
\* The dispatching task: the next signal, and what its machine emits while processing it.

Waiting == front # <<>> \/ back # <<>>
Queue == front \o back
Signal == IF front # <<>> THEN Head(front) ELSE Head(back)

Process(pushed, notified) ==
  /\ front' = IF front # <<>> THEN Tail(front) ELSE front
  /\ back' = (IF front # <<>> THEN back ELSE Tail(back)) \o pushed
  /\ requests' = requests \o notified
  /\ UNCHANGED <<armed, held, asked>>

ToMenu == Waiting /\ Signal.to \in Menu
ToChild(kind) == Waiting /\ Signal.to \notin Menu /\ Signal.to.kind = kind

Push(id, input, hits) == <<[to |-> id, input |-> input, hits |-> hits]>>
Notify(op, id, hits) == <<[op |-> op, id |-> id, hits |-> hits]>>
Tell(id, input) == <<[to |-> menuOf[id.play], input |-> input, who |-> None]>>
Update(id, s) == child' = [child EXCEPT ![id.play][id.kind] = s]
StateOf(id) == child[id.play][id.kind]

-----------------------------------------------------------------------------
\* MenuStateMachine::process.

\* An input of another machine, or any input once the menu is done or failed, is ignored.
MenuIgnores ==
  /\ ToMenu /\ (Signal.input = "other" \/ menu[Signal.to] \in Terminal)
  /\ Process(<<>>, <<>>)
  /\ UNCHANGED store

OnlyPing == [k \in Kind |-> IF k = "ping" THEN "ready" ELSE "none"]
PingAndPong == [k \in Kind |-> "ready"]
\* A new tree with a new Ping and a new Pong; one that the menu had is left to its children.
MenuPlay ==
  LET m == Signal.to
      n == Cardinality({p \in Play : menuOf[p] # None}) + 1
  IN /\ ToMenu /\ menu[m] \notin Terminal /\ Signal.input = "play"
     /\ menu' = [menu EXCEPT ![m] = "ready"]
     /\ tree' = [tree EXCEPT ![m] = n]
     /\ menuOf' = [menuOf EXCEPT ![n] = m]
     /\ holder' = [holder EXCEPT ![n] = Signal.who]
     /\ child' = [child EXCEPT ![n] = PingAndPong]
     /\ Process(Push([play |-> n, kind |-> "ping"], "start", 0), <<>>)

MenuComplete ==
  /\ ToMenu /\ menu[Signal.to] \notin Terminal /\ Signal.input = "complete"
  /\ menu' = [menu EXCEPT ![Signal.to] = "done"]
  /\ Process(<<>>, <<>>)
  /\ UNCHANGED <<tree, menuOf, holder, child>>

Unharmed(n) == child[n]
AllFailed(n) == [k \in Kind |-> "failed"]
\* One child failed: everybody in the tree is set to failed and has its timeout cancelled.
MenuFails ==
  LET m == Signal.to
      n == tree[m]
  IN /\ ToMenu /\ menu[m] \notin Terminal /\ Signal.input = "failed"
     /\ menu' = [menu EXCEPT ![m] = "failed"]
     /\ child' = [child EXCEPT ![n] = AllFailed(n)]
     /\ Process(<<>>, Notify("cancel", [play |-> n, kind |-> "ping"], 0)
                      \o Notify("cancel", [play |-> n, kind |-> "pong"], 0)
                      \o Notify("cancel", m, 0))
     /\ UNCHANGED <<tree, menuOf, holder>>

-----------------------------------------------------------------------------
\* What PingStateMachine::process and PongStateMachine::process have in common.

ChildIgnores ==
  /\ Waiting /\ Signal.to \notin Menu /\ StateOf(Signal.to) \in Terminal
  /\ Process(<<>>, <<>>)
  /\ UNCHANGED store

ActiveAnyway(kind, input) == ToChild(kind) /\ Signal.input = input
Active(kind, input) ==
  /\ ToChild(kind)
  /\ StateOf(Signal.to) \notin Terminal
  /\ Signal.input = input

\* A packet comes in and its timeout is set anew: it is hit, and held or returned at once.
PassedAnyway(holds, id, hits) == Push(Peer(id), "packet", hits)
Passed(holds, id, hits) == IF holds THEN <<>> ELSE Push(Peer(id), "packet", hits)
Hit ==
  LET id == Signal.to
      hits == Signal.hits + 1
      holds == holder[id.play] = id.kind
  IN Process(Passed(holds, id, hits),
             Notify("set", id, 0) \o (IF holds THEN Notify("retain", id, hits) ELSE <<>>))

\* The packet that was held comes back from the timer and is returned to the peer.
Returned(kind) ==
  LET id == Signal.to
  IN /\ Active(kind, "returned")
     /\ Process(Push(Peer(id), "packet", Signal.hits), Notify("set", id, 0))
     /\ UNCHANGED store

NoReport(id) == <<>>
ReportToPeer(id) == <<[to |-> Peer(id), input |-> "failed", who |-> None]>>
Report(id) == Tell(id, "failed")
\* RecvTimeout: the machine fails, which is a FailedPing or a FailedPong for the menu.
Timeout(kind) ==
  /\ Active(kind, "timeout")
  /\ Update(Signal.to, "failed")
  /\ Process(Report(Signal.to), <<>>)
  /\ UNCHANGED <<menu, tree, menuOf, holder>>

-----------------------------------------------------------------------------
\* PingStateMachine::process.

PingStart ==
  /\ Active("ping", "start")
  /\ Update(Signal.to, "sending")
  /\ Process(Push(Peer(Signal.to), "packet", 0), <<>>)
  /\ UNCHANGED <<menu, tree, menuOf, holder>>

PingHit ==
  /\ Active("ping", "packet") /\ Signal.hits <= Rally
  /\ Hit
  /\ UNCHANGED store

CancelNothing(id) == <<>>
CancelOwn(id) == Notify("cancel", id, 0)
PingComplete ==
  /\ Active("ping", "packet") /\ Signal.hits > Rally
  /\ Update(Signal.to, "done")
  /\ Process(Tell(Signal.to, "complete"), CancelOwn(Signal.to))
  /\ UNCHANGED <<menu, tree, menuOf, holder>>

-----------------------------------------------------------------------------
\* PongStateMachine::process.

PongHit ==
  /\ Active("pong", "packet") /\ Signal.hits < Rally
  /\ IF Signal.hits = 0 THEN Update(Signal.to, "responding") ELSE UNCHANGED child
  /\ Hit
  /\ UNCHANGED <<menu, tree, menuOf, holder>>

\* The menu has no input for a Pong that is done.
PongComplete ==
  LET id == Signal.to
  IN /\ Active("pong", "packet") /\ Signal.hits >= Rally
     /\ Update(id, "done")
     /\ Process(Push(Peer(id), "packet", Signal.hits + 1), CancelOwn(id))
     /\ UNCHANGED <<menu, tree, menuOf, holder>>

-----------------------------------------------------------------------------
\* The TimeoutManager: it applies the requests, and pushes timeouts and items.

Timer == INSTANCE TimerPool WITH
  Item <- Packet,
  signals <- front,
  WhenExpired <- [id \in Id |-> {Push(id, "timeout", 0)}],
  WhenReturned <- [x \in Packet |-> Push(x.id, "returned", x.hits)]

Apply ==
  LET r == Head(requests)
  IN /\ requests # <<>>
     /\ requests' = Tail(requests)
     /\ \/ r.op = "set" /\ Timer!TpSet(r.id)
        \/ r.op = "cancel" /\ Timer!TpCancel(r.id)
        \/ r.op = "retain" /\ Timer!TpRetain([id |-> r.id, hits |-> r.hits])
     /\ UNCHANGED <<back, store, asked>>

Expire ==
  /\ \E id \in armed : Timer!TpExpire(id)
  /\ UNCHANGED <<back, requests, store, asked>>

Return(x) ==
  /\ Timer!TpReturn(x)
  /\ UNCHANGED <<back, requests, store, asked>>

-----------------------------------------------------------------------------
Dispatch ==
  \/ MenuIgnores
  \/ MenuPlay
  \/ MenuComplete
  \/ MenuFails
  \/ ChildIgnores
  \/ \E kind \in Kind : Returned(kind)
  \/ \E kind \in Kind : Timeout(kind)
  \/ PingStart
  \/ PingHit
  \/ PingComplete
  \/ PongHit
  \/ PongComplete

Next ==
  \/ \E m \in Menu, who \in Kind \cup {None} : Ask(m, "play", who)
  \/ \E m \in Menu : Ask(m, "other", None)
  \/ Dispatch
  \/ Apply
  \/ Expire
  \/ \E x \in held : Return(x)

Spec == Init /\ [][Next]_vars

\* The dispatching task and the two tasks of the TimeoutManager do not all stop while one of
\* them can go on; time passes.  That each of them goes on by itself is not needed.
Fairness == WF_vars(Dispatch \/ Apply \/ Expire \/ \E x \in held : Return(x))

FairSpec == Spec /\ Fairness

-----------------------------------------------------------------------------
Started == {n \in Play : menuOf[n] # None}
Over(n) == child[n]["ping"] \in Terminal \/ child[n]["pong"] = "failed"

\* The only play of its menu; a second one leaves the first with a menu that looks elsewhere.
Solo(n) == n \in Started /\ \A p \in Started : menuOf[p] = menuOf[n] => p = n

\* No signal ends the dispatching task: each is for an id that is in a tree by then, with a
\* parent if it is for a child, so that no unwrap or assertion of a machine panics, however
\* late a timeout, a held packet or a report comes.
NobodyPanics ==
  \A i \in DOMAIN Queue :
    LET s == Queue[i]
    IN IF s.to \in Menu THEN s.input \in {"complete", "failed"} => tree[s.to] # 0
       ELSE StateOf(s.to) # "none" /\ menuOf[s.to.play] # None

\* Where the packet of a play is: in the queue, on its way to the timer, or with the timer.
Queued(n) ==
  {i \in DOMAIN Queue : Queue[i].to \notin Menu /\ Queue[i].to.play = n /\ Queue[i].input # "timeout"}
Retaining(n) == {i \in DOMAIN requests : requests[i].op = "retain" /\ requests[i].id.play = n}
Retained(n) == {x \in held : x.id.play = n}
Packets(n) == Cardinality(Queued(n)) + Cardinality(Retaining(n)) + Cardinality(Retained(n))

\* Between queue, timer and notifications there is one packet per play as long as both may
\* still use it: none is lost when it is held, none is sent twice.
OnePacket ==
  \A n \in Started : Packets(n) <= 1 /\ (~Over(n) => Packets(n) = 1)

\* A child that ended the play is not forgotten: its menu has ended too, or is going to be told.
EndIsReported ==
  \A n \in Started : Over(n) =>
    \/ menu[menuOf[n]] \in Terminal
    \/ \E i \in DOMAIN Queue :
         Queue[i].to = menuOf[n] /\ Queue[i].input \in {"complete", "failed"}

\* The verdict of a menu is that of its children: failed with both of them, also with one
\* that was done already, and done only when both are; no late timeout changes it.
VerdictStands ==
  \A m \in Menu : tree[m] # 0 =>
    /\ menu[m] = "failed" => \A k \in Kind : child[tree[m]][k] = "failed"
    /\ menu[m] = "done" /\ Solo(tree[m]) => \A k \in Kind : child[tree[m]][k] = "done"

\* A terminal state is left only where the menu fails the whole tree, and never for one that
\* is not failed: late packets and timeouts that were cancelled too late change nothing.
EndIsFinal ==
  [][\A n \in Play, k \in Kind :
       child[n][k] \in Terminal /\ child'[n][k] # child[n][k] =>
         /\ child'[n][k] = "failed"
         /\ menu[menuOf[n]] = "ready" /\ menu'[menuOf[n]] = "failed"]_vars

\* Nobody's timer outlives the play: when the menu has ended and the requests have arrived,
\* no timer of its children is armed, whatever was renewed on the way.
NoTimerLeftBehind ==
  requests = <<>> =>
    \A n \in Play : Solo(n) /\ menu[menuOf[n]] \in Terminal =>
      \A id \in armed : id.play # n

\* Every play that begins comes to a verdict, by a completed rally or by a timeout: users ask
\* for finitely many, and in the end no menu is left that waits for its children.
PlaysEnd == <>[](\A m \in Menu : menu[m] # "ready")
=============================================================================
