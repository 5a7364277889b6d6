# rex-sm in TLA+

Rex is a runtime for hierarchical state machines. State machines, one per
*kind*, take *signals* from a queue, keep their states in trees that parents and
children share, and send *notifications* to processors such as the timeout
manager and the ingress adapter, which answer with further signals.

This directory holds TLA+ modules that model the runtime, TLC configurations
that check them on small instances, and proofs (TLAPS) of what matters most for
all instances. Paths such as `queue.rs:60` are relative to `src/src/`.

1. [The system](#1-the-system)
2. [Modules and how they correspond to the code](#2-modules-and-how-they-correspond-to-the-code)
3. [Runs](#3-runs)
4. [Fairness](#4-fairness)
5. [Proofs](#5-proofs)
6. [Where the code and its documentation disagree](#6-where-the-code-and-its-documentation-disagree)
7. [What is not modelled](#7-what-is-not-modelled)
8. [Plan](#8-plan)
9. [Running it](#9-running-it)

## 1. The system

```
   users, SmContext ── signal ──▶ SignalQueue (StreamableDeque) ──▶ StateMachineManager
                                     ▲ front          ▲ back             │ process(ctx, input)
             timeouts, items ────────┘                │                  ▼
                                                      │         StateMachine ── StateStore
   TimeoutManager ◀── UnboundedSender ──┐             │                  │      (Node, Zipper)
   IngressAdapter ◀── UnboundedSender ──┤             │                  │
         │                        NotificationManager │                  │ notify
         │                              ▲             │                  ▼
         └── packets become signals ────┼─────────────┘        NotificationQueue
                                        └──────────────────── (StreamableDeque)
```

Everything runs as tasks of one tokio runtime, on several threads. The tasks
share the two queues, the trees and the timeout ledger behind parking_lot
mutexes, and the index of trees, a DashMap.

| Component | State | Operations | Talks to |
|---|---|---|---|
| **StreamableDeque** (`queue.rs`) | two lanes of values, the list of `ReceiverNotifier`s, per receiver the flag `awake` | `push_front`, `push_back`, `pop_front`, `poll_next`, `Drop` of a receiver | the wakers of the tasks that poll it |
| **TimeoutManager**, **TimeoutLedger** (`timeout.rs`) | `timers`: instant → ids, `ids`: id → instant, `retainer`: instant → items | `set_timeout`, `cancel_timeout`, `retain`; an input task, a tick task | takes notifications from its channel, pushes to the front lane of the signal queue |
| **Node**, **Zipper** (`node.rs`) | a node's children, its `descendant_keys`, its state | `insert`, `update`, `update_and_get_parent_id`, `update_all_fn`, `get`, `get_parent_id` | nobody; its caller holds the mutex of the tree |
| **StateStore** (`storage.rs`) and the tree operations of **StateMachine** (`manager.rs`) | index: id → shared tree; the trees | `get_tree`, `insert_ref`, `create_tree`, `new_child`, `update`, `update_state_and_signal`, `get_state`, `get_parent_id`, `update_all`, `remove_ref` | trees; the signal queue, for the parent |
| **NotificationQueue**, **NotificationManager** (`notification.rs`) | the queue; topic → senders | `send`, `priority_send`; one routing task | the channel of each processor |
| **StateMachineManager** (`manager.rs`) | kind → machine, the store | one dispatching task | signal queue, machines |
| **Example game** (tests of `manager.rs`) | Menu, Ping, Pong and their states | `process` of each | all of the above |
| **IngressAdapter**, **PacketRouter** (`ingress.rs`) | its ends of the packet channels | `get_id`; an inbound and an outbound task | the client's channels, signal queue, the channel of its notifications |
| **RexBuilder** (`builder.rs`) | the ingress channel, the processors and machines given so far, the timeout topic | `new`, `new_connected`, `with_np`, `with_ingress_adapter`, `with_timeout_manager`, `with_sm`, `build` | everything, once |

### What is hard, and what makes each component correct

- **StreamableDeque.** Receivers are woken through wakers they leave behind when
  they find nothing; a receiver may be polled again for other reasons, dropped
  while it waits, or dropped after it was woken. `Drop` reads the flag `awake`
  without the mutex. Correct if no wake is lost while a value waits, if there is
  one wake per value, if the list of notifiers does not grow, and if values
  leave in order, front lane first, each once.
- **TimeoutManager.** Two tasks on one ledger with two indices; the tick task
  reads the time before it has the mutex and pushes part of its results after it
  let go. Correct if the indices agree, if a timer never goes off early, twice
  or after its cancellation, if a sweep leaves nothing overdue, if items come
  back once and in order, and if every timer does go off.
- **Node and Zipper.** Insertions and updates tear the tree into pieces and put
  it together again, relying on a cache of the descendants. Correct if order and
  contents survive, if the cache is exact and if lookups answer rightly.
- **StateStore.** An operation looks its tree up, then locks it; others come in
  between. `new_child` updates the index first and the tree second, and the
  parent is signalled when the tree is unlocked already. Correct if index and
  trees agree, if the assertion in the zipper never fails, and if parents hear
  exactly what their children reported, in order.
- **NotificationManager.** A fan-out is several sends, any of which may fail
  because its processor is gone. Correct if every processor gets exactly its
  topics, each notification once, in one order in which only priority
  notifications overtake, and if nothing that was sent disappears, also when there
  is no manager yet, or never one.
- **IngressAdapter.** A stream of packets of which some have no router, no id or are
  no input, from a client that may drop its senders or its receiver at any time.
  Correct if the signals are the good packets, each once and in order, whatever
  comes in between, and if the inbound task ends with its channel, and only then.
- **A service**, as `RexBuilder` wires it. Packets and notifications may be waiting
  before the tasks are there; a machine may signal itself on the front lane before
  it answers, and may panic. Correct if answers come in the order of the packets,
  without a gap, if in the end every good packet is answered and every notification
  has reached its processors, and if a hang-up reaches the inbound task.
- **A play of the example game.** A timeout may already be in the signal queue when its machine
  cancels or renews it; a panic in a machine ends the dispatching task; a second
  `create_tree` for one id detaches the old tree. Correct if no machine panics, if
  no packet and no report to a parent is lost, if what has ended stays as it is,
  if no timer stays behind, and if every play ends.

`PROJECT.json` lists each hazard at its line with the properties that cover it.

## 2. Modules and how they correspond to the code

Each component has a detailed module and, where there is something to abstract
from, an abstract one that says what its users may rely on. The detailed one
contains the refinement mapping (`INSTANCE ... WITH`) and names the abstract
specification as a property.

| Detailed module | Abstract module | Proofs | Instance for TLC |
|---|---|---|---|
| `StreamableDeque` | `PriorityMailbox` | `StreamableDequeProofs` | `MCDeque` |
| `TimeoutManager` | `TimerService`, `TimerPool` | `TimeoutManagerProofs` | `MCTimeout` |
| `Zipper` | `StateTree` | `ZipperProofs` | `MCZipper` |
| `StateStore` | `StateForest` | `StateStoreProofs` | `MCStore` |
| `NotificationManager` (on top of `PriorityMailbox`) | – | `NotificationManagerProofs` | within `RexService` |
| `IngressAdapter` | – | `RexServiceProofs` | within `RexService` |
| `RexService` (builder, ingress, dispatcher, notifications) | – | `RexServiceProofs` | `MCService` |
| `GameRuntime` (dispatcher, game, store, timer) | – | `GameRuntimeProofs` | `MCGame` |

**StreamableDeque.** `front`, `back` and `notifiers` are the fields of
`RawDeque`; `awake[r]` and the bit `current` of a notifier together are the
`Arc<AtomicBool>` that receiver and notifier share, or no longer share once a
later poll has replaced it. `mode` and `notified` are the executor's side: what a
task is doing and whether its waker was called. `PushFront`, `PushBack`,
`PopFront`, `PollReady`, `PollPending` hold the mutex throughout and are one
action each, with one exception: `Drop` does not take the mutex to read the
flag, so the moment between a wake and the store of the flag matters, and
`StoreAwake` is a step of its own during which the mutex is held (`storing`).
`HandOver` is the part of `Drop` that does take the mutex. `WakeByOther` is a
wake that does not come from the deque (a timeout or select around the stream).
Values are named by the number of their push.

**TimeoutManager.** The fields of `TimeoutLedger` and the locals of the tick task
(`now`, both `release`s) are variables. `Receive` is a turn of the input task,
which holds the mutex for one request. The tick task is `TickRead`, `TickLock`,
`Fire` for each timeout (mutex held), `TickUnlock`, `Return` for each item (mutex
released), `TickEnd`. `HashSet` order is a free choice within an instant, the
order of a `Vec` is kept by stamps, `split_off` keeps its key in the ledger.
`Advance` is the clock, `Send` a notification, `TakeSignal` the dispatcher.
`TimerService` says what the manager does by the clock: deadlines, the order of items.
`TimerPool` is what is left without it: a set of armed ids and a set of held items, each
of which ends in one step that pushes its signal.

**Zipper.** `kids`, `keys` and `state` are the fields of every node, in the tree or
out of it. `Start` creates the zipper; `Down` is a turn of the loop of
`Zipper::by_id` (with `swap_remove`); `ActInsert` and `ActUpdate` are what
happens at the target; `Up` is `Zipper::parent`, which puts the child back and,
for an insertion, adds the key; `Panic` is the failed assertion, after which only
the fresh root is left that had been swapped in. The tree that `StateTree` sees
is the one on the path put together again (`Children`), so every traversal step
must be invisible.

**StateStore.** `index` is the DashMap; `root`, `nodes`, `parent`, `state` are the
trees behind their mutexes, whose inner life is that of `Zipper`. Every
operation is first `Look` (`get_tree`), for `new_child` then `InsertRef`
(`insert_ref`), then one `Lock...` action for all that is done with the mutex
held, and for `update_state_and_signal` `PushSignal` after it. `CreateTree` takes an
id that is new or one that has a tree, which stays behind for those in it;
`RemoveRef` takes the entry and leaves the node. Each id has an owner, the task with
its `SmContext`; a task does one operation at a time and any number of tasks
interleave. `Eager` says when a task uses an id: as soon as `has_state` is true, or
only once the call that makes the id has returned, as the example in the tests of
`manager.rs` does. A panic is a state of the task (`"panicked"` for a missing tree,
`"bug"` for the assertion in the zipper). In `StateForest` an id has a *home*, the
hierarchy that answers for it, and every operation is one step there; a reader may
be answered by a hierarchy the id has just left.

**NotificationManager.** The queue is a `PriorityMailbox`, which is what
`StreamableDeque` is shown to implement; it is there before the manager is.
`Start` is `new` and `init`; `Route` is `stream.next()` and the look-up of the
subscribers, `FanOut` one `UnboundedSender::send`, `Close` a processor whose receiver
is dropped. `subscribed` keeps the processors in the order in which they were given,
and `rest` the places in it that still have to be served. `routed` is history.

**IngressAdapter.** `packets` is what the client put into its channel, `inbound` how
far `process_inbound` has read. `ProcessInbound` is one turn of its loop: `GetId` is
`PacketRouter::get_id`, `Accepted` adds the conversion to an input, and what is not
accepted is skipped. `InboundEnds` is `recv` with `None`: the client has dropped its
senders, the channel is drained, and the adapter's own sender (`OwnSender`) has gone
with the processor that `NotificationManager::new` consumed. `ProcessOutbound` is one
turn of the outbound task. A packet is named by its number, `pushed` and `received`
are histories.

**RexService.** A service from its builder on. `WithNp`, `WithIngressAdapter`,
`WithTimeoutManager` and `WithSm` are the calls of `RexBuilder` in any order;
`BuildProcessors` and `BuildMachines` are the two halves of `build_inner`, since the
tasks spawned by the first half run before the second. `phase`, `ingress`,
`processors`, `timeoutTopic` and `machines` are the fields of the builder. A round of
the dispatcher takes the next signal (`Process`) and is one of `DropSignal` (no machine
of that kind), `Answer` (`SmContext::notify` on the topic of the adapter), `SignalSelf`
(front lane, and the answer later) or `Panic` (the task is gone). A client, users with
a `NotificationQueue`, the tasks and the builder all interleave.

**GameRuntime.** The dispatching task of `StateMachineManager` with the game of the
tests as its client, composed with the other components. These appear as what
they are shown to implement: the signal queue as its two lanes; the store as
trees on which each operation is one step (only the dispatching task touches
them); the way from `priority_send` to the input task of the `TimeoutManager` as
one queue (both lanes of it keep their order); the timer as a `TimerPool`, whose
actions it takes (`Apply`, `Expire`, `Return`). Requests take any time to arrive and
timers go off at any time after and in any order, so that nothing rests on how long the
timeouts of the game are. A retained item is a packet and for whom it is; two that are
equal cannot be retained at once, by `OnePacket`. Each input of a machine is an action
(`MenuPlay`, `MenuFails`, `PingHit`, `PongComplete`, ...) that takes the next
signal, changes states, pushes signals and sends notifications. `menu[m]` is the
state in the tree that the index has for the menu, `tree[m]` says whose tree that
is: a second `Play` makes a new one, and the children of the old go on. A packet is
named by the number of its hits (`msg` in steps of 5).

Some helpers have a twin right before them with the same parameters and a telling
name (`NoMutex` before `Unlocked`, `AnyFirst` before `First`, `LeftUntilError` before
`Left`, ...). The twin is not part of any specification: it is the helper with a
plausible mistake, and with it in place the property that `PROJECT.json` pairs it
with is violated. This shows for every checked property that it depends on the code
being as it is.

## 3. Runs

| Run | What it asks | Result |
|---|---|---|
| `deque_wakeups` | Can a wake be lost, or the order of values, when some receivers are woken by others too? Under fair polling, is whatever waits taken? | holds |
| `deque_handover` | Does the hand-over in `Drop` keep the promise of one wake per value, with a bounded list of notifiers? | holds |
| `deque_drop_waiting` | Does a push notify a receiver that sleeps although another was dropped while it waited? | **violated** |
| `deque_drop_waking` | Is a wake lost if its receiver is dropped before its flag is stored? | **violated** |
| `timeout_service` | Is the ledger consistent, are sweeps complete, is the manager a timer service and a pool of timers, is every request applied and does every timer go off? | holds |
| `timeout_now` | Is a timer whose instant is the time read released, as commented? | **violated** |
| `timeout_order` | Are later timeouts on top, as commented? | **violated** |
| `zipper_safety` | Do the traversals implement an ordered tree, with an exact cache and exact lookups? | holds |
| `notification_service` | Do good packets become signals exactly, and do answers come back in order and without a gap? Does every processor get exactly its topics, in order, whoever is gone, and is nothing dropped before there is a manager? Is every packet answered in the end, and does a hang-up end the inbound task? | holds |
| `store_safety` | Do index, trees and reports agree under concurrent tasks? Is the store an atomic forest? | holds |
| `game_plays` | Can a machine panic, a packet, report or verdict be lost, a timer stay behind, a play never end? | none of it |
| `store_eager` | Does the assertion in the zipper hold if `has_state` is trusted? | **violated** |

Every bound is a constant. Why they are enough to see what is interesting:

- *Deque* (`MaxPush` 4, three receivers, `MaxNotifiers` 4): more values than
  receivers, both lanes non-empty, several sleepers behind several notifiers,
  orphaned notifiers ahead of live ones. `MaxNotifiers` bounds only
  `WakeByOther`: each such wake can add a notifier. The violations need two
  receivers and one push.
- *Timeouts* (two ids, instants 0 to 3 with deadlines 0 and 1, three requests):
  an id set and renewed to a later, an earlier or the same instant, set and
  cancelled, two ids at one instant and at different ones, two sweeps that each
  have something to release, requests before, during and after a sweep. Deadlines
  lie below the last instant so that time can pass them; a timer at the end of
  the clock would prove nothing about liveness.
- *Zipper* (four ids, two states): every ordered tree of at most four nodes, so
  three children and chains of depth three; `swap_remove` first reorders
  siblings with three children.
- *Service* (two packets of three kinds: good, without a kind, of the right kind but no
  input; one notification of a user; two topics; a processor of a user on both, the
  adapter and the timer on one each): every order of the builder's calls, with any of
  them left out; a bad packet before, after or instead of a good one; two good packets
  under way at once, one of them on the front lane; a fan-out to two with more behind
  it; overtaking by the user; processors that close before, during and after it; a
  client that hangs up or leaves at any moment; a panic at either packet.
- *Store* (two tasks, three ids, two trees, six operations): a parent with two
  children, or a chain, or two hierarchies; an id that is created again or removed
  while another task is between its look-up and its lock. Six operations suffice to
  build a hierarchy and have two tasks work on it.
- *Game* (two menus, two signals from users, `Rally` 2): two plays at once or two
  plays of one menu, with Ping, Pong or nobody holding the packet. `Rally` is 4 in
  the tests; with 2 each machine already gets every kind of input (a first hit, a
  further hit, a last hit), and a packet is held and renewed more than once.
  Menus are alike, so users begin with the first; of the second they ask a play in which
  nobody holds the packet (`FirstThenSecond`): two menus share nothing but the lanes and
  the timer, whereas two plays of one menu, which share its verdict, are not restricted.

Deadlock is not checked in runs with bounds on pushes, requests or operations:
there the model comes to rest when its inputs are used up. (A service also comes to
rest when its client is gone.) It is checked in
`zipper_safety`, where no input is ever used up.

## 4. Fairness

- *Deque*: weak fairness of `StoreAwake` and `HandOver` (a thread inside `push` or
  `drop` goes on) and of `Poll(r)` for each receiver: the executor polls a task
  that was woken, and a consumer returns from handling a value. None of pushes,
  drops or other wakes.
- *Timeouts*: weak fairness of the clock and of the tick task; **strong** fairness
  of `Receive`, since the mutex is available to the input task again and again
  but not continuously. parking_lot's mutex is eventually fair, which is what
  strong fairness says. None of senders.
- *Service*: weak fairness of the second half of `build`, of the dispatcher, of the two
  tasks of the adapter and of the routing task: each is a loop that the executor polls
  as long as it can go on. None of the client, of users, of panics, of processors that
  end, nor of the calls before `build`. `EveryoneServed` and `PacketsAnswered` say what
  holds from some moment on; their counts are bounded, so that this is what "in the
  end" means. A panic fulfils neither by itself: `EveryoneServed` holds without the
  dispatcher, `PacketsAnswered` is about a dispatcher that lives.
- *Game*: weak fairness of what the dispatching task, the input task and the tick task
  do between them: as long as one of them can go on, some of them does. This is less
  than fairness of each, and enough, because a play uses up its hits. None of users.
  Users ask for finitely many plays, so `PlaysEnd` says that in the end no menu is left
  that still waits; none becomes ready again that has ended.

Delivery is shown for finitely many pushes. With a front lane that never runs
empty the back lane does starve; that is how `poll_next` is written.

## 5. Proofs

| Theorem | Says | Under |
|---|---|---|
| `StreamableDequeProofs!TypeCorrect`, `MailboxCorrect` | types, one holder of the mutex; the deque implements the safety of the mailbox | nothing beyond the assumptions on constants |
| `StreamableDequeProofs!NoWakeupLost`, `WorkConserved`, `NotifiersBounded` | the three properties of wakes | `HandOverOnly` |
| `TimeoutManagerProofs!TypeCorrect`, `LedgerCorrect`, `SweepCorrect`, `ServiceCorrect`, `PoolCorrect` | types, indices agree, sweeps are complete, the manager implements the timer service and the pool of timers | nothing beyond the assumptions on constants |
| `ZipperProofs!TypeCorrect`, `KeysCorrect`, `LookupsCorrect` | types; `descendant_keys` is exact at rest; lookups end and find the right node and parent | nothing beyond the assumptions on constants |
| `ZipperProofs!TreeCorrect` | the zipper implements the atomic operations of the ordered tree | nothing beyond the assumptions on constants |
| `StateStoreProofs!TypeCorrect`, `ReportsCorrect` | types, index and operations refer to trees that are there; parents hear each report once and in order | nothing beyond the assumptions on constants |
| `StateStoreProofs!IndexCorrect`, `AssertionHolds` | index and trees agree; the assertion of `Zipper::by_id` never fails | `Patient` |
| `StateStoreProofs!ForestCorrect` | the store implements the forest of single-step operations | `Patient` |
| `RexServiceProofs!TypeCorrect`, `InboundCorrect` | types; the signals of a client are its good packets in order | nothing beyond the assumptions on constants |
| `RexServiceProofs!NothingDroppedCorrect`, `FanOutCorrect`, `OvertakenCorrect` | what was sent waits or was routed once; every processor gets exactly its topics, in one order; only priority notifications overtake | nothing beyond the assumptions on constants |
| `RexServiceProofs!AnswersCorrect` | answers come in the order of the packets, without a gap | nothing beyond the assumptions on constants |
| `GameRuntimeProofs!TypeCorrect`, `DispatcherSurvives` | types; no machine panics | nothing beyond the assumptions on constants |
| `GameRuntimeProofs!PacketIsOne` | the packet of a play is in one place, and never in two | nothing beyond the assumptions on constants |
| `GameRuntimeProofs!EndsAreReported`, `VerdictsStand`, `EndsAreFinal`, `TimersAreGone` | an end is reported, verdicts agree with the children, terminal states stay, no timer stays behind | nothing beyond the assumptions on constants |

They hold for any number of receivers, ids, tasks, values, instants, operations,
packets, topics, processors, menus, plays and hits. `HandOverOnly` and `Patient` restrict the users of the
code, not the code: receivers are polled when the deque woke them and dropped while
they run or after their wake is complete; a task uses an id once the call that makes
it has returned. Both are needed: `deque_drop_waking` and `store_eager` are runs
without them, and `WorkConserving` and `OneNotifierPerSleeper` fail with
`WakeByOther`, when a receiver leaves several notifiers behind.

The arguments:

- **Deque, wakes.** `WorkConserving` counts: values waiting ≤ tasks woken + wakes
  being handed on, as long as somebody sleeps. A push adds a value and, if
  anybody sleeps, a wake; for that the sleeper must be *found*. So the invariant
  adds that every sleeper has a notifier in the list or in the hands of the mutex
  holder (`SleeperInv`), that the list has only sleepers, each once, with their
  current flag (`NotifierInv`), and that the notifier being marked belongs to a
  parked receiver (`StoringInv`). `NoLostWakeup` follows from the count.
- **Deque, order.** Values in each lane ascend (`OrderInv`), hence the head is the
  oldest message of its lane and each pop is a `Take` of the mailbox.
- **Timeouts.** `LedgerConsistent` is kept by the requests on its own, but `Fire`
  needs to know that what is due lies before `now` and that no such timer is
  left in the ledger or comes back while the mutex is held (`SweepInv`). Items
  need the order of their stamps and that an item retained *after* the mutex
  was released cannot precede one that is being returned (`ItemInv`). The
  refinement has one step per action: `Fire` is an expiry of the timer with the
  earliest deadline, `Return` a return, everything else of the tick task a
  stutter. Each step of that service, with the types of the manager, is one of the pool
  (`PoolStep`): an id with a deadline is an armed one, and only expiries and returns push.
- **Zipper, the tree** (`KidsInv`, `BelowInv`, `PathInv`). The invariant speaks of the tree
  put together again: `Children` returns the child on loan to its place, and `Below` counts
  a key for the nodes on the path, which are the ancestors that `finish_insert` has still to
  tell. In these terms `Down` and `Up` change nothing, because `push` and `swap` undo
  `swap_remove` (`SwapRemoveFacts`), and an insertion adds its key to all ancestors at once.
  That they are all is `UpPath`: the parent of a node on the path is on the path. Every node but
  the root is a child once (`KidsInv`), and a node's keys are its children and their keys, never
  itself (`BelowInv`); with `PathInv` the zipper never visits a node twice.
- **Zipper, lookups.** `Found` and `ParentId` are recursive functions, of which nothing can be
  shown by induction here. Instead each has a closed form that satisfies its equation, so it
  exists; and the set of nodes from which the walk would go wrong has none with a smallest set
  of keys, because every step down loses keys (`NoEndlessDescent`), so it is empty. That smallest
  sets exist is the library's well-foundedness of strict subsets of a finite set.
- **Store.** `IndexExact` allows an entry without a node only while a `new_child`
  is under way, so the invariant says what an operation between look-up and lock
  holds: its id was made by a call that returned and its tree is still the one in
  the index (`JobInv`, `MadeInv`), a child on its way is entered once and by one
  task only (`ChildInv`), and a tree that was not created has no nodes (`TreeInv`).
- **Store, forest.** The home of an id is the tree in the index, if the node is in it.
  An operation that was looked up earlier locks a tree that still has its node: trees
  lose no nodes as long as the assertion holds. For an update that tree is the home,
  because only the owner moves an id and the owner is busy; for a read it need not be,
  and `StateForest` allows a reader any hierarchy that has the id.
- **Store, reports** (`OwnInv`, `LastInv`). A report is saved in the step that updates the child
  and pushed in a later one. Only the task of the child does either, one operation at a time,
  and the operation keeps what it stored: so at most one report is late, it is the last, and
  the signal that is pushed is that report. Counting the signals about a child gives the
  place of each among its reports.
- **Service, fan-out** (`NmInv`). What was sent is in the queue or taken, and taken once
  (`QueueInv`). Whatever is taken while an older one waits is of the front lane and the
  other of the back lane (`OrderInv`), which carries over from pairs of taken and waiting to
  pairs of taken ones. The notification being fanned out is the last one taken and no
  processor of the rest has it (`CurrentInv`); everything else that is due to a processor
  that lives is in its channel (`UpToDate`), which is why the next append leaves no gap and
  why a processor that closes keeps a prefix. No processor is given twice (`BuildInv`):
  the adapter takes the one ingress channel, and the timer is made in `build_inner`.
- **Service, answers.** At most one signal is in the front lane, and it is about an older
  packet than all in the back lane, which ascend (`LaneInv`). So the dispatcher answers
  in the order of the packets, and what can be answered has been, or waits, or comes
  after the signal that the task died of (`AnswerInv`). Answers are all of the back lane of
  the notification queue, where nothing overtakes its like: by `OrderInv` and the fan-out
  they are in that order in the channel of the adapter (`ToldInOrder`), and without a gap,
  from which the outbound task reads on (`ReceivedInv`).

- **Game, who is there** (`PlaysInv`, `ItemsInv`). Whatever is in the queue, among the
  requests, armed or held is for a play that has started, and a started play has a menu
  with a tree. Nothing ever leaves a tree, so what arrives late arrives somewhere. That
  `MenuPlay` finds a number for its play is a count: plays that have started and signals of
  users that wait are no more than users asked for.
- **Game, the packet** (`PacketInv`, `RallyInv`). A child that takes the packet passes it on
  or has it retained, in the same step, unless the play is over. The only packet that
  a child ends with is the one with more hits than `Rally`; Pong is done exactly when that
  one is on its way to Ping (`RallyInv`). So Ping is never done before Pong, which is also
  why `complete` reaches a menu only when both are done (`VerdictInv`), and why a Pong that is
  done still has the last packet to come while Ping goes on.
- **Game, timers** (`DisarmedInv`). For a child that is done, and for the children of a menu
  that failed, every timer and every request to set one has a cancellation behind it.
  Requests keep their order, and a child that has ended sets no timer any more; so once the
  requests have arrived there is none. A child that a timeout failed is covered through its
  menu, which is why `NoTimerLeftBehind` speaks of menus that have ended.

Only model-checked: liveness, and the runs that look for a violation. The prover has no
rules for `ENABLED` and so none for fairness. Induction over data is out of its reach as
well, which is why the proofs about paths and walks go by invariants and smallest sets.

## 6. Where the code and its documentation disagree

- `queue.rs:60`: a receiver dropped while it waits leaves its notifier behind. The
  next push spends its wake on it, although it is documented to "notify first
  receiver" (`deque_drop_waiting`).
- `queue.rs:61`: `notify_rx` wakes before it stores the flag that `Drop` reads
  without the mutex. A receiver dropped in between takes its wake with it
  (`deque_drop_waking`). Storing first would close the gap.
- `timeout.rs:341`: the sweep releases instants `< now`, the comment says `<=`
  (`timeout_now`). Such a timer goes off one tick later.
- `timeout.rs:350`: the comments warn that later timeouts will be on top of the
  stack; `push_front` appends to the front lane, so they are not (`timeout_order`).
- `manager.rs:290`: `new_child` publishes the child before it is in the tree. A task
  that trusts `has_state` meanwhile fails the assertion that is commented as
  "this is a bug", and the hierarchy is lost (`store_eager`).

Two observations without a run of their own. A terminal state is commented as one
"that will no longer change" (`lib.rs:49`), but the menu sets completed children to
failed as well (`manager.rs:632`); `EndIsFinal` states what does hold. And a machine
may be failed by a timeout it has renewed in time: the renewal is still on its way
when the old timer goes off. No comment promises otherwise, and `VerdictStands`
and `PlaysEnd` show that the play still ends consistently.

## 7. What is not modelled

- `StreamableDeque::pop_back`, compiled for tests only. `TimeoutManager`'s
  `lint_instant`, which only logs.
- Inserting an id that is already in a tree: ids come from `StateId::new_rand`, and
  nothing in the crate makes a child twice. The modules name a node by its id and could
  not tell two apart. A second `create_tree` for an id is modelled.
- `update_all_fn` with a closure that calls back into the same tree: it would wait for
  its own mutex. No closure of the crate does; what runs with the mutex of a tree held
  takes no other mutex than that of a queue, and what runs with the mutex of a queue
  held takes none, so the order tree before queue has no cycle.
- The map of failures that the menu of the game keeps: it only reports.
- `get_topics` returns a slice; a topic listed twice would subscribe twice. The model
  takes it for a set. Two processors of users with one identity are left out too.
- Calls that panic in the builder (an adapter without an ingress channel, two machines of
  one kind) build nothing and are guards of their actions; `new_tree`'s assertion on a nil
  id likewise. The tick rate is the pace of the tick task, which is not modelled.
- The traits of `lib.rs` appear as constants (`New`, `Supporting`, `Returning`,
  `Reported`, `KindOf`, `Convertible`); `test_support.rs` is data.
- What follows a panic inside the game: `GameRuntime` shows that there is none. What
  follows the panic of any machine is modelled in `RexService`.
- Nothing is persisted, so there is no restart to model. Poisoning and memory order below
  the level of an atomic load or store are left out, and so is the loss of precision of
  instants.

## 8. Plan

Done, from the queues, on which everything rests, upwards: `StreamableDeque`,
`TimeoutManager`, `Zipper`, `StateStore` and their abstractions; `NotificationManager`
and `IngressAdapter`; the compositions `RexService` and `GameRuntime`; the proofs of
section 5.

What is left is what only TLC shows, the liveness properties, and the limits of section 7.

## 9. Running it

```
tlc -workers 2 -config DequeWakeups.cfg MCDeque
tlapm StreamableDequeProofs.tla
```

`PROJECT.json` names the module and configuration of every run, the source lines
of every definition, the hazards, and the theorems.
