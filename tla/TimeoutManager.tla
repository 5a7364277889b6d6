----------------------------- MODULE TimeoutManager -----------------------------
(***************************************************************************)
(* The TimeoutManager of src/timeout.rs: an input task that applies the    *)
(* requests of an unbounded channel to the TimeoutLedger, and a tick task  *)
(* that sweeps the ledger and pushes signals to the front lane of the      *)
(* signal queue.  They share the ledger behind a mutex.                    *)
(*                                                                         *)
(* The input task holds the mutex for one request: one action.  The tick   *)
(* task reads the time BEFORE it takes the mutex, pushes every timeout     *)
(* with the mutex held and every retained item after releasing it; each    *)
(* of these is an action, since requests, consumers and the clock go on.   *)
(*                                                                         *)
(* Instants are the numbers 0..MaxTime; an instant that is missing from a  *)
(* BTreeMap of the ledger and one with an empty collection are the same.   *)
(***************************************************************************)
EXTENDS Naturals, Sequences, FiniteSets

CONSTANTS
  Id,          \* state ids
  Supporting,  \* those whose kind returns Some from Rex::timeout_input
  Returning,   \* those whose kind returns Some from Timeout::return_item
  None,        \* no instant
  Deadline,    \* the instants that requests name
  MaxTime,     \* bound: the last instant of the clock
  MaxRequests  \* bound: how many requests are ever sent

Time == 0..MaxTime

ASSUME TimeoutAssumption ==
  /\ Supporting \subseteq Id
  /\ Returning \subseteq Id
  /\ None \notin Nat
  /\ MaxTime \in Nat
  /\ MaxRequests \in Nat
  /\ Deadline \subseteq Time

VARIABLES
  clock,      \* Instant::now()
  requests,   \* the channel behind the UnboundedSender of init_inner
  sent,       \* how many requests were sent
  timers,     \* TimeoutLedger.timers: the ids to time out at an instant
  ids,        \* TimeoutLedger.ids: the instant of an id
  retainer,   \* TimeoutLedger.retainer: with the order within the Vec of an instant
  accepted,   \* how many items the ledger retained so far; the n-th has stamp n
  tick,       \* where the tick task is
  now,        \* its variable `now`
  due,        \* its first `release`: the timers taken out of the ledger
  returns,    \* its second `release`: the items taken out of the ledger
  signals     \* the front lane of the signal queue

ledger == <<timers, ids, retainer, accepted>>
tickVars == <<tick, now, due, returns>>
vars == <<clock, requests, sent, ledger, tickVars, signals>>

Request == [op : {"set", "cancel", "retain", "invalid"}, id : Id, at : Time]
Timer == [id : Id, at : Time]
Item == [id : Id, at : Time, stamp : 1..MaxRequests]
Signal == [id : Id, input : {"timeout", "item"}, of : Nat]

\* Type invariant of the ledger, the channel and the tick task's locals.
TypeOK ==
  /\ clock \in Time
  /\ requests \in Seq(Request)
  /\ sent \in 0..MaxRequests
  /\ timers \in [Time -> SUBSET Id]
  /\ ids \in [Id -> Time \cup {None}]
  /\ retainer \in SUBSET Item
  /\ accepted \in Nat
  /\ accepted + Len(requests) <= sent
  /\ tick \in {"idle", "locking", "firing", "returning"}
  /\ now \in Time
  /\ due \in SUBSET Timer
  /\ due # {} => tick = "firing"
  /\ returns \in SUBSET Item
  /\ returns # {} => tick = "returning"
  /\ signals \in Seq(Signal)

Init ==
  /\ clock = 0
  /\ requests = <<>>
  /\ sent = 0
  /\ timers = [t \in Time |-> {}]
  /\ ids = [id \in Id |-> None]
  /\ retainer = {}
  /\ accepted = 0
  /\ tick = "idle"
  /\ now = 0
  /\ due = {}
  /\ returns = {}
  /\ signals = <<>>

-----------------------------------------------------------------------------
\* The operations of the ledger.

\* An id leaves the instant that it had, and then gets the new one.
WithOldToo(id, at) == [timers EXCEPT ![at] = @ \cup {id}]
AddedThenRemoved(id, at) ==
  [t \in Time |-> IF t = ids[id] THEN timers[t] \ {id}
                  ELSE IF t = at THEN timers[t] \cup {id} ELSE timers[t]]
Moved(id, at) ==
  [t \in Time |-> IF t = at THEN timers[t] \cup {id}
                  ELSE IF t = ids[id] THEN timers[t] \ {id} ELSE timers[t]]
SetTimeout(id, at) ==
  /\ ids' = [ids EXCEPT ![id] = at]
  /\ timers' = Moved(id, at)
  /\ UNCHANGED <<retainer, accepted>>

Kept(id) == timers
Removed(id) == [t \in Time |-> IF t = ids[id] THEN timers[t] \ {id} ELSE timers[t]]
CancelTimeout(id) ==
  /\ ids' = [ids EXCEPT ![id] = None]
  /\ timers' = Removed(id)
  /\ UNCHANGED <<retainer, accepted>>

Retain(id, at) ==
  /\ accepted' = accepted + 1
  /\ retainer' = retainer \cup {[id |-> id, at |-> at, stamp |-> accepted + 1]}
  /\ UNCHANGED <<timers, ids>>

-----------------------------------------------------------------------------
\* The clock, the senders and the consumer of signals.

Advance ==
  /\ clock < MaxTime
  /\ clock' = clock + 1
  /\ UNCHANGED <<requests, sent, ledger, tickVars, signals>>

Send(request) ==
  /\ sent < MaxRequests
  /\ sent' = sent + 1
  /\ requests' = Append(requests, request)
  /\ UNCHANGED <<clock, ledger, tickVars, signals>>

TakeSignal ==
  /\ signals # <<>>
  /\ signals' = Tail(signals)
  /\ UNCHANGED <<clock, requests, sent, ledger, tickVars>>

-----------------------------------------------------------------------------
\* The input task.

Locked == tick = "firing"

Apply(request) ==
  CASE request.op = "set"    -> SetTimeout(request.id, request.at)
    [] request.op = "cancel" -> CancelTimeout(request.id)
    [] request.op = "retain" -> Retain(request.id, request.at)
    [] OTHER                 -> UNCHANGED ledger

ReceivedValid == requests # <<>> /\ Head(requests).op # "invalid"
Received == requests # <<>>
Receive ==
  /\ Received
  /\ ~Locked
  /\ requests' = Tail(requests)
  /\ Apply(Head(requests))
  /\ UNCHANGED <<clock, sent, tickVars, signals>>

-----------------------------------------------------------------------------
\* The tick task.

TickRead ==
  /\ tick = "idle"
  /\ now' = clock
  /\ tick' = "locking"
  /\ UNCHANGED <<clock, requests, sent, ledger, due, returns, signals>>

\* With the mutex: the timers before `now` move from the ledger into `release`.
FirstOverdue == {t \in Time : t < now /\ timers[t] # {} /\ \A u \in 0..(t - 1) : timers[u] = {}}
Overdue == {t \in Time : t < now}
TickLock ==
  /\ tick = "locking"
  /\ tick' = "firing"
  /\ due' = {x \in Timer : x.at \in Overdue /\ x.id \in timers[x.at]}
  /\ timers' = [t \in Time |-> IF t \in Overdue THEN {} ELSE timers[t]]
  /\ UNCHANGED <<clock, requests, sent, ids, retainer, accepted, now, returns, signals>>

PushFront(on, id, input, of) ==
  signals' = IF on THEN Append(signals, [id |-> id, input |-> input, of |-> of]) ELSE signals

\* The next of `release`: instants ascending, in any order within one HashSet.
Fire(x) ==
  /\ tick = "firing"
  /\ \A y \in due : x.at <= y.at
  /\ due' = due \ {x}
  /\ ids' = [ids EXCEPT ![x.id] = None]
  /\ PushFront(x.id \in Supporting, x.id, "timeout", now)
  /\ UNCHANGED <<clock, requests, sent, timers, retainer, accepted, tick, now, returns>>

\* The items before `now` move into the second `release`, and the mutex is dropped.
FiredOrNot == TRUE
Fired == due = {}
TickUnlock ==
  /\ tick = "firing" /\ Fired
  /\ tick' = "returning"
  /\ returns' = {x \in retainer : x.at < now}
  /\ retainer' = {x \in retainer : x.at >= now}
  /\ UNCHANGED <<clock, requests, sent, timers, ids, accepted, now, due, signals>>

\* The next of the second `release`: instants ascending, each Vec in its order.
Return(x) ==
  /\ tick = "returning"
  /\ \A y \in returns \ {x} : x.at < y.at \/ (x.at = y.at /\ x.stamp < y.stamp)
  /\ returns' = returns \ {x}
  /\ PushFront(x.id \in Returning, x.id, "item", x.stamp)
  /\ UNCHANGED <<clock, requests, sent, ledger, tick, now, due>>

TickEnd ==
  /\ tick = "returning" /\ returns = {}
  /\ tick' = "idle"
  /\ UNCHANGED <<clock, requests, sent, ledger, now, due, returns, signals>>

-----------------------------------------------------------------------------
Requests ==
  {[op |-> op, id |-> id, at |-> at] : op \in {"set", "retain"}, id \in Id, at \in Deadline}
  \cup {[op |-> op, id |-> id, at |-> 0] : op \in {"cancel", "invalid"}, id \in Id}

Tick ==
  \/ TickRead
  \/ TickLock
  \/ \E x \in due : Fire(x)
  \/ TickUnlock
  \/ \E x \in returns : Return(x)
  \/ TickEnd

Next ==
  \/ Advance
  \/ \E request \in Requests : Send(request)
  \/ TakeSignal
  \/ Receive
  \/ Tick

Spec == Init /\ [][Next]_vars

\* Time passes, the interval ticks on, and the mutex is not withheld for ever from the
\* input task (parking_lot's mutex is eventually fair), although the tick task keeps taking it.
Fairness ==
  /\ WF_vars(Advance)
  /\ WF_vars(Tick)
  /\ SF_vars(Receive)

FairSpec == Spec /\ Fairness

-----------------------------------------------------------------------------
\* The two indices agree: an id has an instant exactly if that instant, or the batch
\* being fired, has the id.  One entry too many is a timeout after its cancellation, one
\* too few is a timeout that never comes (set_timeout, cancel_timeout and the sweep).
LedgerConsistent ==
  \A id \in Id, t \in Time :
    (ids[id] = t) <=> (id \in timers[t] \/ [id |-> id, at |-> t] \in due)

\* A sweep leaves nothing overdue: when the tick task lets go of the ledger, no timer and
\* no item is left in it with an instant before the time the sweep began, not even one
\* that was requested between the reading of the time and the lock.
SweepComplete ==
  [][Locked /\ ~Locked' =>
       /\ \A id \in Id : ids'[id] # None => ids'[id] >= now
       /\ \A x \in retainer' : x.at >= now]_vars

\* The manager is a TimerService: what is in the ledger or already in the hands of the
\* tick task behaves as one timer per id and one set of items, whatever the interleaving.
Timers == INSTANCE TimerService WITH
  armed <- ids,
  held <- retainer \cup returns
TimerSafety == Timers!TsSafety

\* Without the clock the manager is a TimerPool, which is how other components see it: an id
\* has one timer or none, and what is armed or held pushes its signal in the step it ends in.
Pool == INSTANCE TimerPool WITH
  armed <- {id \in Id : ids[id] # None},
  held <- retainer \cup returns,
  WhenExpired <- [id \in Id |-> IF id \in Supporting
                                THEN {<<[id |-> id, input |-> "timeout", of |-> t]>> : t \in Time}
                                ELSE {<<>>}],
  WhenReturned <- [x \in Item |-> IF x.id \in Returning
                                  THEN <<[id |-> x.id, input |-> "item", of |-> x.stamp]>>
                                  ELSE <<>>]
PoolSafety == Pool!TpSafety

\* Every request is applied, though the tick task competes for the mutex for ever.
RequestsApplied == (requests # <<>>) ~> (requests = <<>>)

\* A timer that is armed goes off, is renewed or is cancelled.
TimersGoOff ==
  \A id \in Id, t \in Deadline : (ids[id] = t) ~> (ids[id] # t)

\* "Get all instants where `instant <= now`": what the sweep leaves in the ledger is
\* later than the time it read (the comment on the release in the tick task).
NowIsDue ==
  [][tick = "locking" /\ tick' = "firing" =>
       \A t \in Time : t <= now => timers'[t] = {}]_vars

\* "later timeouts will be on top of the stack": a pushed signal is the next one taken
\* (the comment on push_front in the tick task).
LaterOnTop ==
  [][Len(signals') > Len(signals) => Head(signals') = signals'[Len(signals')]]_vars
=============================================================================
