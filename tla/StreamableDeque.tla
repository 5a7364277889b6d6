---------------------------- MODULE StreamableDeque ----------------------------
(***************************************************************************)
(* The two-lane queue of src/queue.rs, shared by every producer of signals *)
(* or notifications and by the tasks that drain it through a Stream.       *)
(*                                                                         *)
(* A value is named by the number of the push that stored it.  A task that *)
(* polls an empty deque leaves a ReceiverNotifier behind (its Waker and an *)
(* AtomicBool it shares with the deque) and parks; a push pops the oldest  *)
(* notifier and wakes its task.  The mutex `inner` is modelled by doing    *)
(* what it guards in one action, with one exception: Drop reads the        *)
(* AtomicBool without the mutex, so the store of that flag is an action    *)
(* apart (StoreAwake) and the mutex is held while `storing` is not empty.  *)
(***************************************************************************)
EXTENDS Naturals, Sequences, FiniteSets

CONSTANTS
  Receiver,     \* the StreamReceivers of this deque
  Repollable,   \* those whose task is also woken by others (a timer, a select)
  DropPhases,   \* in which phases (see Phase) a receiver may be dropped
  MaxPush,      \* bound: how many values are ever pushed
  MaxNotifiers  \* bound: a task is woken by others only below this many notifiers

ASSUME DequeAssumption ==
  /\ IsFiniteSet(Receiver)
  /\ Receiver # {}
  /\ Repollable \subseteq Receiver
  /\ DropPhases \subseteq {"running", "waiting", "waking", "woken"}
  /\ MaxPush \in Nat
  /\ MaxNotifiers \in Nat

VARIABLES
  front,       \* RawDeque.front_values
  back,        \* RawDeque.back_values
  notifiers,   \* RawDeque.rx_notifiers
  storing,     \* the notifier popped by the holder of the mutex, until its flag is set
  awake,       \* StreamReceiver.awake: no flag, a flag not set, a flag set
  mode,        \* where the task that owns the receiver is
  notified,    \* tasks whose Waker was called since they were last polled
  pushed       \* number of values pushed so far

vars == <<front, back, notifiers, storing, awake, mode, notified, pushed>>

\* `current`: the AtomicBool of the notifier is the one in StreamReceiver.awake
\* (a later poll replaces the field and orphans the flags handed out before).
Notifier == [rx : Receiver, current : BOOLEAN]

\* Type invariant; also that `inner` is a mutex: only one holder is between its pop and its store.
TypeOK ==
  /\ front \in Seq(1..MaxPush)
  /\ back \in Seq(1..MaxPush)
  /\ notifiers \in Seq(Notifier)
  /\ storing \in SUBSET [of : Notifier, wake : BOOLEAN]
  /\ \A s, t \in storing : s = t
  /\ awake \in [Receiver -> {"none", "unset", "set"}]
  /\ mode \in [Receiver -> {"running", "parked", "handing", "gone"}]
  /\ notified \in SUBSET Receiver
  /\ pushed \in 0..MaxPush

Init ==
  /\ front = <<>>
  /\ back = <<>>
  /\ notifiers = <<>>
  /\ storing = {}
  /\ awake = [r \in Receiver |-> "none"]
  /\ mode = [r \in Receiver |-> "running"]
  /\ notified = {}
  /\ pushed = 0

-----------------------------------------------------------------------------
NoMutex == TRUE
Unlocked == storing = {}
Empty == front = <<>> /\ back = <<>>
Live(r) == mode[r] \in {"running", "parked"}

\* The executor polls a task that runs its loop, or one that parked and was woken.
Runnable(r) == mode[r] = "running" \/ (mode[r] = "parked" /\ r \in notified)

\* Where a receiver is when it is dropped.
Phase(r) ==
  CASE mode[r] = "running" -> "running"
    [] mode[r] = "parked" /\ awake[r] = "set" -> "woken"
    [] mode[r] = "parked" /\ awake[r] # "set" /\ \E s \in storing : s.of = [rx |-> r, current |-> TRUE]
         -> "waking"
    [] OTHER -> "waiting"

\* The deque keeps r's notifiers, but none of them shares r's flag any more.
Orphaned(r) ==
  [i \in DOMAIN notifiers |->
     IF notifiers[i].rx = r THEN [rx |-> r, current |-> FALSE] ELSE notifiers[i]]

NobodyToWakeOrFilled == notifiers = <<>> \/ ~Empty
NobodyToWake == notifiers = <<>>
AllNotifiers == notifiers
OtherNotifiers == Tail(notifiers)
\* RawDeque::notify_rx: the oldest notifier is popped and woken; its flag is set by StoreAwake.
NotifyRx ==
  IF NobodyToWake
  THEN UNCHANGED <<notifiers, notified, storing>>
  ELSE /\ notifiers' = OtherNotifiers
       /\ notified' = notified \cup {r \in {Head(notifiers).rx} : Live(r)}
       /\ storing' = storing \cup {[of |-> Head(notifiers), wake |-> FALSE]}

-----------------------------------------------------------------------------
\* push_front appends to the front lane.
OnTop(value) == <<value>> \o front
AtEnd(value) == Append(front, value)
PushFront ==
  /\ Unlocked /\ pushed < MaxPush
  /\ pushed' = pushed + 1
  /\ front' = AtEnd(pushed + 1)
  /\ NotifyRx
  /\ UNCHANGED <<back, awake, mode>>

PushBack ==
  /\ Unlocked /\ pushed < MaxPush
  /\ pushed' = pushed + 1
  /\ back' = Append(back, pushed + 1)
  /\ NotifyRx
  /\ UNCHANGED <<front, awake, mode>>

\* The flag of the popped notifier is set (in Drop also its task is woken) and the
\* mutex released.  The receiver sees the flag only if it still holds that AtomicBool.
StoreAwake ==
  \E s \in storing :
    /\ storing' = storing \ {s}
    /\ awake' = [awake EXCEPT ![s.of.rx] = IF s.of.current /\ @ = "unset" THEN "set" ELSE @]
    /\ notified' = IF s.wake /\ Live(s.of.rx) THEN notified \cup {s.of.rx} ELSE notified
    /\ UNCHANGED <<front, back, notifiers, mode, pushed>>

\* Remove the oldest value of the front lane, or of the back lane when that is empty.
PopOldest ==
  \/ /\ front # <<>>
     /\ front' = Tail(front)
     /\ UNCHANGED back
  \/ /\ front = <<>> /\ back # <<>>
     /\ back' = Tail(back)
     /\ UNCHANGED front

\* StreamableDeque::pop_front, called outside of any stream.
PopFront ==
  /\ Unlocked
  /\ PopOldest
  /\ UNCHANGED <<notifiers, storing, awake, mode, notified, pushed>>

\* A poll clears the wake that led to it; a wake of a running task stays for its next poll.
ConsumeWake(r) == notified' = IF mode[r] = "parked" THEN notified \ {r} ELSE notified

\* StreamReceiver::poll_next finds a value: it forgets its flag and the task goes on.
PollReady(r) ==
  /\ Unlocked /\ Runnable(r)
  /\ PopOldest
  /\ notifiers' = Orphaned(r)
  /\ awake' = [awake EXCEPT ![r] = "none"]
  /\ mode' = [mode EXCEPT ![r] = "running"]
  /\ ConsumeWake(r)
  /\ UNCHANGED <<storing, pushed>>

Unregistered(r) == Orphaned(r)
Registered(r) == Append(Orphaned(r), [rx |-> r, current |-> TRUE])
\* StreamReceiver::poll_next finds nothing: it leaves a notifier with a new flag and parks.
PollPending(r) ==
  /\ Unlocked /\ Runnable(r) /\ Empty
  /\ notifiers' = Registered(r)
  /\ awake' = [awake EXCEPT ![r] = "unset"]
  /\ mode' = [mode EXCEPT ![r] = "parked"]
  /\ ConsumeWake(r)
  /\ UNCHANGED <<front, back, storing, pushed>>

\* Something else the task waits for (the timer of a timeout, another branch) wakes it.
WakeByOther(r) ==
  /\ r \in Repollable /\ mode[r] = "parked" /\ r \notin notified
  /\ Len(notifiers) < MaxNotifiers
  /\ notified' = notified \cup {r}
  /\ UNCHANGED <<front, back, notifiers, storing, awake, mode, pushed>>

Gone(r) == "gone"
Dropped(r) == IF awake[r] = "set" THEN "handing" ELSE "gone"
\* StreamReceiver::drop, first half: take and read the flag, without the mutex.
Drop(r) ==
  /\ Live(r) /\ Phase(r) \in DropPhases
  /\ mode' = [mode EXCEPT ![r] = Dropped(r)]
  /\ awake' = [awake EXCEPT ![r] = "none"]
  /\ notifiers' = Orphaned(r)
  /\ notified' = notified \ {r}
  /\ UNCHANGED <<front, back, storing, pushed>>

\* StreamReceiver::drop, second half, for a receiver that was woken and never polled:
\* with the mutex held, the next notifier is popped, to be marked and woken by StoreAwake.
HandOver(r) ==
  /\ Unlocked /\ mode[r] = "handing"
  /\ mode' = [mode EXCEPT ![r] = "gone"]
  /\ IF notifiers = <<>>
     THEN UNCHANGED <<notifiers, storing>>
     ELSE /\ notifiers' = Tail(notifiers)
          /\ storing' = storing \cup {[of |-> Head(notifiers), wake |-> TRUE]}
  /\ UNCHANGED <<front, back, awake, notified, pushed>>

-----------------------------------------------------------------------------
Poll(r) == PollReady(r) \/ PollPending(r)

Next ==
  \/ PushFront
  \/ PushBack
  \/ PopFront
  \/ StoreAwake
  \/ \E r \in Receiver : PollReady(r)
  \/ \E r \in Receiver : PollPending(r)
  \/ \E r \in Receiver : WakeByOther(r)
  \/ \E r \in Receiver : Drop(r)
  \/ \E r \in Receiver : HandOver(r)

Spec == Init /\ [][Next]_vars

\* The mutex holder goes on, the executor polls whatever it may poll, and a consumer
\* returns from the handling of a value and polls again.
Fairness ==
  /\ WF_vars(StoreAwake)
  /\ \A r \in Receiver : WF_vars(Poll(r))
  /\ \A r \in Receiver : WF_vars(HandOver(r))

FairSpec == Spec /\ Fairness

-----------------------------------------------------------------------------
\* A receiver that only a later push or hand-over can bring back.
Idle(r) == mode[r] = "parked" /\ r \notin notified

\* The wakes on their way: tasks woken and not yet polled, wakes that a drop has taken
\* on, and wakes that a drop is passing to the next notifier.
Woken == {r \in Receiver : mode[r] = "parked" /\ r \in notified}
InHand == {r \in Receiver : mode[r] = "handing"}
Passing == {s \in storing : s.wake}

\* No lost wakeup: while values wait and some receiver lives, some receiver is going to
\* poll.  It is the receivers' only way to learn of a push (push_front, push_back, poll_next,
\* Drop): if it fails the queue stalls until the next push, although someone waits for it.
NoLostWakeup ==
  ~Empty /\ (\E r \in Receiver : Live(r)) =>
    (\E r \in Receiver : Runnable(r)) \/ InHand # {} \/ Passing # {}

\* "Push an item into the queue and notify first receiver": a push made while a live
\* receiver sleeps wakes one that sleeps (the documentation of push_front and push_back).
PushNotifiesSleeper ==
  [][pushed' # pushed /\ (\E r \in Receiver : Idle(r))
       => \E r \in Receiver : Idle(r) /\ r \in notified']_vars

\* No receiver sleeps while there is more to take than there are woken receivers: one
\* wake per value, so two values pushed together occupy two consumers (notify_rx in every push).
WorkConserving ==
  (\E r \in Receiver : Idle(r)) =>
    Len(front) + Len(back) <= Cardinality(Woken) + Cardinality(InHand) + Cardinality(Passing)

\* The notifier list does not grow with the polls: a receiver has at most one entry, and
\* has one only while it sleeps (what poll_next appends, one push or hand-over pops).
OneNotifierPerSleeper ==
  \A i, j \in DOMAIN notifiers :
    /\ notifiers[i].rx = notifiers[j].rx => i = j
    /\ Live(notifiers[i].rx) => Idle(notifiers[i].rx)

\* The deque implements the mailbox: for all the bookkeeping of wakers, values leave in
\* the promised order, each once, and (with fairness) a value that waits is taken.
Messages(lane, values) == {[lane |-> lane, stamp |-> values[i]] : i \in DOMAIN values}
Mailbox == INSTANCE PriorityMailbox WITH
  waiting <- Messages("front", front) \cup Messages("back", back),
  sent <- pushed
MailboxSafety == Mailbox!MbSafety
MailboxSpec == Mailbox!MbSpec
=============================================================================
