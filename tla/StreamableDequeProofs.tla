------------------------- MODULE StreamableDequeProofs -------------------------
(***************************************************************************)
(* Theorems about StreamableDeque, for any receivers and any bounds.       *)
(***************************************************************************)
EXTENDS StreamableDeque, SequenceTheorems, FiniteSetTheorems, TLAPS

USE DEF NobodyToWake, OtherNotifiers, AtEnd, Registered, Dropped

-----------------------------------------------------------------------------
(* What the operations do to the list of notifiers. *)

LEMMA OrphanedType ==
  ASSUME TypeOK, NEW r \in Receiver
  PROVE  /\ Orphaned(r) \in Seq(Notifier)
         /\ DOMAIN Orphaned(r) = DOMAIN notifiers
         /\ \A i \in DOMAIN notifiers : Orphaned(r)[i].rx = notifiers[i].rx
<1>1. Len(notifiers) \in Nat /\ DOMAIN notifiers = 1..Len(notifiers)
  BY DEF TypeOK
<1>2. \A i \in DOMAIN notifiers :
        /\ Orphaned(r)[i] \in Notifier
        /\ Orphaned(r)[i].rx = notifiers[i].rx
  <2> SUFFICES ASSUME NEW i \in DOMAIN notifiers
               PROVE  /\ Orphaned(r)[i] \in Notifier
                      /\ Orphaned(r)[i].rx = notifiers[i].rx
    OBVIOUS
  <2>1. notifiers[i] \in Notifier
    BY <1>1 DEF TypeOK
  <2>2. Orphaned(r)[i] = IF notifiers[i].rx = r THEN [rx |-> r, current |-> FALSE]
                                               ELSE notifiers[i]
    BY DEF Orphaned
  <2>3. CASE notifiers[i].rx = r
    BY <2>2, <2>3 DEF Notifier
  <2>4. CASE notifiers[i].rx # r
    BY <2>1, <2>2, <2>4
  <2>5. QED
    BY <2>3, <2>4
<1>3. Orphaned(r) \in [1..Len(notifiers) -> Notifier]
  <2>1. Orphaned(r) = [i \in 1..Len(notifiers) |-> Orphaned(r)[i]]
    BY <1>1 DEF Orphaned
  <2>2. QED
    BY <1>1, <1>2, <2>1
<1>4. Orphaned(r) \in Seq(Notifier)
  BY <1>1, <1>3, SeqDef
<1>5. QED
  BY <1>2, <1>4 DEF Orphaned

LEMMA NotifyType ==
  ASSUME TypeOK, Unlocked, NotifyRx
  PROVE  /\ notifiers' \in Seq(Notifier)
         /\ storing' \in SUBSET [of : Notifier, wake : BOOLEAN]
         /\ \A s, t \in storing' : s = t
         /\ notified' \in SUBSET Receiver
<1>1. CASE notifiers = <<>>
  BY <1>1 DEF TypeOK, NotifyRx
<1>2. CASE notifiers # <<>>
  <2>1. Head(notifiers) \in Notifier /\ Tail(notifiers) \in Seq(Notifier)
    BY <1>2 DEF TypeOK
  <2>2. [of |-> Head(notifiers), wake |-> FALSE] \in [of : Notifier, wake : BOOLEAN]
    BY <2>1
  <2>3. storing' = {[of |-> Head(notifiers), wake |-> FALSE]}
    BY <1>2 DEF NotifyRx, Unlocked
  <2>4. notified' \in SUBSET Receiver
    BY <1>2, <2>1 DEF TypeOK, NotifyRx, Notifier
  <2>5. QED
    BY <1>2, <2>1, <2>2, <2>3, <2>4 DEF NotifyRx
<1>3. QED
  BY <1>1, <1>2

LEMMA PopType ==
  ASSUME TypeOK, PopOldest
  PROVE  front' \in Seq(1..MaxPush) /\ back' \in Seq(1..MaxPush)
<1>1. CASE front # <<>> /\ front' = Tail(front) /\ UNCHANGED back
  BY <1>1 DEF TypeOK
<1>2. CASE front = <<>> /\ back # <<>> /\ back' = Tail(back) /\ UNCHANGED front
  BY <1>2 DEF TypeOK
<1>3. QED
  BY <1>1, <1>2 DEF PopOldest

LEMMA TypeInit == Init => TypeOK
  BY DequeAssumption DEF Init, TypeOK

LEMMA TypeStep == TypeOK /\ [Next]_vars => TypeOK'
<1> SUFFICES ASSUME TypeOK, [Next]_vars PROVE TypeOK'
  OBVIOUS
<1>1. CASE PushFront
  <2>1. pushed' \in 0..MaxPush /\ pushed + 1 \in 1..MaxPush
    BY <1>1, DequeAssumption DEF PushFront, TypeOK
  <2>2. QED
    BY <1>1, <2>1, NotifyType DEF PushFront, TypeOK
<1>2. CASE PushBack
  <2>1. pushed' \in 0..MaxPush /\ pushed + 1 \in 1..MaxPush
    BY <1>2, DequeAssumption DEF PushBack, TypeOK
  <2>2. QED
    BY <1>2, <2>1, NotifyType DEF PushBack, TypeOK
<1>3. CASE PopFront
  BY <1>3, PopType DEF PopFront, TypeOK
<1>4. CASE StoreAwake
  BY <1>4 DEF StoreAwake, TypeOK, Notifier
<1>5. ASSUME NEW r \in Receiver, PollReady(r) PROVE TypeOK'
  BY <1>5, PopType, OrphanedType DEF PollReady, ConsumeWake, TypeOK
<1>6. ASSUME NEW r \in Receiver, PollPending(r) PROVE TypeOK'
  <2>1. [rx |-> r, current |-> TRUE] \in Notifier
    BY DEF Notifier
  <2>2. notifiers' \in Seq(Notifier)
    BY <1>6, <2>1, OrphanedType DEF PollPending
  <2>3. QED
    BY <1>6, <2>2 DEF PollPending, ConsumeWake, TypeOK
<1>7. ASSUME NEW r \in Receiver, WakeByOther(r) PROVE TypeOK'
  BY <1>7 DEF WakeByOther, TypeOK
<1>8. ASSUME NEW r \in Receiver, Drop(r) PROVE TypeOK'
  BY <1>8, OrphanedType DEF Drop, TypeOK
<1>9. ASSUME NEW r \in Receiver, HandOver(r) PROVE TypeOK'
  <2>1. CASE notifiers = <<>>
    BY <1>9, <2>1 DEF HandOver, TypeOK
  <2>2. CASE notifiers # <<>>
    <3>1. Head(notifiers) \in Notifier /\ Tail(notifiers) \in Seq(Notifier)
      BY <2>2 DEF TypeOK
    <3>2. storing' = {[of |-> Head(notifiers), wake |-> TRUE]}
      BY <1>9, <2>2 DEF HandOver, Unlocked
    <3>3. [of |-> Head(notifiers), wake |-> TRUE] \in [of : Notifier, wake : BOOLEAN]
      BY <3>1
    <3>4. mode' \in [Receiver -> {"running", "parked", "handing", "gone"}]
      BY <1>9 DEF HandOver, TypeOK
    <3>5. QED
      BY <1>9, <2>2, <3>1, <3>2, <3>3, <3>4 DEF HandOver, TypeOK
  <2>3. QED
    BY <2>1, <2>2
<1>10. CASE UNCHANGED vars
  BY <1>10 DEF vars, TypeOK
<1>11. QED
  BY <1>1, <1>2, <1>3, <1>4, <1>5, <1>6, <1>7, <1>8, <1>9, <1>10 DEF Next

(* The deque's fields keep their types and its mutex has one holder at a time. *)
THEOREM TypeCorrect == Spec => []TypeOK
  BY TypeInit, TypeStep, PTL DEF Spec

-----------------------------------------------------------------------------
(* Work conservation, for receivers that only the deque wakes and that are dropped      *)
(* either while they run or once their wake is complete.  The wakes on their way are    *)
(* counted, so the invariant says of every receiver which of them is its own.           *)

HandOverOnly ==
  /\ Repollable = {}
  /\ DropPhases \subseteq {"running", "woken"}

\* The notifiers are those of sleepers, one each, with the flag that the sleeper holds.
NotifierInv ==
  /\ \A i \in DOMAIN notifiers : Idle(notifiers[i].rx) /\ notifiers[i].current
  /\ \A i, j \in DOMAIN notifiers : notifiers[i].rx = notifiers[j].rx => i = j

\* The holder of the mutex has the notifier of a parked receiver whose flag is not set.
StoringInv ==
  \A s \in storing :
    /\ mode[s.of.rx] = "parked" /\ awake[s.of.rx] = "unset"
    /\ s.of.current
    /\ s.wake <=> s.of.rx \notin notified
    /\ \A i \in DOMAIN notifiers : notifiers[i].rx # s.of.rx

\* A sleeper can be found, and has not been marked awake.
SleeperInv ==
  \A r \in Receiver :
    /\ mode[r] = "running" => awake[r] = "none" /\ r \notin notified
    /\ Idle(r) => /\ awake[r] = "unset"
                  /\ \/ \E i \in DOMAIN notifiers : notifiers[i].rx = r
                     \/ \E s \in storing : s.of.rx = r

Inv ==
  /\ TypeOK
  /\ NotifierInv
  /\ StoringInv
  /\ SleeperInv
  /\ WorkConserving

LEMMA InvInit == Init => Inv
<1> SUFFICES ASSUME Init PROVE Inv
  OBVIOUS
<1>1. \A r \in Receiver : mode[r] = "running" /\ awake[r] = "none" /\ r \notin notified
  BY DEF Init
<1>2. NotifierInv /\ StoringInv
  BY DEF Init, NotifierInv, StoringInv
<1>3. SleeperInv /\ WorkConserving
  BY <1>1 DEF SleeperInv, WorkConserving, Idle
<1>4. QED
  BY <1>2, <1>3, TypeInit DEF Inv

LEMMA NotifierType ==
  ASSUME TypeOK
  PROVE  \A i \in DOMAIN notifiers : notifiers[i].rx \in Receiver
<1> SUFFICES ASSUME NEW i \in DOMAIN notifiers PROVE notifiers[i].rx \in Receiver
  OBVIOUS
<1>1. notifiers[i] \in Notifier
  BY DEF TypeOK
<1>2. QED
  BY <1>1 DEF Notifier

(* The head of the notifiers is that of a sleeper who has no other. *)
LEMMA HeadIsSleeper ==
  ASSUME Inv, notifiers # <<>>
  PROVE  /\ Head(notifiers) = [rx |-> Head(notifiers).rx, current |-> TRUE]
         /\ Head(notifiers).rx \in Receiver
         /\ Idle(Head(notifiers).rx)
         /\ Head(notifiers) = notifiers[1]
         /\ \A i \in DOMAIN Tail(notifiers) :
              /\ i \in Nat
              /\ i + 1 \in DOMAIN notifiers
              /\ Tail(notifiers)[i] = notifiers[i + 1]
              /\ Tail(notifiers)[i].rx # Head(notifiers).rx
         /\ \A i \in DOMAIN notifiers :
              i = 1 \/ (i - 1 \in DOMAIN Tail(notifiers)
                        /\ Tail(notifiers)[i - 1] = notifiers[i])
<1>1. /\ Len(notifiers) \in Nat \ {0} /\ DOMAIN notifiers = 1..Len(notifiers)
      /\ Head(notifiers) = notifiers[1]
      /\ DOMAIN Tail(notifiers) = 1..(Len(notifiers) - 1)
      /\ \A i \in 1..(Len(notifiers) - 1) : Tail(notifiers)[i] = notifiers[i + 1]
  BY DEF Inv, TypeOK
<1>2. notifiers[1] \in Notifier /\ 1 \in DOMAIN notifiers
  BY <1>1 DEF Inv, TypeOK
<1>3. \A i \in 1..(Len(notifiers) - 1) :
        i \in Nat /\ i + 1 \in DOMAIN notifiers /\ i + 1 # 1
  BY <1>1
<1>4. Idle(notifiers[1].rx) /\ notifiers[1].current
  BY <1>2 DEF Inv, NotifierInv
<1>5. \A i \in DOMAIN Tail(notifiers) : Tail(notifiers)[i].rx # Head(notifiers).rx
  BY <1>1, <1>2, <1>3 DEF Inv, NotifierInv
<1>6. \A i \in DOMAIN notifiers :
        i = 1 \/ (i - 1 \in DOMAIN Tail(notifiers) /\ Tail(notifiers)[i - 1] = notifiers[i])
  BY <1>1
<1>7. notifiers[1] = [rx |-> notifiers[1].rx, current |-> TRUE] /\ notifiers[1].rx \in Receiver
  BY <1>2, <1>4 DEF Notifier
<1>8. QED
  BY <1>1, <1>3, <1>4, <1>5, <1>6, <1>7

LEMMA NotOrphaned ==
  ASSUME Inv, NEW r \in Receiver, ~Idle(r)
  PROVE  Orphaned(r) = notifiers
<1>1. \A i \in DOMAIN notifiers : notifiers[i].rx # r
  BY DEF Inv, NotifierInv
<1>2. notifiers = [i \in DOMAIN notifiers |-> notifiers[i]]
  BY DEF Inv, TypeOK
<1>3. QED
  BY <1>1, <1>2 DEF Orphaned

(* What a push does: it wakes the first sleeper, or nobody sleeps. *)
LEMMA NotifyEffect ==
  ASSUME Inv, Unlocked, NotifyRx
  PROVE  \/ /\ notifiers = <<>>
            /\ UNCHANGED <<notifiers, notified, storing>>
            /\ \A r \in Receiver : ~Idle(r)
         \/ /\ notifiers # <<>>
            /\ notifiers' = Tail(notifiers)
            /\ notified' = notified \cup {Head(notifiers).rx}
            /\ storing' = {[of |-> Head(notifiers), wake |-> FALSE]}
<1>1. CASE notifiers = <<>>
  BY <1>1 DEF NotifyRx, Unlocked, Inv, SleeperInv
<1>2. CASE notifiers # <<>>
  <2>1. Live(Head(notifiers).rx)
    BY <1>2, HeadIsSleeper DEF Idle, Live
  <2>2. QED
    BY <1>2, <2>1 DEF NotifyRx, Unlocked
<1>3. QED
  BY <1>1, <1>2

(* Who is dropped: a receiver that runs, or one that was woken; neither has a notifier. *)
LEMMA DropEffect ==
  ASSUME Inv, HandOverOnly, NEW r \in Receiver, Drop(r)
  PROVE  /\ \/ mode[r] = "running" /\ mode' = [mode EXCEPT ![r] = "gone"]
            \/ mode[r] = "parked" /\ mode' = [mode EXCEPT ![r] = "handing"]
         /\ notifiers' = notifiers
         /\ ~Idle(r)
         /\ \A s \in storing : s.of.rx # r
<1>1. Phase(r) \in {"running", "woken"}
  BY DEF Drop, HandOverOnly
<1>2. \/ mode[r] = "running"
      \/ mode[r] = "parked" /\ awake[r] = "set"
  BY <1>1 DEF Phase
<1>3. ~Idle(r)
  BY <1>2 DEF Inv, SleeperInv, Idle
<1>4. mode[r] = "running" => awake[r] # "set"
  BY DEF Inv, SleeperInv
<1>5. notifiers' = notifiers
  BY <1>3, NotOrphaned DEF Drop
<1>6. \A s \in storing : s.of.rx # r
  BY <1>2 DEF Inv, StoringInv
<1>7. QED
  BY <1>2, <1>3, <1>4, <1>5, <1>6 DEF Drop

LEMMA NotifierStep == Inv /\ HandOverOnly /\ [Next]_vars => NotifierInv'
<1> SUFFICES ASSUME Inv, HandOverOnly, [Next]_vars PROVE NotifierInv'
  OBVIOUS
<1>1. CASE PushFront \/ PushBack
  <2>1. Unlocked /\ NotifyRx /\ UNCHANGED mode
    BY <1>1 DEF PushFront, PushBack
  <2>2. CASE notifiers = <<>>
    BY <2>1, <2>2, NotifyEffect DEF Inv, NotifierInv, Idle
  <2>3. CASE notifiers # <<>>
    <3>1. /\ notifiers' = Tail(notifiers)
          /\ notified' = notified \cup {Head(notifiers).rx}
      BY <2>1, <2>3, NotifyEffect
    <3>3. \A i \in DOMAIN notifiers : notifiers[i].rx \in Receiver
      BY NotifierType DEF Inv
    <3>4. ASSUME NEW i \in DOMAIN notifiers'
          PROVE  /\ Idle(notifiers[i].rx)' /\ notifiers'[i].current
                 /\ i \in Nat /\ i + 1 \in DOMAIN notifiers /\ notifiers'[i] = notifiers[i + 1]
      <4>1. /\ i \in Nat /\ i + 1 \in DOMAIN notifiers
            /\ notifiers'[i] = notifiers[i + 1]
            /\ notifiers'[i].rx # Head(notifiers).rx
        BY <2>3, <3>1, HeadIsSleeper
      <4>2. Idle(notifiers[i + 1].rx) /\ notifiers[i + 1].current
        BY <4>1 DEF Inv, NotifierInv
      <4>3. Idle(notifiers'[i].rx) /\ notifiers'[i].rx \in Receiver
        BY <3>3, <4>1, <4>2
      <4>4. Idle(notifiers[i].rx)'
        BY <2>1, <3>1, <4>1, <4>3 DEF Idle
      <4>5. QED
        BY <4>1, <4>2, <4>4
    <3>5. ASSUME NEW i \in DOMAIN notifiers', NEW j \in DOMAIN notifiers',
                 notifiers'[i].rx = notifiers'[j].rx
          PROVE  i = j
      <4>1. i \in Nat /\ j \in Nat
        BY <3>4
      <4>2. i + 1 = j + 1
        BY <3>4, <3>5 DEF Inv, NotifierInv
      <4>3. QED
        BY <4>1, <4>2
    <3>6. QED
      BY <3>4, <3>5 DEF NotifierInv
  <2>4. QED
    BY <2>2, <2>3
<1>2. CASE PopFront
  BY <1>2 DEF PopFront, Inv, NotifierInv, Idle
<1>3. CASE StoreAwake
  BY <1>3 DEF StoreAwake, Inv, NotifierInv, StoringInv, Idle
<1>4. ASSUME NEW r \in Receiver, PollReady(r) PROVE NotifierInv'
  <2>1. ~Idle(r) /\ notifiers' = notifiers
    BY <1>4, NotOrphaned DEF PollReady, Runnable, Idle
  <2>2. \A i \in DOMAIN notifiers : notifiers[i].rx # r
    BY <2>1 DEF Inv, NotifierInv
  <2>3. \A q \in Receiver : q # r => (Idle(q)' <=> Idle(q))
    BY <1>4 DEF PollReady, ConsumeWake, Idle, Inv, TypeOK
  <2>4. \A i \in DOMAIN notifiers : notifiers[i].rx \in Receiver
    BY NotifierType DEF Inv
  <2>5. QED
    BY <2>1, <2>2, <2>3, <2>4 DEF Inv, NotifierInv
<1>5. ASSUME NEW r \in Receiver, PollPending(r) PROVE NotifierInv'
  <2> DEFINE new == [rx |-> r, current |-> TRUE]
  <2>1. ~Idle(r) /\ notifiers' = Append(notifiers, new)
    BY <1>5, NotOrphaned DEF PollPending, Runnable, Idle
  <2>2. \A i \in DOMAIN notifiers : notifiers[i].rx # r /\ notifiers[i].rx \in Receiver
    BY <2>1, NotifierType DEF Inv, NotifierInv
  <2>3. \A q \in Receiver : q # r => (Idle(q)' <=> Idle(q))
    BY <1>5 DEF PollPending, ConsumeWake, Idle, Inv, TypeOK
  <2>4. Idle(r)'
    BY <1>5 DEF PollPending, ConsumeWake, Idle, Inv, SleeperInv, Runnable, TypeOK
  <2>5. \A i \in DOMAIN notifiers' :
          \/ i \in DOMAIN notifiers /\ notifiers'[i] = notifiers[i]
          \/ i = Len(notifiers) + 1 /\ notifiers'[i] = new
    BY <2>1 DEF Inv, TypeOK
  <2>6. new.rx = r /\ new.current
    OBVIOUS
  <2> HIDE DEF new
  <2>7. QED
    BY <2>2, <2>3, <2>4, <2>5, <2>6 DEF Inv, NotifierInv
<1>6. ASSUME NEW r \in Receiver, WakeByOther(r) PROVE NotifierInv'
  BY <1>6 DEF WakeByOther, HandOverOnly
<1>7. ASSUME NEW r \in Receiver, Drop(r) PROVE NotifierInv'
  <2>1. ~Idle(r) /\ notifiers' = notifiers
    BY <1>7, DropEffect
  <2>2. \A i \in DOMAIN notifiers : notifiers[i].rx # r /\ notifiers[i].rx \in Receiver
    BY <2>1, NotifierType DEF Inv, NotifierInv
  <2>3. \A q \in Receiver : q # r => (Idle(q)' <=> Idle(q))
    BY <1>7 DEF Drop, Idle, Inv, TypeOK
  <2>4. QED
    BY <2>1, <2>2, <2>3 DEF Inv, NotifierInv
<1>8. ASSUME NEW r \in Receiver, HandOver(r) PROVE NotifierInv'
  <2>1. \A q \in Receiver : Idle(q)' <=> Idle(q)
    BY <1>8 DEF HandOver, Idle, Inv, TypeOK
  <2>2. \A i \in DOMAIN notifiers : notifiers[i].rx \in Receiver
    BY NotifierType DEF Inv
  <2>3. CASE notifiers = <<>>
    BY <1>8, <2>1, <2>2, <2>3 DEF HandOver, Inv, NotifierInv
  <2>4. CASE notifiers # <<>>
    <3>1. notifiers' = Tail(notifiers)
      BY <1>8, <2>4 DEF HandOver
    <3>2. QED
      BY <2>1, <2>2, <2>4, <3>1, HeadIsSleeper DEF Inv, NotifierInv
  <2>5. QED
    BY <2>3, <2>4
<1>9. CASE UNCHANGED vars
  BY <1>9 DEF vars, Inv, NotifierInv, Idle
<1>10. QED
  BY <1>1, <1>2, <1>3, <1>4, <1>5, <1>6, <1>7, <1>8, <1>9 DEF Next

LEMMA StoringStep == Inv /\ HandOverOnly /\ [Next]_vars => StoringInv'
<1> SUFFICES ASSUME Inv, HandOverOnly, [Next]_vars PROVE StoringInv'
  OBVIOUS
<1>1. CASE PushFront \/ PushBack
  <2>1. Unlocked /\ NotifyRx /\ UNCHANGED <<mode, awake>>
    BY <1>1 DEF PushFront, PushBack
  <2>2. CASE notifiers = <<>>
    <3>1. storing' = {}
      BY <2>1, <2>2, NotifyEffect DEF Unlocked
    <3>2. QED
      BY <3>1 DEF StoringInv
  <2>3. CASE notifiers # <<>>
    <3>1. mode[Head(notifiers).rx] = "parked" /\ awake[Head(notifiers).rx] = "unset"
      BY <2>3, HeadIsSleeper DEF Idle, Inv, SleeperInv
    <3>2. Head(notifiers).current
      BY <2>3, HeadIsSleeper
    <3>3. QED
      BY <2>1, <2>3, <3>1, <3>2, NotifyEffect, HeadIsSleeper DEF StoringInv
  <2>4. QED
    BY <2>2, <2>3
<1>2. CASE PopFront
  BY <1>2 DEF PopFront, Inv, StoringInv
<1>3. CASE StoreAwake
  <2>1. storing' = {}
    BY <1>3 DEF StoreAwake, Inv, TypeOK
  <2>2. QED
    BY <2>1 DEF StoringInv
<1>4. ASSUME NEW r \in Receiver, PollReady(r) \/ PollPending(r) PROVE StoringInv'
  <2>1. storing' = {}
    BY <1>4 DEF PollReady, PollPending, Unlocked
  <2>2. QED
    BY <2>1 DEF StoringInv
<1>5. ASSUME NEW r \in Receiver, WakeByOther(r) PROVE StoringInv'
  BY <1>5 DEF WakeByOther, HandOverOnly
<1>6. ASSUME NEW r \in Receiver, Drop(r) PROVE StoringInv'
  <2>1. /\ UNCHANGED <<storing, notifiers>>
        /\ \A s \in storing : s.of.rx # r
    BY <1>6, DropEffect DEF Drop
  <2>2. ASSUME NEW s \in storing
        PROVE  /\ mode'[s.of.rx] = mode[s.of.rx]
               /\ awake'[s.of.rx] = awake[s.of.rx]
               /\ s.of.rx \in notified' <=> s.of.rx \in notified
    <3>1. s.of.rx \in Receiver /\ s.of.rx # r
      BY <2>1 DEF Inv, TypeOK, Notifier
    <3>2. QED
      BY <1>6, <3>1 DEF Drop, Inv, TypeOK
  <2>3. QED
    BY <2>1, <2>2 DEF Inv, StoringInv
<1>7. ASSUME NEW r \in Receiver, HandOver(r) PROVE StoringInv'
  <2>1. CASE notifiers = <<>>
    <3>1. storing' = {}
      BY <1>7, <2>1 DEF HandOver, Unlocked
    <3>2. QED
      BY <3>1 DEF StoringInv
  <2>2. CASE notifiers # <<>>
    <3> DEFINE h == Head(notifiers).rx
    <3>1. storing' = {[of |-> Head(notifiers), wake |-> TRUE]}
      BY <1>7, <2>2 DEF HandOver, Unlocked
    <3>2. h # r /\ h \in Receiver /\ mode[h] = "parked" /\ awake[h] = "unset" /\ h \notin notified
      BY <1>7, <2>2, HeadIsSleeper DEF HandOver, Idle, Inv, SleeperInv
    <3>3. mode'[h] = "parked" /\ awake'[h] = "unset" /\ h \notin notified'
      BY <1>7, <3>2 DEF HandOver, Inv, TypeOK
    <3>4. Head(notifiers).current /\ notifiers' = Tail(notifiers)
      BY <1>7, <2>2, HeadIsSleeper DEF HandOver
    <3>5. QED
      BY <2>2, <3>1, <3>3, <3>4, HeadIsSleeper DEF StoringInv
  <2>3. QED
    BY <2>1, <2>2
<1>8. CASE UNCHANGED vars
  BY <1>8 DEF vars, Inv, StoringInv
<1>9. QED
  BY <1>1, <1>2, <1>3, <1>4, <1>5, <1>6, <1>7, <1>8 DEF Next

LEMMA SleeperStep == Inv /\ HandOverOnly /\ [Next]_vars => SleeperInv'
<1> SUFFICES ASSUME Inv, HandOverOnly, [Next]_vars PROVE SleeperInv'
  OBVIOUS
<1>1. CASE PushFront \/ PushBack
  <2>1. Unlocked /\ NotifyRx /\ UNCHANGED <<mode, awake>>
    BY <1>1 DEF PushFront, PushBack
  <2>2. CASE notifiers = <<>>
    BY <2>1, <2>2, NotifyEffect DEF Inv, SleeperInv, Idle
  <2>3. CASE notifiers # <<>>
    <3> DEFINE h == Head(notifiers).rx
    <3>1. /\ notifiers' = Tail(notifiers) /\ notified' = notified \cup {h}
          /\ mode[h] = "parked"
      BY <2>1, <2>3, NotifyEffect, HeadIsSleeper DEF Idle
    <3>2. ASSUME NEW r \in Receiver, Idle(r)'
          PROVE  awake'[r] = "unset" /\ \E i \in DOMAIN notifiers' : notifiers'[i].rx = r
      <4>1. Idle(r) /\ r # h
        BY <2>1, <3>1, <3>2 DEF Idle
      <4>2. PICK i \in DOMAIN notifiers : notifiers[i].rx = r
        BY <2>1, <4>1 DEF Inv, SleeperInv, Unlocked
      <4>3. i # 1
        BY <2>3, <4>1, <4>2, HeadIsSleeper
      <4>4. QED
        BY <2>1, <2>3, <3>1, <4>1, <4>2, <4>3, HeadIsSleeper DEF Inv, SleeperInv
    <3>3. QED
      BY <2>1, <3>1, <3>2 DEF Inv, SleeperInv
  <2>4. QED
    BY <2>2, <2>3
<1>2. CASE PopFront
  BY <1>2 DEF PopFront, Inv, SleeperInv, Idle
<1>3. CASE StoreAwake
  <2> PICK s \in storing :
         /\ storing' = storing \ {s}
         /\ awake' = [awake EXCEPT ![s.of.rx] = IF s.of.current /\ @ = "unset" THEN "set" ELSE @]
         /\ notified' = IF s.wake /\ Live(s.of.rx) THEN notified \cup {s.of.rx} ELSE notified
         /\ UNCHANGED <<front, back, notifiers, mode, pushed>>
    BY <1>3 DEF StoreAwake
  <2>1. /\ mode[s.of.rx] = "parked" /\ s.of.rx \in notified'
        /\ \A q \in storing : q = s
    BY DEF Inv, StoringInv, Live, TypeOK
  <2> SUFFICES ASSUME NEW r \in Receiver
               PROVE  /\ mode'[r] = "running" => awake'[r] = "none" /\ r \notin notified'
                      /\ Idle(r)' => /\ awake'[r] = "unset"
                                     /\ \E i \in DOMAIN notifiers' : notifiers'[i].rx = r
    BY DEF SleeperInv
  <2>2. CASE r = s.of.rx
    BY <2>1, <2>2 DEF Idle
  <2>3. CASE r # s.of.rx
    BY <2>1, <2>3 DEF Inv, SleeperInv, TypeOK, Idle
  <2>4. QED
    BY <2>2, <2>3
<1>4. ASSUME NEW r \in Receiver, PollReady(r) PROVE SleeperInv'
  <2>1. notifiers' = notifiers /\ storing' = storing
    BY <1>4, NotOrphaned DEF PollReady, Runnable, Idle
  <2> SUFFICES ASSUME NEW q \in Receiver
               PROVE  /\ mode'[q] = "running" => awake'[q] = "none" /\ q \notin notified'
                      /\ Idle(q)' => /\ awake'[q] = "unset"
                                     /\ \/ \E i \in DOMAIN notifiers : notifiers[i].rx = q
                                        \/ \E s \in storing : s.of.rx = q
    BY <2>1 DEF SleeperInv
  <2>2. CASE q = r
    <3>1. mode'[r] = "running" /\ awake'[r] = "none"
      BY <1>4 DEF PollReady, Inv, TypeOK
    <3>2. r \notin notified'
      BY <1>4 DEF PollReady, ConsumeWake, Runnable, Inv, SleeperInv
    <3>3. QED
      BY <2>2, <3>1, <3>2 DEF Idle
  <2>3. CASE q # r
    BY <1>4, <2>3 DEF PollReady, ConsumeWake, Idle, Inv, SleeperInv, TypeOK
  <2>4. QED
    BY <2>2, <2>3
<1>5. ASSUME NEW r \in Receiver, PollPending(r) PROVE SleeperInv'
  <2> DEFINE new == [rx |-> r, current |-> TRUE]
  <2>1. notifiers' = Append(notifiers, new) /\ storing' = storing
    BY <1>5, NotOrphaned DEF PollPending, Runnable, Idle
  <2>2. /\ \A i \in DOMAIN notifiers : i \in DOMAIN notifiers' /\ notifiers'[i] = notifiers[i]
        /\ Len(notifiers) + 1 \in DOMAIN notifiers' /\ notifiers'[Len(notifiers) + 1] = new
    BY <2>1 DEF Inv, TypeOK
  <2>3. new.rx = r
    OBVIOUS
  <2> HIDE DEF new
  <2> SUFFICES ASSUME NEW q \in Receiver
               PROVE  /\ mode'[q] = "running" => awake'[q] = "none" /\ q \notin notified'
                      /\ Idle(q)' => /\ awake'[q] = "unset"
                                     /\ \/ \E i \in DOMAIN notifiers' : notifiers'[i].rx = q
                                        \/ \E s \in storing : s.of.rx = q
    BY <2>1 DEF SleeperInv
  <2>4. CASE q = r
    BY <1>5, <2>2, <2>3, <2>4 DEF PollPending, Inv, TypeOK
  <2>5. CASE q # r
    <3>1. mode'[q] = mode[q] /\ awake'[q] = awake[q] /\ (q \in notified' <=> q \in notified)
      BY <1>5, <2>5 DEF PollPending, ConsumeWake, Inv, TypeOK
    <3>2. QED
      BY <2>2, <3>1 DEF Inv, SleeperInv, Idle
  <2>6. QED
    BY <2>4, <2>5
<1>6. ASSUME NEW r \in Receiver, WakeByOther(r) PROVE SleeperInv'
  BY <1>6 DEF WakeByOther, HandOverOnly
<1>7. ASSUME NEW r \in Receiver, Drop(r) PROVE SleeperInv'
  <2>1. /\ UNCHANGED <<storing, notifiers>>
        /\ mode'[r] \in {"gone", "handing"}
    BY <1>7, DropEffect DEF Drop, Inv, TypeOK
  <2>2. ASSUME NEW q \in Receiver, q # r
        PROVE  mode'[q] = mode[q] /\ awake'[q] = awake[q] /\ (q \in notified' <=> q \in notified)
    BY <1>7, <2>2 DEF Drop, Inv, TypeOK
  <2>3. QED
    BY <2>1, <2>2 DEF Inv, SleeperInv, Idle
<1>8. ASSUME NEW r \in Receiver, HandOver(r) PROVE SleeperInv'
  <2>1. /\ UNCHANGED <<awake, notified>> /\ storing = {}
        /\ \A q \in Receiver : mode'[q] = mode[q] \/ mode'[q] = "gone"
    BY <1>8 DEF HandOver, Unlocked, Inv, TypeOK
  <2>2. ASSUME NEW q \in Receiver, Idle(q)
        PROVE  \/ \E i \in DOMAIN notifiers' : notifiers'[i].rx = q
               \/ \E s \in storing' : s.of.rx = q
    <3>1. PICK i \in DOMAIN notifiers : notifiers[i].rx = q
      BY <2>1, <2>2 DEF Inv, SleeperInv
    <3>2. notifiers # <<>>
      BY <3>1
    <3>3. /\ notifiers' = Tail(notifiers)
          /\ storing' = {[of |-> Head(notifiers), wake |-> TRUE]}
      BY <1>8, <2>1, <3>2 DEF HandOver
    <3>4. CASE i = 1
      BY <3>1, <3>2, <3>3, <3>4, HeadIsSleeper
    <3>5. CASE i # 1
      BY <3>1, <3>2, <3>3, <3>5, HeadIsSleeper
    <3>6. QED
      BY <3>4, <3>5
  <2>3. QED
    BY <2>1, <2>2 DEF Inv, SleeperInv, Idle
<1>9. CASE UNCHANGED vars
  BY <1>9 DEF vars, Inv, SleeperInv, Idle
<1>10. QED
  BY <1>1, <1>2, <1>3, <1>4, <1>5, <1>6, <1>7, <1>8, <1>9 DEF Next

(* The three counts of wakes, and of the values they are for, are numbers. *)
LEMMA Counts ==
  ASSUME TypeOK
  PROVE  /\ IsFiniteSet(Woken) /\ IsFiniteSet(InHand) /\ IsFiniteSet(Passing)
         /\ Cardinality(Woken) \in Nat /\ Cardinality(InHand) \in Nat
         /\ Cardinality(Passing) \in Nat
         /\ Len(front) \in Nat /\ Len(back) \in Nat
<1>1. IsFiniteSet(Woken) /\ IsFiniteSet(InHand)
  BY DequeAssumption, FS_Subset DEF Woken, InHand
<1>2. IsFiniteSet(Passing)
  <2>1. CASE Passing = {}
    BY <2>1, FS_EmptySet
  <2>2. CASE Passing # {}
    <3>1. PICK s \in Passing : TRUE
      BY <2>2
    <3>2. Passing = {s}
      BY <3>1 DEF TypeOK, Passing
    <3>3. QED
      BY <3>2, FS_Singleton
  <2>3. QED
    BY <2>1, <2>2
<1>3. QED
  BY <1>1, <1>2, FS_CardinalityType DEF TypeOK

CountsType ==
  /\ Cardinality(Woken) \in Nat /\ Cardinality(InHand) \in Nat
  /\ Cardinality(Passing) \in Nat
  /\ Len(front) \in Nat /\ Len(back) \in Nat

LEMMA CountsNext == TypeOK' => CountsType'
<1>1. TypeOK => CountsType
  BY Counts DEF CountsType
<1>2. QED
  BY <1>1, PTL

LEMMA PopCount ==
  ASSUME TypeOK, PopOldest
  PROVE  Len(front') + Len(back') = Len(front) + Len(back) - 1
<1>1. CASE front # <<>> /\ front' = Tail(front) /\ UNCHANGED back
  <2>1. Len(front') = Len(front) - 1
    BY <1>1 DEF TypeOK
  <2>2. QED
    BY <1>1, <2>1 DEF TypeOK
<1>2. CASE front = <<>> /\ back # <<>> /\ back' = Tail(back) /\ UNCHANGED front
  <2>1. Len(back') = Len(back) - 1
    BY <1>2 DEF TypeOK
  <2>2. QED
    BY <1>2, <2>1 DEF TypeOK
<1>3. QED
  BY <1>1, <1>2 DEF PopOldest

LEMMA WorkStep == Inv /\ HandOverOnly /\ [Next]_vars => WorkConserving'
<1> SUFFICES ASSUME Inv, HandOverOnly, [Next]_vars PROVE WorkConserving'
  OBVIOUS
<1> DEFINE Values == Len(front) + Len(back)
           Wakes == Cardinality(Woken) + Cardinality(InHand) + Cardinality(Passing)
<1> SUFFICES ASSUME NEW q \in Receiver, Idle(q)' PROVE Values' <= Wakes'
  BY DEF WorkConserving
<1>1. Values \in Nat /\ Wakes \in Nat /\ (Idle(q) => Values <= Wakes)
  BY Counts DEF Inv, WorkConserving
<1> TypeOK'
  BY TypeStep DEF Inv
<1>2. Values' \in Nat /\ Wakes' \in Nat
  BY CountsNext DEF CountsType
<1>3. CASE PushFront \/ PushBack
  <2>1. Unlocked /\ NotifyRx /\ UNCHANGED mode
    BY <1>3 DEF PushFront, PushBack
  <2>2. Values' = Values + 1
    <3>1. CASE PushFront
      <4>1. Len(front') = Len(front) + 1 /\ back' = back
        BY <3>1 DEF PushFront, Inv, TypeOK
      <4>2. QED
        BY <4>1 DEF Inv, TypeOK
    <3>2. CASE PushBack
      <4>1. Len(back') = Len(back) + 1 /\ front' = front
        BY <3>2 DEF PushBack, Inv, TypeOK
      <4>2. QED
        BY <4>1 DEF Inv, TypeOK
    <3>3. QED
      BY <1>3, <3>1, <3>2
  <2>3. Idle(q)
    BY <2>1, NotifyEffect DEF Idle
  <2> DEFINE h == Head(notifiers).rx
  <2>4. /\ notifiers # <<>>
        /\ notified' = notified \cup {h} /\ storing' = {[of |-> Head(notifiers), wake |-> FALSE]}
    BY <2>1, <2>3, NotifyEffect
  <2>5. h \in Receiver /\ Idle(h)
    BY <2>4, HeadIsSleeper
  <2>6. Woken' = Woken \cup {h} /\ h \notin Woken
    BY <2>1, <2>4, <2>5 DEF Woken, Idle
  <2>7. InHand' = InHand /\ Passing' = Passing
    BY <2>1, <2>4 DEF InHand, Passing, Unlocked
  <2>8. Cardinality(Woken') = Cardinality(Woken) + 1
    BY <2>6, Counts, FS_AddElement DEF Inv
  <2>9. QED
    BY <1>1, <2>2, <2>3, <2>7, <2>8, Counts DEF Inv
<1>4. CASE PopFront
  <2>1. Values' <= Values
    BY <1>1, <1>4, PopCount DEF PopFront, Inv
  <2>2. Wakes' = Wakes /\ Idle(q)
    BY <1>4 DEF PopFront, Woken, InHand, Passing, Idle
  <2>3. QED
    BY <1>1, <1>2, <2>1, <2>2
<1>5. CASE StoreAwake
  <2> PICK s \in storing :
         /\ storing' = storing \ {s}
         /\ notified' = IF s.wake /\ Live(s.of.rx) THEN notified \cup {s.of.rx} ELSE notified
         /\ UNCHANGED <<front, back, mode>>
    BY <1>5 DEF StoreAwake
  <2>1. /\ s.of.rx \in Receiver /\ mode[s.of.rx] = "parked" /\ s.wake \in BOOLEAN
        /\ s.wake <=> s.of.rx \notin notified
        /\ storing = {s}
    BY DEF Inv, StoringInv, TypeOK, Notifier
  <2>2. Values' = Values /\ InHand' = InHand /\ Passing' = {} /\ Idle(q)
    BY <2>1 DEF InHand, Passing, Idle
  <2>3. CASE s.wake
    <3>1. Woken' = Woken \cup {s.of.rx} /\ s.of.rx \notin Woken /\ Passing = {s}
      BY <2>1, <2>3 DEF Woken, Live, Passing
    <3>2. Cardinality(Passing) = 1 /\ Cardinality(Passing') = 0
      BY <2>2, <3>1, FS_EmptySet, FS_Singleton
    <3>3. Cardinality(Woken') = Cardinality(Woken) + 1
      BY <3>1, Counts, FS_AddElement DEF Inv
    <3>4. QED
      BY <1>1, <2>2, <3>2, <3>3, Counts DEF Inv
  <2>4. CASE ~s.wake
    <3>1. Woken' = Woken /\ Passing = {}
      BY <2>1, <2>4 DEF Woken, Passing
    <3>2. QED
      BY <1>1, <2>2, <3>1
  <2>5. QED
    BY <2>3, <2>4
<1>6. ASSUME NEW r \in Receiver, PollReady(r) PROVE Values' <= Wakes'
  <2>1. Values' = Values - 1
    BY <1>6, PopCount DEF PollReady, Inv
  <2>2. q # r /\ Idle(q)
    BY <1>6 DEF PollReady, ConsumeWake, Idle, Inv, TypeOK
  <2>3. InHand' = InHand /\ Passing' = Passing /\ Woken' = Woken \ {r}
    BY <1>6 DEF PollReady, ConsumeWake, Runnable, InHand, Passing, Woken, Inv, TypeOK
  <2>4. Cardinality(Woken') \in {Cardinality(Woken), Cardinality(Woken) - 1}
    BY <2>3, Counts, FS_RemoveElement DEF Inv
  <2>5. QED
    BY <1>1, <1>2, <2>1, <2>2, <2>3, <2>4, Counts DEF Inv
<1>7. ASSUME NEW r \in Receiver, PollPending(r) PROVE Values' <= Wakes'
  <2>1. Values' = 0
    BY <1>7 DEF PollPending, Empty
  <2>2. QED
    BY <1>2, <2>1
<1>8. ASSUME NEW r \in Receiver, WakeByOther(r) PROVE Values' <= Wakes'
  BY <1>8 DEF WakeByOther, HandOverOnly
<1>9. ASSUME NEW r \in Receiver, Drop(r) PROVE Values' <= Wakes'
  <2>1. Values' = Values /\ Passing' = Passing /\ Idle(q)
    BY <1>9 DEF Drop, Passing, Idle, Inv, TypeOK
  <2>2. CASE mode[r] = "running"
    <3>1. mode' = [mode EXCEPT ![r] = "gone"]
      BY <1>9, <2>2, DropEffect
    <3>2. InHand' = InHand /\ Woken' = Woken
      BY <1>9, <2>2, <3>1 DEF Drop, InHand, Woken, Inv, TypeOK
    <3>3. QED
      BY <1>1, <2>1, <3>2
  <2>3. CASE mode[r] # "running"
    <3>1. mode[r] = "parked" /\ mode' = [mode EXCEPT ![r] = "handing"]
      BY <1>9, <2>3, DropEffect
    <3>2. InHand' = InHand \cup {r} /\ r \notin InHand /\ Woken' = Woken \ {r}
      BY <1>9, <3>1 DEF Drop, InHand, Woken, Inv, TypeOK
    <3>3. Cardinality(InHand') = Cardinality(InHand) + 1
      BY <3>2, Counts, FS_AddElement DEF Inv
    <3>4. Cardinality(Woken') \in {Cardinality(Woken), Cardinality(Woken) - 1}
      BY <3>2, Counts, FS_RemoveElement DEF Inv
    <3>5. QED
      BY <1>1, <2>1, <3>3, <3>4, Counts DEF Inv
  <2>4. QED
    BY <2>2, <2>3
<1>10. ASSUME NEW r \in Receiver, HandOver(r) PROVE Values' <= Wakes'
  <2>1. Values' = Values /\ Woken' = Woken /\ Idle(q) /\ storing = {}
    BY <1>10 DEF HandOver, Woken, Idle, Unlocked, Inv, TypeOK
  <2>2. InHand' = InHand \ {r} /\ r \in InHand
    BY <1>10 DEF HandOver, InHand, Inv, TypeOK
  <2>3. notifiers # <<>>
    BY <2>1 DEF Inv, SleeperInv
  <2>4. Passing = {} /\ Passing' = {[of |-> Head(notifiers), wake |-> TRUE]}
    BY <1>10, <2>1, <2>3 DEF HandOver, Passing
  <2>5. Cardinality(Passing) = 0 /\ Cardinality(Passing') = 1
    BY <2>4, FS_EmptySet, FS_Singleton
  <2>6. Cardinality(InHand') = Cardinality(InHand) - 1
    BY <2>2, Counts, FS_RemoveElement DEF Inv
  <2>7. QED
    BY <1>1, <2>1, <2>5, <2>6, Counts DEF Inv
<1>11. CASE UNCHANGED vars
  BY <1>1, <1>11 DEF vars, Woken, InHand, Passing, Idle
<1>12. QED
  BY <1>3, <1>4, <1>5, <1>6, <1>7, <1>8, <1>9, <1>10, <1>11 DEF Next

LEMMA InvCorrect == HandOverOnly /\ Spec => []Inv
<1>1. Inv /\ HandOverOnly /\ [Next]_vars => Inv'
  BY TypeStep, NotifierStep, StoringStep, SleeperStep, WorkStep DEF Inv
<1>2. HandOverOnly => HandOverOnly'
  BY DEF HandOverOnly
<1>3. QED
  BY InvInit, <1>1, <1>2, PTL DEF Spec

(* No receiver sleeps while there is more to take than there are wakes on their way,     *)
(* also when a woken receiver is dropped and hands its wake over: for any receivers that *)
(* only the deque wakes and that are dropped while they run or once they were woken. *)
THEOREM WorkConserved == HandOverOnly /\ Spec => []WorkConserving
<1>1. Inv => WorkConserving
  BY DEF Inv
<1>2. QED
  BY <1>1, InvCorrect, PTL

(* Under the same conditions no wakeup is lost: while a value waits and a receiver lives,*)
(* some receiver is going to poll or a wake is on its way. *)
THEOREM NoWakeupLost == HandOverOnly /\ Spec => []NoLostWakeup
<1>1. Inv => NoLostWakeup
  <2> SUFFICES ASSUME Inv, ~Empty, NEW r \in Receiver, Live(r), InHand = {}, Passing = {}
               PROVE  \E q \in Receiver : Runnable(q)
    BY DEF NoLostWakeup
  <2>1. CASE ~Idle(r)
    BY <2>1 DEF Live, Idle, Runnable
  <2>2. CASE Idle(r)
    <3>1. Len(front) + Len(back) > 0
      BY DEF Empty, Inv, TypeOK
    <3>2. Cardinality(Woken) > 0
      BY <2>2, <3>1, Counts, FS_EmptySet DEF Inv, WorkConserving
    <3>3. PICK q \in Woken : TRUE
      BY <3>2, FS_EmptySet
    <3>4. QED
      BY <3>3 DEF Woken, Runnable
  <2>3. QED
    BY <2>1, <2>2
<1>2. QED
  BY <1>1, InvCorrect, PTL

(* Under the same conditions the list of notifiers does not grow: one for each sleeper. *)
THEOREM NotifiersBounded == HandOverOnly /\ Spec => []OneNotifierPerSleeper
<1>1. Inv => OneNotifierPerSleeper
  BY DEF Inv, NotifierInv, OneNotifierPerSleeper
<1>2. QED
  BY <1>1, InvCorrect, PTL

-----------------------------------------------------------------------------
(* StreamableDeque implements PriorityMailbox, whoever polls, sleeps or is dropped.      *)
(* Each lane holds its values in the order of the pushes. *)

Ascending(lane) ==
  /\ \A i \in DOMAIN lane : lane[i] <= pushed
  /\ \A i, j \in DOMAIN lane : i < j => lane[i] < lane[j]

OrderInv == Ascending(front) /\ Ascending(back)

LEMMA AppendAscending ==
  ASSUME NEW s \in Seq(Nat), NEW n \in Nat,
         \A i \in DOMAIN s : s[i] <= n,
         \A i, j \in DOMAIN s : i < j => s[i] < s[j]
  PROVE  LET t == Append(s, n + 1)
         IN  /\ \A i \in DOMAIN t : t[i] <= n + 1
             /\ \A i, j \in DOMAIN t : i < j => t[i] < t[j]
<1> DEFINE t == Append(s, n + 1)
<1>1. /\ Len(s) \in Nat /\ DOMAIN s = 1..Len(s) /\ DOMAIN t = 1..(Len(s) + 1)
      /\ t[Len(s) + 1] = n + 1
      /\ \A i \in DOMAIN s : t[i] = s[i] /\ s[i] \in Nat
  OBVIOUS
<1> HIDE DEF t
<1>2. \A i \in DOMAIN t : i \in DOMAIN s \/ i = Len(s) + 1
  BY <1>1
<1>3. \A i \in DOMAIN t : t[i] <= n + 1
  BY <1>1, <1>2
<1>4. \A i, j \in DOMAIN t : i < j => i \in DOMAIN s
  BY <1>1
<1>5. \A i, j \in DOMAIN t : i < j => t[i] < t[j]
  BY <1>1, <1>2, <1>4
<1>6. QED
  BY <1>3, <1>5 DEF t

LEMMA TailAscending ==
  ASSUME NEW s \in Seq(Nat), s # <<>>, NEW n \in Nat,
         \A i \in DOMAIN s : s[i] <= n,
         \A i, j \in DOMAIN s : i < j => s[i] < s[j]
  PROVE  LET t == Tail(s)
         IN  /\ \A i \in DOMAIN t : t[i] <= n
             /\ \A i, j \in DOMAIN t : i < j => t[i] < t[j]
<1> DEFINE t == Tail(s)
<1>1. \A i \in DOMAIN t : i \in Nat /\ i + 1 \in DOMAIN s /\ t[i] = s[i + 1]
  OBVIOUS
<1> HIDE DEF t
<1>2. QED
  <2>1. \A i \in DOMAIN t : t[i] <= n
    BY <1>1
  <2>2. ASSUME NEW i \in DOMAIN t, NEW j \in DOMAIN t, i < j PROVE t[i] < t[j]
    <3>1. i + 1 \in DOMAIN s /\ j + 1 \in DOMAIN s /\ i + 1 < j + 1
      BY <1>1, <2>2
    <3>2. QED
      BY <1>1, <3>1
  <2>3. QED
    BY <2>1, <2>2 DEF t

LEMMA AppendMessages ==
  ASSUME NEW s \in Seq(Nat), NEW n \in Nat, NEW lane
  PROVE  Messages(lane, Append(s, n)) = Messages(lane, s) \cup {[lane |-> lane, stamp |-> n]}
<1> DEFINE t == Append(s, n)
<1>1. /\ Len(s) \in Nat /\ DOMAIN s = 1..Len(s) /\ DOMAIN t = 1..(Len(s) + 1)
      /\ t[Len(s) + 1] = n
      /\ \A i \in DOMAIN s : t[i] = s[i]
  OBVIOUS
<1> HIDE DEF t
<1>2. DOMAIN t = DOMAIN s \cup {Len(s) + 1}
  BY <1>1
<1>3. Messages(lane, t) = Messages(lane, s) \cup {[lane |-> lane, stamp |-> n]}
  BY <1>1, <1>2 DEF Messages
<1>4. QED
  BY <1>3 DEF t

(* The head of an ascending lane is its oldest message and the only one that Tail removes. *)
LEMMA TailMessages ==
  ASSUME NEW s \in Seq(Nat), s # <<>>, NEW lane,
         \A i, j \in DOMAIN s : i < j => s[i] < s[j]
  PROVE  LET m == [lane |-> lane, stamp |-> Head(s)]
         IN  /\ m \in Messages(lane, s)
             /\ Messages(lane, Tail(s)) = Messages(lane, s) \ {m}
             /\ \A n \in Messages(lane, s) \ {m} : n.lane = lane /\ Head(s) < n.stamp
<1> DEFINE t == Tail(s)
           h == Head(s)
<1>1. /\ 1 \in DOMAIN s /\ s[1] = h
      /\ \A i \in DOMAIN s : s[i] \in Nat /\ i \in Nat
      /\ \A i \in DOMAIN t : i + 1 \in DOMAIN s /\ t[i] = s[i + 1] /\ 1 < i + 1
      /\ \A i \in DOMAIN s : i = 1 \/ (i - 1 \in DOMAIN t /\ t[i - 1] = s[i] /\ 1 < i)
  OBVIOUS
<1> HIDE DEF t, h
<1>2. \A i \in DOMAIN t : t[i] # h
  BY <1>1
<1>3. \A i \in DOMAIN s : s[i] = h \/ (h < s[i] /\ \E j \in DOMAIN t : t[j] = s[i])
  BY <1>1
<1>4. [lane |-> lane, stamp |-> h] \in Messages(lane, s)
  BY <1>1 DEF Messages
<1>5. ASSUME NEW m PROVE m \in Messages(lane, t)
                         <=> m \in Messages(lane, s) \ {[lane |-> lane, stamp |-> h]}
  <2>1. ASSUME m \in Messages(lane, t)
        PROVE  m \in Messages(lane, s) /\ m # [lane |-> lane, stamp |-> h]
    <3>1. PICK i \in DOMAIN t : m = [lane |-> lane, stamp |-> t[i]]
      BY <2>1 DEF Messages
    <3>2. t[i] # h /\ i + 1 \in DOMAIN s /\ t[i] = s[i + 1]
      BY <1>1, <1>2
    <3>3. m.stamp # h
      BY <3>1, <3>2
    <3>4. QED
      BY <3>1, <3>2, <3>3 DEF Messages
  <2>2. ASSUME m \in Messages(lane, s), m # [lane |-> lane, stamp |-> h]
        PROVE  m \in Messages(lane, t)
    <3>1. PICK i \in DOMAIN s : m = [lane |-> lane, stamp |-> s[i]]
      BY <2>2 DEF Messages
    <3>2. s[i] # h
      BY <2>2, <3>1
    <3>3. QED
      BY <1>3, <3>1, <3>2 DEF Messages
  <2>3. QED
    BY <2>1, <2>2
<1>6. \A n \in Messages(lane, s) \ {[lane |-> lane, stamp |-> h]} : n.lane = lane /\ h < n.stamp
  BY <1>3 DEF Messages
<1>7. QED
  BY <1>4, <1>5, <1>6 DEF t, h

LEMMA LaneType ==
  ASSUME TypeOK
  PROVE  front \in Seq(Nat) /\ back \in Seq(Nat) /\ pushed \in Nat
<1>1. 1..MaxPush \subseteq Nat
  OBVIOUS
<1>2. front \in Seq(Nat) /\ back \in Seq(Nat)
  BY <1>1, SeqMonotonic DEF TypeOK
<1>3. QED
  BY <1>2 DEF TypeOK

LEMMA OrderStep == TypeOK /\ OrderInv /\ [Next]_vars => OrderInv'
<1> SUFFICES ASSUME TypeOK, OrderInv, [Next]_vars PROVE OrderInv'
  OBVIOUS
<1>1. ASSUME PushFront PROVE OrderInv'
  <2>1. front' = Append(front, pushed + 1) /\ back' = back /\ pushed' = pushed + 1
    BY <1>1 DEF PushFront
  <2>2. Ascending(front)'
    BY <2>1, LaneType, AppendAscending DEF OrderInv, Ascending
  <2>3. Ascending(back)'
    BY <2>1, LaneType DEF OrderInv, Ascending
  <2>4. QED
    BY <2>2, <2>3 DEF OrderInv
<1>2. ASSUME PushBack PROVE OrderInv'
  <2>1. back' = Append(back, pushed + 1) /\ front' = front /\ pushed' = pushed + 1
    BY <1>2 DEF PushBack
  <2>2. Ascending(back)'
    BY <2>1, LaneType, AppendAscending DEF OrderInv, Ascending
  <2>3. Ascending(front)'
    BY <2>1, LaneType DEF OrderInv, Ascending
  <2>4. QED
    BY <2>2, <2>3 DEF OrderInv
<1>3. ASSUME PopOldest, UNCHANGED pushed PROVE OrderInv'
  <2>1. CASE front # <<>> /\ front' = Tail(front) /\ UNCHANGED back
    BY <1>3, <2>1, LaneType, TailAscending DEF OrderInv, Ascending
  <2>2. CASE front = <<>> /\ back # <<>> /\ back' = Tail(back) /\ UNCHANGED front
    BY <1>3, <2>2, LaneType, TailAscending DEF OrderInv, Ascending
  <2>3. QED
    BY <1>3, <2>1, <2>2 DEF PopOldest
<1>4. CASE UNCHANGED <<front, back, pushed>>
  BY <1>4 DEF OrderInv, Ascending
<1>5. QED
  BY <1>1, <1>2, <1>3, <1>4
     DEF Next, vars, PopFront, StoreAwake, PollReady, PollPending, WakeByOther, Drop, HandOver

LEMMA MailboxTake ==
  ASSUME TypeOK, OrderInv, PopOldest, UNCHANGED pushed
  PROVE  Mailbox!Take
<1> DEFINE waiting == Messages("front", front) \cup Messages("back", back)
<1>1. front \in Seq(Nat) /\ back \in Seq(Nat)
  BY LaneType
<1>2. CASE front # <<>> /\ front' = Tail(front) /\ UNCHANGED back
  <2> DEFINE m == [lane |-> "front", stamp |-> Head(front)]
  <2>1. /\ m \in Messages("front", front)
        /\ Messages("front", front') = Messages("front", front) \ {m}
        /\ \A n \in Messages("front", front) \ {m} : n.lane = m.lane /\ m.stamp < n.stamp
    BY <1>1, <1>2, TailMessages DEF OrderInv, Ascending
  <2>2. \A n \in Messages("back", back) : n.lane = "back" /\ m.lane = "front" /\ n # m
    BY DEF Messages
  <2>3. waiting' = waiting \ {m}
    BY <1>2, <2>1, <2>2
  <2>4. \A n \in waiting \ {m} : Mailbox!Before(m, n)
    BY <2>1, <2>2 DEF Mailbox!Before
  <2>5. QED
    BY <2>1, <2>3, <2>4 DEF Mailbox!Take
<1>3. CASE front = <<>> /\ back # <<>> /\ back' = Tail(back) /\ UNCHANGED front
  <2> DEFINE m == [lane |-> "back", stamp |-> Head(back)]
  <2>1. /\ m \in Messages("back", back)
        /\ Messages("back", back') = Messages("back", back) \ {m}
        /\ \A n \in Messages("back", back) \ {m} : n.lane = m.lane /\ m.stamp < n.stamp
    BY <1>1, <1>3, TailMessages DEF OrderInv, Ascending
  <2>2. Messages("front", front) = {}
    BY <1>3 DEF Messages
  <2>3. waiting' = waiting \ {m}
    BY <1>3, <2>1, <2>2 DEF Messages
  <2>4. \A n \in waiting \ {m} : Mailbox!Before(m, n)
    BY <2>1, <2>2 DEF Mailbox!Before
  <2>5. QED
    BY <2>1, <2>3, <2>4 DEF Mailbox!Take
<1>4. QED
  BY <1>2, <1>3 DEF PopOldest

LEMMA MailboxStep == TypeOK /\ OrderInv /\ [Next]_vars => [Mailbox!MbNext]_Mailbox!mbVars
<1> SUFFICES ASSUME TypeOK, OrderInv, [Next]_vars
             PROVE  Mailbox!MbNext \/ UNCHANGED Mailbox!mbVars
  OBVIOUS
<1>1. front \in Seq(Nat) /\ back \in Seq(Nat) /\ pushed \in Nat
  BY LaneType
<1>2. CASE PushFront
  <2>1. Messages("front", front') = Messages("front", front)
                                    \cup {[lane |-> "front", stamp |-> pushed + 1]}
    BY <1>1, <1>2, AppendMessages DEF PushFront
  <2>2. Mailbox!Send("front")
    BY <1>2, <2>1 DEF PushFront, Mailbox!Send
  <2>3. QED
    BY <2>2 DEF Mailbox!MbNext, Mailbox!Lane
<1>3. CASE PushBack
  <2>1. Messages("back", back') = Messages("back", back)
                                  \cup {[lane |-> "back", stamp |-> pushed + 1]}
    BY <1>1, <1>3, AppendMessages DEF PushBack
  <2>2. Mailbox!Send("back")
    BY <1>3, <2>1 DEF PushBack, Mailbox!Send
  <2>3. QED
    BY <2>2 DEF Mailbox!MbNext, Mailbox!Lane
<1>4. CASE PopOldest /\ UNCHANGED pushed
  BY <1>4, MailboxTake DEF Mailbox!MbNext
<1>5. CASE UNCHANGED <<front, back, pushed>>
  BY <1>5 DEF Mailbox!mbVars
<1>6. QED
  BY <1>2, <1>3, <1>4, <1>5
     DEF Next, vars, PopFront, StoreAwake, PollReady, PollPending, WakeByOther, Drop, HandOver

(* Every value pushed is taken at most once, the front lane before the back lane and     *)
(* each lane in the order of its pushes, by streams and pop_front alike. *)
THEOREM MailboxCorrect == Spec => MailboxSafety
<1>1. Init => OrderInv
  BY DEF Init, OrderInv, Ascending
<1>2. Init => Mailbox!MbInit
  BY DEF Init, Mailbox!MbInit, Messages
<1>3. QED
  BY <1>1, <1>2, TypeInit, TypeStep, OrderStep, MailboxStep, PTL
     DEF Spec, MailboxSafety, Mailbox!MbSafety
=============================================================================
