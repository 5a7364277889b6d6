-------------------------- MODULE TimeoutManagerProofs --------------------------
(***************************************************************************)
(* Theorems about TimeoutManager, for any ids, instants and bounds.        *)
(***************************************************************************)
EXTENDS TimeoutManager, TLAPS

USE DEF Moved, Removed, Received, Overdue, Fired

-----------------------------------------------------------------------------
(* Type correctness. *)

LEMMA RequestsType == Requests \subseteq Request
<1> SUFFICES ASSUME NEW r \in Requests PROVE r \in Request
  OBVIOUS
<1>1. 0 \in Time
  BY TimeoutAssumption DEF Time
<1>2. QED
  BY <1>1, TimeoutAssumption DEF Requests, Request

LEMMA PushType ==
  ASSUME signals \in Seq(Signal), NEW on, NEW id \in Id, NEW input \in {"timeout", "item"},
         NEW of \in Nat, PushFront(on, id, input, of)
  PROVE  signals' \in Seq(Signal)
<1>1. [id |-> id, input |-> input, of |-> of] \in Signal
  BY DEF Signal
<1>2. QED
  BY <1>1 DEF PushFront

LEMMA TypeInit == Init => TypeOK
  BY TimeoutAssumption DEF Init, TypeOK, Time

LEMMA TypeStep == TypeOK /\ [Next]_vars => TypeOK'
<1> SUFFICES ASSUME TypeOK, [Next]_vars PROVE TypeOK'
  OBVIOUS
<1> USE DEF ledger, tickVars
<1>1. CASE Advance
  BY <1>1, TimeoutAssumption DEF Advance, TypeOK, Time
<1>2. ASSUME NEW request \in Requests, Send(request) PROVE TypeOK'
  <2>1. request \in Request
    BY RequestsType
  <2>2. /\ requests' \in Seq(Request)
        /\ Len(requests') = Len(requests) + 1
    BY <1>2, <2>1 DEF Send, TypeOK
  <2>3. sent' \in 0..MaxRequests /\ accepted + Len(requests') <= sent'
    BY <1>2, <2>2, TimeoutAssumption DEF Send, TypeOK
  <2>4. QED
    BY <1>2, <2>2, <2>3 DEF Send, TypeOK
<1>3. CASE TakeSignal
  BY <1>3 DEF TakeSignal, TypeOK
<1>4. CASE Receive
  <2> DEFINE request == Head(requests)
  <2>1. /\ request \in Request
        /\ requests' \in Seq(Request)
        /\ Len(requests') = Len(requests) - 1
    BY <1>4 DEF Receive, TypeOK
  <2>2. request.id \in Id /\ request.at \in Time
    BY <2>1 DEF Request
  <2>3. /\ timers' \in [Time -> SUBSET Id]
        /\ ids' \in [Id -> Time \cup {None}]
        /\ retainer' \in SUBSET Item
        /\ accepted' \in Nat
        /\ accepted' <= accepted + 1
    <3>1. CASE request.op = "set"
      <4>1. SetTimeout(request.id, request.at)
        BY <1>4, <3>1 DEF Receive, Apply
      <4>2. QED
        BY <2>2, <4>1 DEF SetTimeout, TypeOK
    <3>2. CASE request.op = "cancel"
      <4>1. CancelTimeout(request.id)
        BY <1>4, <3>2 DEF Receive, Apply
      <4>2. QED
        BY <2>2, <4>1 DEF CancelTimeout, TypeOK
    <3>3. CASE request.op = "retain"
      <4>1. Retain(request.id, request.at)
        BY <1>4, <3>3 DEF Receive, Apply
      <4>2. accepted + 1 \in 1..MaxRequests
        BY <1>4, <2>1, TimeoutAssumption DEF TypeOK
      <4>3. [id |-> request.id, at |-> request.at, stamp |-> accepted + 1] \in Item
        BY <2>2, <4>2 DEF Item
      <4>4. QED
        BY <4>1, <4>3 DEF Retain, TypeOK
    <3>4. CASE request.op = "invalid"
      BY <1>4, <3>4 DEF Receive, Apply, TypeOK
    <3>5. QED
      BY <2>1, <3>1, <3>2, <3>3, <3>4 DEF Request
  <2>4. accepted' + Len(requests') <= sent
    BY <2>1, <2>3 DEF TypeOK
  <2>5. UNCHANGED <<clock, sent, tick, now, due, returns, signals>>
    BY <1>4 DEF Receive
  <2>6. QED
    BY <2>1, <2>3, <2>4, <2>5 DEF TypeOK
<1>5. CASE TickRead
  BY <1>5 DEF TickRead, TypeOK
<1>6. CASE TickLock
  <2>1. due' \in SUBSET Timer /\ timers' \in [Time -> SUBSET Id]
    BY <1>6 DEF TickLock, TypeOK
  <2>2. returns' = {} /\ tick' = "firing"
    BY <1>6 DEF TickLock, TypeOK
  <2>3. QED
    BY <1>6, <2>1, <2>2 DEF TickLock, TypeOK
<1>7. ASSUME NEW x \in due, Fire(x) PROVE TypeOK'
  <2>1. x.id \in Id /\ now \in Nat
    BY TimeoutAssumption DEF TypeOK, Timer, Time
  <2>2. signals' \in Seq(Signal)
    BY <1>7, <2>1, PushType DEF Fire, TypeOK
  <2>3. QED
    BY <1>7, <2>1, <2>2 DEF Fire, TypeOK
<1>8. CASE TickUnlock
  BY <1>8 DEF TickUnlock, TypeOK
<1>9. ASSUME NEW x \in returns, Return(x) PROVE TypeOK'
  <2>1. x.id \in Id /\ x.stamp \in Nat
    BY TimeoutAssumption DEF TypeOK, Item
  <2>2. signals' \in Seq(Signal)
    BY <1>9, <2>1, PushType DEF Return, TypeOK
  <2>3. QED
    BY <1>9, <2>1, <2>2 DEF Return, TypeOK
<1>10. CASE TickEnd
  BY <1>10 DEF TickEnd, TypeOK
<1>11. CASE UNCHANGED vars
  BY <1>11 DEF vars, TypeOK
<1>12. QED
  BY <1>1, <1>2, <1>3, <1>4, <1>5, <1>6, <1>7, <1>8, <1>9, <1>10, <1>11 DEF Next, Tick

(* The ledger, the channel and the tick task's locals keep their types; outside of its *)
(* two loops the tick task holds nothing that it took out of the ledger. *)
THEOREM TypeCorrect == Spec => []TypeOK
  BY TypeInit, TypeStep, PTL DEF Spec

-----------------------------------------------------------------------------
(* The inductive invariant.  LedgerConsistent alone is not preserved by a step of the   *)
(* tick task: Fire needs to know what the sweep left in the ledger, and Return how the  *)
(* items that arrived since the mutex was dropped compare with those it still holds.    *)

SweepInv ==
  /\ now <= clock
  /\ \A x \in due : x.at < now
  /\ Locked => \A t \in Time : t < now => timers[t] = {}

ItemInv ==
  /\ \A x \in retainer \cup returns : x.stamp <= accepted
  /\ \A x, y \in retainer \cup returns : x.stamp = y.stamp => x = y
  /\ retainer \cap returns = {}
  /\ \A x \in returns : x.at < now
  /\ \A x \in returns, y \in retainer : y.stamp < x.stamp => x.at < y.at

Inv ==
  /\ TypeOK
  /\ LedgerConsistent
  /\ SweepInv
  /\ ItemInv

LEMMA InvInit == Init => Inv
<1> SUFFICES ASSUME Init PROVE Inv
  OBVIOUS
<1>1. TypeOK
  BY TypeInit
<1>2. LedgerConsistent
  BY TimeoutAssumption DEF Init, LedgerConsistent, Time
<1>3. SweepInv /\ ItemInv
  BY DEF Init, SweepInv, ItemInv, Locked
<1>4. QED
  BY <1>1, <1>2, <1>3 DEF Inv

LEMMA LedgerStep == Inv /\ [Next]_vars => LedgerConsistent'
<1> SUFFICES ASSUME Inv, [Next]_vars PROVE LedgerConsistent'
  OBVIOUS
<1> USE DEF Inv, ledger, tickVars
<1>1. CASE Receive
  <2> DEFINE request == Head(requests)
  <2>1. /\ request \in Request
        /\ request.id \in Id /\ request.at \in Time
    <3>1. request \in Request
      BY <1>1 DEF Receive, TypeOK
    <3>2. QED
      BY <3>1 DEF Request
  <2>2. due = {} /\ due' = {}
    BY <1>1 DEF Receive, TypeOK, Locked
  <2> SUFFICES ASSUME NEW id \in Id, NEW t \in Time
               PROVE  (ids'[id] = t) <=> (id \in timers'[t])
    BY <2>2 DEF LedgerConsistent
  <2>3. (ids[id] = t) <=> (id \in timers[t])
    BY <2>2 DEF LedgerConsistent
  <2>4. t # None
    BY TimeoutAssumption DEF Time
  <2>5. CASE request.op = "set"
    <3>1. SetTimeout(request.id, request.at)
      BY <1>1, <2>5 DEF Receive, Apply
    <3>2. CASE id = request.id
      BY <2>1, <2>3, <3>1, <3>2 DEF SetTimeout, TypeOK
    <3>3. CASE id # request.id
      BY <2>1, <2>3, <3>1, <3>3 DEF SetTimeout, TypeOK
    <3>4. QED
      BY <3>2, <3>3
  <2>6. CASE request.op = "cancel"
    <3>1. CancelTimeout(request.id)
      BY <1>1, <2>6 DEF Receive, Apply
    <3>2. QED
      BY <2>1, <2>3, <2>4, <3>1 DEF CancelTimeout, TypeOK
  <2>7. CASE request.op \in {"retain", "invalid"}
    BY <1>1, <2>3, <2>7 DEF Receive, Apply, Retain
  <2>8. QED
    BY <2>1, <2>5, <2>6, <2>7 DEF Request
<1>2. CASE TickLock
  <2> SUFFICES ASSUME NEW id \in Id, NEW t \in Time
               PROVE  (ids'[id] = t) <=> (id \in timers'[t] \/ [id |-> id, at |-> t] \in due')
    BY DEF LedgerConsistent
  <2>1. (ids[id] = t) <=> (id \in timers[t])
    BY <1>2 DEF LedgerConsistent, TickLock, TypeOK
  <2>2. [id |-> id, at |-> t] \in due' <=> t < now /\ id \in timers[t]
    BY <1>2 DEF TickLock, Timer
  <2>3. id \in timers'[t] <=> ~(t < now) /\ id \in timers[t]
    BY <1>2 DEF TickLock
  <2>4. QED
    BY <1>2, <2>1, <2>2, <2>3 DEF TickLock
<1>3. ASSUME NEW x \in due, Fire(x) PROVE LedgerConsistent'
  <2> SUFFICES ASSUME NEW id \in Id, NEW t \in Time
               PROVE  (ids'[id] = t) <=> (id \in timers'[t] \/ [id |-> id, at |-> t] \in due')
    BY DEF LedgerConsistent
  <2>1. (ids[id] = t) <=> (id \in timers[t] \/ [id |-> id, at |-> t] \in due)
    BY DEF LedgerConsistent
  <2>2. x \in Timer /\ x.id \in Id /\ x.at \in Time
    BY DEF TypeOK, Timer
  <2>3. x = [id |-> x.id, at |-> x.at]
    BY <2>2 DEF Timer
  <2>4. ids[x.id] = x.at
    BY <2>2, <2>3 DEF LedgerConsistent
  <2>5. CASE id # x.id
    <3>1. [id |-> id, at |-> t] # x
      BY <2>5
    <3>2. QED
      BY <1>3, <2>1, <2>5, <3>1 DEF Fire, TypeOK
  <2>6. CASE id = x.id
    <3>1. ids'[id] = None /\ t # None
      BY <1>3, <2>6, TimeoutAssumption DEF Fire, TypeOK, Time
    <3>2. id \notin timers[t]
      <4>1. CASE t = x.at
        <5>1. timers[t] = {}
          BY <1>3, <4>1 DEF SweepInv, Fire, Locked
        <5>2. QED
          BY <5>1
      <4>2. CASE t # x.at
        BY <2>1, <2>4, <2>6, <4>2
      <4>3. QED
        BY <4>1, <4>2
    <3>3. [id |-> id, at |-> t] \notin due'
      BY <1>3, <2>1, <2>3, <2>4, <2>6 DEF Fire
    <3>4. QED
      BY <1>3, <3>1, <3>2, <3>3 DEF Fire
  <2>7. QED
    BY <2>5, <2>6
<1>4. CASE UNCHANGED <<ids, timers, due>>
  BY <1>4 DEF LedgerConsistent
<1>5. QED
  BY <1>1, <1>2, <1>3, <1>4
     DEF Next, Tick, vars, Advance, Send, TakeSignal, TickRead, TickUnlock, Return, TickEnd

LEMMA SweepStep == Inv /\ [Next]_vars => SweepInv'
<1> SUFFICES ASSUME Inv, [Next]_vars PROVE SweepInv'
  OBVIOUS
<1> USE DEF Inv, ledger, tickVars
<1>1. now \in Nat /\ clock \in Nat /\ (\A x \in due : x.at \in Nat)
  BY TimeoutAssumption DEF TypeOK, Time, Timer
<1>2. CASE Advance
  BY <1>1, <1>2 DEF Advance, SweepInv, Locked
<1>3. CASE Receive
  BY <1>3 DEF Receive, SweepInv, Locked
<1>4. CASE TickRead
  BY <1>1, <1>4 DEF TickRead, SweepInv, Locked, TypeOK
<1>5. CASE TickLock
  BY <1>5 DEF TickLock, SweepInv
<1>6. ASSUME NEW x \in due, Fire(x) PROVE SweepInv'
  BY <1>6 DEF Fire, SweepInv, Locked
<1>7. CASE UNCHANGED <<now, clock, due, timers>> /\ (Locked' => Locked)
  BY <1>7 DEF SweepInv, Locked
<1>8. QED
  BY <1>2, <1>3, <1>4, <1>5, <1>6, <1>7
     DEF Next, Tick, vars, Send, TakeSignal, TickUnlock, Return, TickEnd, Locked

LEMMA ItemStep == Inv /\ [Next]_vars => ItemInv'
<1> SUFFICES ASSUME Inv, [Next]_vars PROVE ItemInv'
  OBVIOUS
<1> USE DEF Inv, ledger, tickVars
<1>1. /\ accepted \in Nat /\ now \in Nat
      /\ \A x \in retainer \cup returns : x.stamp \in Nat /\ x.at \in Nat
  BY TimeoutAssumption DEF TypeOK, Item, Time
<1>2. CASE Receive
  <2> DEFINE request == Head(requests)
  <2>1. CASE request.op = "retain"
    <3> DEFINE new == [id |-> request.id, at |-> request.at, stamp |-> accepted + 1]
    <3>1. /\ retainer' = retainer \cup {new}
          /\ accepted' = accepted + 1
          /\ returns' = returns /\ now' = now
      BY <1>2, <2>1 DEF Receive, Apply, Retain
    <3>2. new.stamp = accepted + 1
      OBVIOUS
    <3>3. \A x \in retainer \cup returns : x.stamp < new.stamp
      BY <1>1, <3>2 DEF ItemInv
    <3> HIDE DEF new
    <3>4. QED
      BY <1>1, <3>1, <3>2, <3>3 DEF ItemInv
  <2>2. CASE request.op # "retain"
    <3>1. UNCHANGED <<retainer, returns, accepted, now>>
      BY <1>2, <2>2 DEF Receive, Apply, SetTimeout, CancelTimeout
    <3>2. QED
      BY <3>1 DEF ItemInv
  <2>3. QED
    BY <2>1, <2>2
<1>3. CASE TickRead
  BY <1>3 DEF TickRead, ItemInv, TypeOK
<1>4. CASE TickUnlock
  <2>1. returns = {}
    BY <1>4 DEF TickUnlock, TypeOK
  <2>2. /\ retainer' \cup returns' = retainer
        /\ accepted' = accepted /\ now' = now
    BY <1>1, <1>4 DEF TickUnlock
  <2>3. /\ \A x \in returns' : x.at < now
        /\ \A y \in retainer' : y.at >= now
    BY <1>4 DEF TickUnlock
  <2>4. retainer' \cap returns' = {}
    BY <1>1, <2>1, <2>2, <2>3
  <2>5. \A x \in returns', y \in retainer' : x.at < y.at
    BY <1>1, <2>2, <2>3
  <2>6. QED
    BY <2>1, <2>2, <2>3, <2>4, <2>5 DEF ItemInv
<1>5. ASSUME NEW x \in returns, Return(x) PROVE ItemInv'
  BY <1>5 DEF Return, ItemInv
<1>6. CASE UNCHANGED <<retainer, returns, accepted, now>>
  BY <1>6 DEF ItemInv
<1>7. QED
  BY <1>2, <1>3, <1>4, <1>5, <1>6
     DEF Next, Tick, vars, Advance, Send, TakeSignal, TickLock, Fire, TickEnd

LEMMA InvCorrect == Spec => []Inv
<1>1. Inv /\ [Next]_vars => Inv'
  BY TypeStep, LedgerStep, SweepStep, ItemStep DEF Inv
<1>2. QED
  BY InvInit, <1>1, PTL DEF Spec

(* The two indices of the ledger always agree, counting the batch being fired: no timer *)
(* outlives its cancellation or renewal, and none is lost. *)
THEOREM LedgerCorrect == Spec => []LedgerConsistent
<1>1. Inv => LedgerConsistent
  BY DEF Inv
<1>2. QED
  BY <1>1, InvCorrect, PTL

(* A sweep leaves nothing overdue in the ledger, neither a timer nor an item. *)
THEOREM SweepCorrect == Spec => SweepComplete
<1> DEFINE Complete == Locked /\ ~Locked' =>
                         /\ \A id \in Id : ids'[id] # None => ids'[id] >= now
                         /\ \A x \in retainer' : x.at >= now
<1>1. ASSUME Inv, [Next]_vars PROVE Complete
  <2> SUFFICES ASSUME Locked, ~Locked' PROVE Complete
    OBVIOUS
  <2>1. TickUnlock
    BY <1>1 DEF Next, Tick, vars, tickVars, Advance, Send, TakeSignal, Receive, TickRead,
                TickLock, Fire, TickUnlock, Return, TickEnd, Locked
  <2>2. ASSUME NEW id \in Id, ids[id] # None PROVE ids[id] >= now
    <3>1. ids[id] \in Time
      BY <1>1, <2>2 DEF Inv, TypeOK
    <3>2. id \in timers[ids[id]]
      BY <1>1, <2>1, <3>1 DEF Inv, LedgerConsistent, TickUnlock
    <3>3. ~(ids[id] < now)
      BY <1>1, <3>1, <3>2 DEF Inv, SweepInv
    <3>4. QED
      BY <1>1, <3>1, <3>3, TimeoutAssumption DEF Inv, TypeOK, Time
  <2>3. QED
    BY <2>1, <2>2 DEF TickUnlock
<1>2. ASSUME Inv, [Next]_vars PROVE [Complete]_vars
  BY <1>1, <1>2
<1>3. QED
  BY <1>2, InvCorrect, PTL DEF Spec, SweepComplete

-----------------------------------------------------------------------------
(* TimeoutManager implements TimerService.  Each action of the service is taken by one  *)
(* action of the manager; reading the time, locking, unlocking and the end of a tick    *)
(* are stutters, since a timer counts as armed until it is fired and an item as held    *)
(* until it is returned. *)

LEMMA ServiceInit == Init => Timers!TsInit
  BY DEF Init, Timers!TsInit

LEMMA ServiceReceive ==
  ASSUME Inv, Receive
  PROVE  Timers!Request \/ UNCHANGED Timers!tsVars
<1> USE DEF ledger, tickVars
<1> DEFINE request == Head(requests)
<1>1. request.id \in Id /\ request.at \in Time /\ request \in Request
  <2>1. request \in Request
    BY DEF Receive, Inv, TypeOK
  <2>2. QED
    BY <2>1 DEF Request
<1>2. CASE request.op = "set"
  <2>1. Timers!TsSet(request.id, request.at)
    BY <1>2 DEF Receive, Apply, SetTimeout, Timers!TsSet
  <2>2. QED
    BY <1>1, <2>1 DEF Timers!Request
<1>3. CASE request.op = "cancel"
  <2>1. Timers!TsCancel(request.id)
    BY <1>3 DEF Receive, Apply, CancelTimeout, Timers!TsCancel
  <2>2. QED
    BY <1>1, <2>1 DEF Timers!Request
<1>4. CASE request.op = "retain"
  <2>1. Timers!TsRetain(request.id, request.at)
    BY <1>4 DEF Receive, Apply, Retain, Timers!TsRetain
  <2>2. QED
    BY <1>1, <2>1 DEF Timers!Request
<1>5. CASE request.op = "invalid"
  BY <1>5 DEF Receive, Apply, Timers!tsVars
<1>6. QED
  BY <1>1, <1>2, <1>3, <1>4, <1>5 DEF Request

LEMMA ServiceFire ==
  ASSUME Inv, NEW x \in due, Fire(x)
  PROVE  x.id \in Id /\ Timers!TsExpire(x.id)
<1>1. x.id \in Id /\ x.at \in Time /\ x = [id |-> x.id, at |-> x.at]
  BY DEF Inv, TypeOK, Timer
<1>2. ids[x.id] = x.at
  BY <1>1 DEF Inv, LedgerConsistent
<1>3. ids[x.id] # None
  BY <1>1, <1>2, TimeoutAssumption DEF Time
<1>4. ASSUME NEW j \in Id, ids[j] # None PROVE ids[x.id] <= ids[j]
  <2>1. ids[j] \in Time
    BY <1>4 DEF Inv, TypeOK
  <2>2. CASE j \in timers[ids[j]]
    <3>1. ~(ids[j] < now)
      BY <2>1, <2>2 DEF Inv, SweepInv, Locked, Fire
    <3>2. x.at < now
      BY DEF Inv, SweepInv
    <3>3. QED
      BY <1>1, <1>2, <2>1, <3>1, <3>2, TimeoutAssumption DEF Inv, TypeOK, Time
  <2>3. CASE [id |-> j, at |-> ids[j]] \in due
    <3>1. x.at <= [id |-> j, at |-> ids[j]].at
      BY <2>3 DEF Fire
    <3>2. QED
      BY <1>2, <3>1
  <2>4. QED
    BY <2>1, <2>2, <2>3 DEF Inv, LedgerConsistent
<1>5. now \in 0..clock /\ ids[x.id] < now
  BY <1>2, TimeoutAssumption DEF Inv, SweepInv, TypeOK, Time
<1>6. QED
  BY <1>1, <1>3, <1>4, <1>5 DEF Fire, PushFront, Timers!TsExpire

LEMMA ServiceReturn ==
  ASSUME Inv, NEW x \in returns, Return(x)
  PROVE  Timers!TsReturn(x)
<1>1. /\ x.at < clock
      /\ \A y \in retainer \cup returns :
           y.at \in Nat /\ y.stamp \in Nat
  <2>1. \A y \in retainer \cup returns : y \in Item
    BY DEF Inv, TypeOK
  <2>2. \A y \in Item : y.at \in Nat /\ y.stamp \in Nat
    BY TimeoutAssumption DEF Item, Time
  <2>3. x.at < now /\ now <= clock /\ now \in Nat /\ clock \in Nat
    BY TimeoutAssumption DEF Inv, SweepInv, ItemInv, TypeOK, Time
  <2>4. x.at < clock
    BY <2>1, <2>2, <2>3
  <2>5. QED
    BY <2>1, <2>2, <2>4
<1>2. ASSUME NEW y \in retainer \cup returns, y.stamp < x.stamp PROVE y.at > x.at
  <2>1. CASE y \in retainer
    BY <1>1, <1>2, <2>1 DEF Inv, ItemInv
  <2>2. CASE y \in returns
    BY <1>1, <1>2, <2>2 DEF Return
  <2>3. QED
    BY <2>1, <2>2
<1>3. (retainer \cup returns)' = (retainer \cup returns) \ {x}
  BY DEF Return, ledger, Inv, ItemInv
<1>4. QED
  BY <1>1, <1>2, <1>3 DEF Return, PushFront, ledger, Timers!TsReturn

LEMMA ServiceStep == Inv /\ [Next]_vars => [Timers!TsNext]_Timers!tsVars
<1> SUFFICES ASSUME Inv, [Next]_vars
             PROVE  Timers!TsNext \/ UNCHANGED Timers!tsVars
  OBVIOUS
<1> USE DEF ledger, tickVars
<1>1. CASE Advance
  BY <1>1 DEF Advance, Timers!TsAdvance, Timers!TsNext
<1>2. CASE TakeSignal
  BY <1>2 DEF TakeSignal, Timers!TsTake, Timers!TsNext
<1>3. CASE Receive
  BY <1>3, ServiceReceive DEF Timers!TsNext
<1>4. ASSUME NEW x \in due, Fire(x) PROVE Timers!TsNext
  BY <1>4, ServiceFire DEF Timers!TsNext
<1>5. ASSUME NEW x \in returns, Return(x) PROVE Timers!TsNext
  BY <1>5, ServiceReturn DEF Timers!TsNext
<1>6. CASE TickUnlock
  <2>1. (retainer \cup returns)' = retainer \cup returns
    BY <1>6, TimeoutAssumption DEF TickUnlock, Inv, TypeOK, Item, Time
  <2>2. QED
    BY <1>6, <2>1 DEF TickUnlock, Timers!tsVars
<1>7. CASE UNCHANGED <<clock, ids, retainer, returns, accepted, signals>>
  BY <1>7 DEF Timers!tsVars
<1>8. QED
  BY <1>1, <1>2, <1>3, <1>4, <1>5, <1>6, <1>7
     DEF Next, Tick, vars, Send, TickRead, TickLock, TickEnd

(* One timer per id, never early, never after its cancellation, never twice, earliest   *)
(* first; items come back once and in order: whatever the two tasks interleave. *)
THEOREM ServiceCorrect == Spec => TimerSafety
  BY ServiceInit, ServiceStep, InvCorrect, PTL DEF Spec, TimerSafety, Timers!TsSafety

-----------------------------------------------------------------------------
(* Without its clock the manager is a TimerPool: each step of a TimerService over these *)
(* types is one of the pool, or leaves the pool as it is. *)

Armed == {id \in Id : ids[id] # None}
Held == retainer \cup returns

LEMMA PoolInit == Init => Pool!TpInit
  BY DEF Init, Pool!TpInit

LEMMA PoolExpire ==
  ASSUME TypeOK, NEW id \in Id, Timers!TsExpire(id)
  PROVE  Pool!TpExpire(id)
<1> PICK expired :
      expired = [x \in Id |-> IF x \in Supporting
                              THEN {<<[id |-> x, input |-> "timeout", of |-> t]>> : t \in Time}
                              ELSE {<<>>}]
  BY Zenon
<1>1. id \in Armed /\ Armed' = Armed \ {id} /\ Held' = Held
  BY DEF Timers!TsExpire, TypeOK, Armed, Held
<1>2. signals \in Seq(Signal) /\ clock \in Time
  BY DEF TypeOK
<1>3. \E pushed \in expired[id] : signals' = signals \o pushed
  <2>1. CASE id \in Supporting
    <3>1. PICK t \in 0..clock :
            signals' = Append(signals, [id |-> id, input |-> "timeout", of |-> t])
      BY <2>1 DEF Timers!TsExpire
    <3>2. PICK x : x = [id |-> id, input |-> "timeout", of |-> t]
      OBVIOUS
    <3>3. t \in Time
      BY <1>2, TimeoutAssumption DEF Time
    <3>4. <<x>> \in expired[id]
      BY <2>1, <3>2, <3>3
    <3>5. x \in Signal
      BY <3>2, <3>3, TimeoutAssumption DEF Signal, Time
    <3>6. signals' = signals \o <<x>>
      BY <1>2, <3>1, <3>2, <3>5
    <3>7. QED
      BY <3>4, <3>6
  <2>2. CASE id \notin Supporting
    <3>1. signals' = signals /\ <<>> \in expired[id]
      BY <2>2 DEF Timers!TsExpire
    <3>2. QED
      BY <1>2, <3>1
  <2>3. QED
    BY <2>1, <2>2
<1>4. QED
  BY <1>1, <1>3 DEF Pool!TpExpire, Armed, Held

LEMMA PoolReturn ==
  ASSUME TypeOK, NEW x \in Held, Timers!TsReturn(x)
  PROVE  x \in Item /\ Pool!TpReturn(x)
<1> PICK returned :
      returned = [y \in Item |-> IF y.id \in Returning
                                 THEN <<[id |-> y.id, input |-> "item", of |-> y.stamp]>>
                                 ELSE <<>>]
  BY Zenon
<1>1. x \in Item /\ signals \in Seq(Signal)
  BY DEF Held, TypeOK
<1>2. Held' = Held \ {x} /\ Armed' = Armed
  BY DEF Timers!TsReturn, Held, Armed
<1>3. signals' = signals \o returned[x]
  <2>1. CASE x.id \in Returning
    <3>1. PICK y : y = [id |-> x.id, input |-> "item", of |-> x.stamp]
      OBVIOUS
    <3>2. y \in Signal
      BY <1>1, <3>1, TimeoutAssumption DEF Signal, Item
    <3>3. signals' = Append(signals, y) /\ returned[x] = <<y>>
      BY <1>1, <2>1, <3>1 DEF Timers!TsReturn
    <3>4. QED
      BY <1>1, <3>2, <3>3
  <2>2. CASE x.id \notin Returning
    <3>1. signals' = signals /\ returned[x] = <<>>
      BY <1>1, <2>2 DEF Timers!TsReturn
    <3>2. QED
      BY <1>1, <3>1
  <2>3. QED
    BY <2>1, <2>2
<1>4. QED
  BY <1>1, <1>2, <1>3 DEF Pool!TpReturn, Armed, Held

LEMMA PoolStep ==
  ASSUME TypeOK, TypeOK', [Timers!TsNext]_Timers!tsVars
  PROVE  [Pool!TpNext]_Pool!tpVars
<1> USE DEF Pool!TpNext
<1>1. CASE Timers!TsAdvance \/ UNCHANGED Timers!tsVars
  BY <1>1 DEF Timers!TsAdvance, Timers!tsVars, Pool!tpVars
<1>2. ASSUME NEW id \in Id, Timers!TsCancel(id) PROVE Pool!TpNext
  <2>1. Armed' = Armed \ {id} /\ Held' = Held /\ signals' = signals
    BY <1>2 DEF Timers!TsCancel, TypeOK, Armed, Held
  <2>2. QED
    BY <2>1 DEF Pool!TpCancel, Armed, Held
<1>3. ASSUME NEW id \in Id, NEW at \in Time, Timers!TsSet(id, at) PROVE Pool!TpNext
  <2>1. at # None
    BY TimeoutAssumption DEF Time
  <2>2. Armed' = Armed \cup {id} /\ Held' = Held /\ signals' = signals
    BY <1>3, <2>1 DEF Timers!TsSet, TypeOK, Armed, Held
  <2>3. QED
    BY <2>2 DEF Pool!TpSet, Armed, Held
<1>4. ASSUME NEW id \in Id, NEW at \in Time, Timers!TsRetain(id, at) PROVE Pool!TpNext
  <2>1. PICK x : x = [id |-> id, at |-> at, stamp |-> accepted + 1]
    OBVIOUS
  <2>2. Held' = Held \cup {x} /\ Armed' = Armed /\ signals' = signals
    BY <1>4, <2>1 DEF Timers!TsRetain, Armed, Held
  <2>3. x \in Item
    BY <2>2 DEF Held, TypeOK
  <2>4. QED
    BY <2>2, <2>3 DEF Pool!TpRetain, Armed, Held
<1>5. ASSUME NEW id \in Id, Timers!TsExpire(id) PROVE Pool!TpNext
  BY <1>5, PoolExpire
<1>6. ASSUME NEW x \in Held, Timers!TsReturn(x) PROVE Pool!TpNext
  BY <1>6, PoolReturn
<1>7. CASE Timers!TsTake
  BY <1>7 DEF Timers!TsTake, Pool!TpTake
<1>8. QED
  BY <1>1, <1>2, <1>3, <1>4, <1>5, <1>6, <1>7 DEF Timers!TsNext, Timers!Request, Held

(* What a component that does not look at the clock may rely on: an id that set a       *)
(* timeout has one timer until it goes off or is cancelled, a retained item comes back   *)
(* once, and each of them pushes its signal in that very step. *)
THEOREM PoolCorrect == Spec => PoolSafety
<1>1. Inv /\ Inv' /\ [Next]_vars => [Pool!TpNext]_Pool!tpVars
  BY ServiceStep, PoolStep DEF Inv
<1>2. QED
  BY PoolInit, <1>1, InvCorrect, PTL DEF Spec, PoolSafety, Pool!TpSafety
=============================================================================
