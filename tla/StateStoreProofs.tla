------------------------------ MODULE StateStoreProofs ------------------------------
(***************************************************************************)
(* What holds of the StateStore for any number of tasks, ids and trees:    *)
(* its types, that the index and the trees agree, and that the assertion   *)
(* of Zipper::by_id never fails, provided that every task waits for the    *)
(* call that makes an id before it uses the id.                            *)
(***************************************************************************)
EXTENDS StateStore, FiniteSetTheorems, TLAPS

\* The discipline of the callers: new_child and create_tree return before an id is used.
Patient == Eager = FALSE

LEMMA NoneApart == None \notin Id /\ None \notin State /\ None \notin Tree
  BY StoreAssumption DEF Tree

LEMMA LookType ==
  ASSUME TypeOK, NEW k \in Task, NEW id \in Id, NEW other \in Id, NEW to \in State,
         NEW op \in Op, Look(k, op, id, other, to)
  PROVE  TypeOK'
<1> DEFINE j == [op |-> op, id |-> id, other |-> other, to |-> to, tree |-> index[id]]
<1>1. j \in Job /\ j.tree = index[id]
  BY DEF TypeOK, Job
<1>2. job' = [job EXCEPT ![k] = j]
  BY DEF Look
<1>3. job' \in [Task -> Job \cup {None}]
  BY <1>1, <1>2 DEF TypeOK
<1>4. step' = [step EXCEPT ![k] = step'[k]]
      /\ step'[k] \in {"idle", "panicked", "ref", "lock"}
      /\ (step'[k] \in {"ref", "lock"} => index[id] # None)
  BY DEF Look, After, GoesOn, GoTo, TypeOK
<1>5. step' \in [Task -> {"idle", "ref", "lock", "push", "panicked", "bug"}]
  BY <1>4 DEF TypeOK
<1>6. \A q \in Task : step'[q] \in {"ref", "lock", "push"} =>
        job'[q] \in Job /\ job'[q].tree # None /\ root[job'[q].tree] # None
  BY <1>1, <1>2, <1>4 DEF TypeOK
<1>7. begun' \in 0..MaxOps
  BY StoreAssumption DEF Look, Begin, TypeOK
<1>8. seen' \in [Task -> State \cup Id \cup {None}]
  BY DEF Look, TypeOK
<1>9. UNCHANGED <<index, root, nodes, parent, state, made, signals, saved>>
  BY DEF Look, trees
<1>10. QED
  BY <1>3, <1>5, <1>6, <1>7, <1>8, <1>9 DEF TypeOK

\* The type of what an operation in progress holds.
LEMMA JobType ==
  ASSUME TypeOK, NEW k \in Task, step[k] \in {"ref", "lock", "push"}
  PROVE  /\ job[k] \in Job /\ root[job[k].tree] \in Id
         /\ job[k].tree \in Tree /\ job[k].id \in Id /\ job[k].other \in Id /\ job[k].to \in State
<1>1. job[k] \in Job /\ job[k].tree # None /\ root[job[k].tree] # None
  BY DEF TypeOK
<1>2. QED
  BY <1>1 DEF Job, TypeOK

LEMMA TypeInit == Init => TypeOK
  BY StoreAssumption DEF Init, TypeOK

LEMMA TypeStep == TypeOK /\ [Next]_vars => TypeOK'
<1> SUFFICES ASSUME TypeOK, [Next]_vars PROVE TypeOK'
  OBVIOUS
<1> USE DEF trees
<1>1. ASSUME NEW k \in Task, Call(k) PROVE TypeOK'
  <2>1. ASSUME NEW id \in Id, CreateTree(k, id) \/ RemoveRef(k, id) PROVE TypeOK'
    <3>1. CASE CreateTree(k, id)
      BY <3>1, StoreAssumption DEF CreateTree, Begin, TypeOK
    <3>2. CASE RemoveRef(k, id)
      BY <3>2, StoreAssumption DEF RemoveRef, Begin, TypeOK
    <3>3. QED
      BY <2>1, <3>1, <3>2
  <2>2. ASSUME NEW id \in Id, NEW child \in Id, NewChild(k, id, child) PROVE TypeOK'
    BY <2>2, LookType, StoreAssumption DEF NewChild, Op
  <2>3. ASSUME NEW id \in Id, NEW to \in State,
               Update(k, id, to) \/ UpdateStateAndSignal(k, id, to) \/ UpdateAll(k, id, to)
        PROVE  TypeOK'
    BY <2>3, LookType DEF Update, UpdateStateAndSignal, UpdateAll, Op
  <2>4. ASSUME NEW id \in Id, GetState(k, id) \/ GetParentId(k, id) PROVE TypeOK'
    BY <2>4, LookType, StoreAssumption DEF GetState, GetParentId, Op
  <2>5. QED
    BY <1>1, <2>1, <2>2, <2>3, <2>4 DEF Call
<1>2. ASSUME NEW k \in Task, Continue(k) PROVE TypeOK'
  <2>1. CASE InsertRef(k)
    BY <2>1, JobType DEF InsertRef, WithRef, GoTo, TypeOK
  <2>2. CASE LockInsert(k)
    BY <2>2, JobType, StoreAssumption DEF LockInsert, Locked, GoTo, TypeOK
  <2>3. CASE LockUpdate(k)
    BY <2>3, JobType DEF LockUpdate, Locked, GoTo, TypeOK
  <2>4. CASE LockUpdateForParent(k)
    <3> DEFINE j == job[k]
               found == parent[j.tree][j.id]
               report == [to |-> found, of |-> j.id, state |-> j.to]
    <3>1. found \in Id \cup {None} /\ j \in Job /\ j.tree # None /\ root[j.tree] # None
      BY <2>4, JobType, NoneApart DEF LockUpdateForParent, Locked, TypeOK
    <3>2. saved' \in [Id -> Seq(Report)]
      <4>1. found # None => report \in Report
        BY <3>1 DEF Job, Report
      <4>2. saved' = saved \/ (found # None /\ saved' = [saved EXCEPT ![j.id] = Append(@, report)])
        BY <2>4 DEF LockUpdateForParent
      <4>3. found # None => Append(saved[j.id], report) \in Seq(Report)
        BY <3>1, <4>1 DEF Job, TypeOK
      <4>4. QED
        <5>1. saved \in [Id -> Seq(Report)]
          BY DEF TypeOK
        <5>2. QED
          BY <4>2, <4>3, <5>1
    <3>3. found # None =>
            [j EXCEPT !.other = found] \in Job /\ [j EXCEPT !.other = found].tree = j.tree
      BY <3>1 DEF Job
    <3>4. job' = job \/ (found # None /\ job' = [job EXCEPT ![k] = [j EXCEPT !.other = found]])
      BY <2>4 DEF LockUpdateForParent
    <3>5. job' \in [Task -> Job \cup {None}]
      <4>1. job \in [Task -> Job \cup {None}]
        BY DEF TypeOK
      <4>2. QED
        BY <3>3, <3>4, <4>1
    <3>6. \A q \in Task : step'[q] \in {"ref", "lock", "push"} =>
            job'[q] \in Job /\ job'[q].tree # None /\ root[job'[q].tree] # None
      <4>1. \A q \in Task \ {k} : step'[q] = step[q] /\ job'[q] = job[q]
        BY <2>4, <3>4 DEF LockUpdateForParent, GoTo, TypeOK
      <4>2. job'[k] \in Job /\ job'[k].tree = j.tree
        BY <3>1, <3>3, <3>4 DEF TypeOK
      <4>3. QED
        BY <2>4, <3>1, <4>1, <4>2 DEF LockUpdateForParent, TypeOK
    <3>7. step' \in [Task -> {"idle", "ref", "lock", "push", "panicked", "bug"}]
      BY <2>4 DEF LockUpdateForParent, GoTo, TypeOK
    <3>8. state' \in [Tree -> [Id -> State]]
      BY <2>4, JobType DEF LockUpdateForParent, Locked, TypeOK
    <3>9. UNCHANGED <<index, root, nodes, parent, made, begun, seen, signals>>
      BY <2>4 DEF LockUpdateForParent
    <3>10. QED
      BY <3>2, <3>5, <3>6, <3>7, <3>8, <3>9 DEF TypeOK
  <2>5. CASE PushSignal(k)
    <3> DEFINE j == job[k]
               m == [to |-> j.other, of |-> j.id, state |-> j.to]
    <3>1. step[k] = "push"
      BY <2>5 DEF PushSignal, StateStored
    <3>2. m \in Report
      BY <3>1, JobType DEF Report
    <3>3. signals' = Append(signals, m)
      BY <2>5 DEF PushSignal, StateStored
    <3>4. signals' \in Seq(Report)
      BY <3>2, <3>3 DEF TypeOK
    <3>5. QED
      BY <2>5, <3>4 DEF PushSignal, StateStored, GoTo, TypeOK
  <2>6. CASE LockUpdateAll(k)
    BY <2>6, JobType DEF LockUpdateAll, AllOf, GoTo, TypeOK
  <2>7. CASE LockGet(k)
    <3> DEFINE found == IF job[k].op = "get" THEN state[job[k].tree][job[k].id]
                        ELSE parent[job[k].tree][job[k].id]
    <3>1. found \in State \cup Id \cup {None}
      BY <2>7, JobType DEF LockGet, TypeOK
    <3>2. seen' \in [Task -> State \cup Id \cup {None}]
      BY <2>7, <3>1 DEF LockGet, TypeOK
    <3>3. QED
      BY <2>7, <3>2 DEF LockGet, GoTo, TypeOK
  <2>8. CASE LockPanic(k)
    <3> DEFINE t == job[k].tree
    <3>1. t \in Tree /\ root[t] \in Id
      BY <2>8, JobType DEF LockPanic, TypeOK
    <3>2. nodes' \in [Tree -> SUBSET Id]
      BY <2>8, <3>1 DEF LockPanic, TypeOK
    <3>3. state' \in [Tree -> [Id -> State]] /\ parent' \in [Tree -> [Id -> Id \cup {None}]]
      BY <2>8, <3>1, StoreAssumption DEF LockPanic, TypeOK
    <3>4. QED
      BY <2>8, <3>2, <3>3 DEF LockPanic, GoTo, TypeOK
  <2>9. QED
    BY <1>2, <2>1, <2>2, <2>3, <2>4, <2>5, <2>6, <2>7, <2>8 DEF Continue, LockById
<1>3. CASE UNCHANGED vars
  BY <1>3 DEF vars, TypeOK
<1>4. QED
  BY <1>1, <1>2, <1>3 DEF Next

\* The index, the trees and every task's operation keep their types.
THEOREM TypeCorrect == Spec => []TypeOK
  BY TypeInit, TypeStep, PTL DEF Spec

-----------------------------------------------------------------------------
(***************************************************************************)
(* The invariant.  A tree that is not there is empty; an operation in      *)
(* progress is about an id of its task that was made, and has its tree; an *)
(* operation that only looks may find an id that is just being made; and a *)
(* child being made is new everywhere, has the index entry from the step   *)
(* insert_ref on, and is made by no other task.                            *)
(***************************************************************************)
TreeInv == \A t \in Tree : root[t] = None => nodes[t] = {}

Looking(k) == job[k].op \in {"get", "parent"}

JobInv ==
  \A k \in Task :
    step[k] \in {"ref", "lock", "push"} /\ ~Looking(k) =>
      /\ job[k].id \in made /\ job[k].tree = index[job[k].id]
      /\ Owner[job[k].id] = k

LookInv ==
  \A k \in Task :
    step[k] = "lock" /\ Looking(k) =>
      \/ job[k].id \in nodes[job[k].tree]
      \/ index[job[k].id] = job[k].tree /\ BeingMade(job[k].id)

Making(k) == step[k] \in {"ref", "lock"} /\ job[k].op = "child"

ChildInv ==
  /\ \A k \in Task : step[k] = "ref" => job[k].op = "child" /\ index[job[k].other] = None
  /\ \A k \in Task : step[k] = "lock" /\ job[k].op = "child" => index[job[k].other] = job[k].tree
  /\ \A k \in Task : Making(k) =>
       job[k].other \notin made /\ \A t \in Tree : job[k].other \notin nodes[t]
  /\ \A k, q \in Task : Making(k) /\ Making(q) /\ job[k].other = job[q].other => k = q

Inv == TypeOK /\ IndexExact /\ NeverABug /\ TreeInv /\ JobInv /\ LookInv /\ ChildInv

LEMMA InvInit == Init => Inv
<1> SUFFICES ASSUME Init PROVE Inv
  OBVIOUS
<1>1. TypeOK
  BY TypeInit
<1>2. IndexExact /\ NeverABug
  BY DEF Init, IndexExact, NeverABug, BeingMade
<1>3. TreeInv /\ JobInv /\ LookInv /\ ChildInv
  BY DEF Init, TreeInv, JobInv, LookInv, ChildInv, Making
<1>4. QED
  BY <1>1, <1>2, <1>3 DEF Inv

\* An operation is begun: nothing changes but where the task is.
LEMMA LookStep ==
  ASSUME Inv, NEW k \in Task, NEW id \in Id, NEW other \in Id, NEW to \in State,
         NEW op \in Op, Look(k, op, id, other, to),
         op \notin {"get", "parent"} => Owner[id] = k /\ (id \in made \/ index[id] = None),
         op = "child" => Fresh(other)
  PROVE  Inv'
<1> DEFINE j == [op |-> op, id |-> id, other |-> other, to |-> to, tree |-> index[id]]
<1> USE DEF Inv
<1>1. TypeOK'
  BY LookType
<1>2. /\ UNCHANGED <<index, root, nodes, made>>
      /\ step[k] = "idle"
      /\ job' = [job EXCEPT ![k] = j]
      /\ step' = [step EXCEPT ![k] = step'[k]]
      /\ step'[k] \in {"idle", "panicked", "ref", "lock"}
      /\ step'[k] = "ref" => op = "child"
      /\ step'[k] = "lock" => op # "child"
      /\ step'[k] \in {"ref", "lock"} => index[id] # None
  BY DEF Look, After, GoesOn, Begin, GoTo, TypeOK, trees
<1>3. /\ job'[k] = j
      /\ \A q \in Task \ {k} : step'[q] = step[q] /\ job'[q] = job[q]
  BY <1>2 DEF TypeOK
<1>4. \A x \in Id : BeingMade(x) => BeingMade(x)'
  BY <1>2, <1>3 DEF BeingMade
<1>5. IndexExact'
  BY <1>2, <1>4 DEF IndexExact
<1>6. NeverABug'
  BY <1>2, <1>3 DEF NeverABug
<1>7. TreeInv'
  BY <1>2 DEF TreeInv
<1>8. JobInv'
  BY <1>2, <1>3 DEF JobInv, Looking
<1>9. LookInv'
  <2>1. step'[k] = "lock" => id \in nodes[index[id]] \/ BeingMade(id)
    BY <1>2 DEF IndexExact
  <2>2. QED
    BY <1>2, <1>3, <1>4, <2>1, JobType DEF LookInv, Looking
<1>10. ChildInv'
  BY <1>2, <1>3 DEF ChildInv, Making, Fresh, BeingMade, IndexExact
<1>11. QED
  BY <1>1, <1>5, <1>6, <1>7, <1>8, <1>9, <1>10

LEMMA CreateStep ==
  ASSUME Inv, Patient, NEW k \in Task, NEW id \in Id, CreateTree(k, id)
  PROVE  Inv'
<1> USE DEF Inv
<1>1. TypeOK'
  BY TypeStep DEF Next, Call
<1>2. PICK t \in Tree : /\ root[t] = None
                        /\ root' = [root EXCEPT ![t] = id]
                        /\ nodes' = [nodes EXCEPT ![t] = {id}]
                        /\ index' = [index EXCEPT ![id] = t]
  BY DEF CreateTree
<1>3. /\ step[k] = "idle" /\ Owner[id] = k
      /\ made' = made \cup {id}
      /\ UNCHANGED <<step, job>>
  BY DEF CreateTree, Begin
<1>4. /\ index'[id] = t /\ nodes'[t] = {id} /\ nodes[t] = {} /\ root'[t] = id
      /\ \A x \in Id \ {id} : index'[x] = index[x] /\ index[x] # t
      /\ \A u \in Tree \ {t} : nodes'[u] = nodes[u] /\ root'[u] = root[u]
      /\ t # None
  BY <1>2, NoneApart DEF TypeOK, TreeInv
<1>5. \A x \in Id : BeingMade(x)' <=> BeingMade(x)
  BY <1>3 DEF BeingMade
<1>6. ~BeingMade(id)
  <2>1. CASE Fresh(id)
    BY <2>1 DEF Fresh
  <2>2. CASE id \in made
    BY <2>2 DEF BeingMade, ChildInv, Making
  <2>3. QED
    BY <2>1, <2>2 DEF CreateTree, Usable, Patient
<1>7. IndexExact'
  <2>1. ASSUME NEW x \in made' PROVE index'[x] # None /\ x \in nodes'[index'[x]]
    <3>1. CASE x = id
      BY <1>4, <3>1
    <3>2. CASE x # id
      <4>1. x \in made /\ x \in Id
        BY <1>3, <2>1, <3>2 DEF TypeOK
      <4>2. index[x] \in Tree \ {t} /\ index'[x] = index[x]
        BY <1>4, <3>2, <4>1 DEF TypeOK, IndexExact
      <4>3. QED
        BY <1>4, <4>1, <4>2 DEF IndexExact
    <3>3. QED
      BY <3>1, <3>2
  <2>2. ASSUME NEW x \in Id, index'[x] # None
        PROVE  x \in nodes'[index'[x]] \/ BeingMade(x)'
    <3>1. CASE x = id
      BY <1>4, <3>1
    <3>2. CASE x # id
      <4>1. index[x] \in Tree \ {t} /\ index'[x] = index[x]
        BY <1>4, <2>2, <3>2 DEF TypeOK
      <4>2. QED
        BY <1>4, <1>5, <2>2, <4>1 DEF IndexExact
    <3>3. QED
      BY <3>1, <3>2
  <2>3. ASSUME NEW u \in Tree, NEW x \in nodes'[u]
        PROVE  index'[x] = u \/ x \notin made' \/ root'[index'[x]] = x
    <3>1. CASE x = id
      BY <1>4, <3>1
    <3>2. CASE x # id
      <4>1. x \in nodes[u] /\ x \in Id /\ u # t
        BY <1>4, <2>3, <3>2 DEF TypeOK
      <4>2. CASE x \in made
        <5>1. index[x] \in Tree \ {t} /\ index'[x] = index[x]
          BY <1>4, <3>2, <4>1, <4>2 DEF TypeOK, IndexExact
        <5>2. QED
          BY <1>4, <4>1, <4>2, <5>1 DEF IndexExact
      <4>3. CASE x \notin made
        BY <1>3, <3>2, <4>3
      <4>4. QED
        BY <4>2, <4>3
    <3>3. QED
      BY <3>1, <3>2
  <2>4. QED
    BY <2>1, <2>2, <2>3 DEF IndexExact
<1>8. NeverABug'
  BY <1>3 DEF NeverABug
<1>9. TreeInv'
  BY <1>2, <1>4, NoneApart DEF TreeInv, TypeOK
<1>10. JobInv'
  <2>1. \A q \in Task : step[q] \in {"ref", "lock", "push"} => job[q].id \in Id
    BY JobType
  <2>2. QED
    BY <1>3, <1>4, <2>1 DEF JobInv, Looking
<1>11. LookInv'
  <2>1. ASSUME NEW q \in Task, step[q] = "lock", Looking(q)
        PROVE  \/ job[q].id \in nodes'[job[q].tree]
               \/ index'[job[q].id] = job[q].tree /\ BeingMade(job[q].id)
    <3>1. job[q].id \in Id /\ job[q].tree \in Tree \ {t}
      BY <1>2, <2>1, JobType, NoneApart
    <3>2. QED
      BY <1>4, <1>6, <2>1, <3>1 DEF LookInv
  <2>2. \A q \in Task : step[q] = "lock" => job[q].id \in Id
    BY JobType
  <2>3. QED
    BY <1>3, <1>5, <2>1, <2>2 DEF LookInv, Looking
<1>12. ChildInv'
  <2>1. \A q \in Task : Making(q) => job[q].other \in Id \ {id}
    BY <1>6, JobType DEF Making, BeingMade
  <2>2. \A q \in Task : step[q] = "ref" => Making(q)
    BY DEF ChildInv, Making
  <2>3. \A x \in Id \ {id} : (\A u \in Tree : x \notin nodes[u]) => \A u \in Tree : x \notin nodes'[u]
    BY <1>4
  <2>4. QED
    BY <1>3, <1>4, <2>1, <2>2, <2>3 DEF ChildInv, Making
<1>13. QED
  BY <1>1, <1>7, <1>8, <1>9, <1>10, <1>11, <1>12

LEMMA RemoveStep ==
  ASSUME Inv, Patient, NEW k \in Task, NEW id \in Id, RemoveRef(k, id)
  PROVE  Inv'
<1> USE DEF Inv
<1>1. TypeOK'
  BY TypeStep DEF Next, Call
<1>2. /\ step[k] = "idle" /\ Owner[id] = k /\ id \in made
      /\ index' = [index EXCEPT ![id] = None]
      /\ made' = made \ {id}
      /\ UNCHANGED <<root, nodes, step, job>>
  BY DEF RemoveRef, Begin, Usable, Patient, trees
<1>3. index'[id] = None /\ \A x \in Id \ {id} : index'[x] = index[x]
  BY <1>2 DEF TypeOK
<1>4. \A x \in Id : BeingMade(x)' <=> BeingMade(x)
  BY <1>2 DEF BeingMade
<1>5. ~BeingMade(id)
  BY <1>2 DEF BeingMade, ChildInv, Making
<1>6. IndexExact'
  BY <1>2, <1>3, <1>4 DEF IndexExact, TypeOK
<1>7. NeverABug' /\ TreeInv'
  BY <1>2 DEF NeverABug, TreeInv
<1>8. JobInv'
  <2>1. \A q \in Task : step[q] \in {"ref", "lock", "push"} => job[q].id \in Id
    BY JobType
  <2>2. QED
    BY <1>2, <1>3, <2>1 DEF JobInv, Looking
<1>9. LookInv'
  <2>1. \A q \in Task : step[q] = "lock" => job[q].id \in Id
    BY JobType
  <2>2. QED
    BY <1>2, <1>3, <1>4, <1>5, <2>1 DEF LookInv, Looking
<1>10. ChildInv'
  <2>1. \A q \in Task : Making(q) => job[q].other \in Id \ {id}
    BY <1>5, JobType DEF Making, BeingMade
  <2>2. \A q \in Task : step[q] = "ref" => Making(q)
    BY DEF ChildInv, Making
  <2>3. QED
    BY <1>2, <1>3, <2>1, <2>2 DEF ChildInv, Making
<1>11. QED
  BY <1>1, <1>6, <1>7, <1>8, <1>9, <1>10

LEMMA InsertRefStep ==
  ASSUME Inv, NEW k \in Task, InsertRef(k)
  PROVE  Inv'
<1> USE DEF Inv
<1> DEFINE c == job[k].other
           t == job[k].tree
<1>1. TypeOK'
  BY TypeStep DEF Next, Continue
<1>2. /\ step[k] = "ref" /\ job[k].op = "child" /\ index[c] = None
      /\ c \in Id /\ t \in Tree /\ t # None
  BY JobType, NoneApart DEF InsertRef, WithRef, ChildInv
<1>3. /\ index' = [index EXCEPT ![c] = t]
      /\ step' = [step EXCEPT ![k] = "lock"]
      /\ UNCHANGED <<root, nodes, job, made>>
  BY DEF InsertRef, WithRef, GoTo, trees
<1>4. /\ index'[c] = t /\ step'[k] = "lock"
      /\ \A x \in Id \ {c} : index'[x] = index[x]
      /\ \A q \in Task \ {k} : step'[q] = step[q]
  BY <1>2, <1>3 DEF TypeOK
<1>5. \A x \in Id : BeingMade(x) => BeingMade(x)'
  BY <1>3, <1>4 DEF BeingMade
<1>6. BeingMade(c)'
  BY <1>2, <1>3, <1>4 DEF BeingMade
<1>7. IndexExact'
  <2>1. c \notin made
    BY <1>2 DEF ChildInv, Making
  <2>2. QED
    BY <1>3, <1>4, <1>5, <1>6, <2>1 DEF IndexExact, TypeOK
<1>8. NeverABug'
  BY <1>4 DEF NeverABug
<1>9. TreeInv'
  BY <1>2, <1>3, <1>4 DEF TreeInv
<1>10. JobInv' /\ LookInv'
  <2>1. \A q \in Task : step[q] \in {"ref", "lock", "push"} => job[q].id \in Id
    BY JobType
  <2>2. JobInv'
    BY <1>2, <1>3, <1>4, <2>1 DEF JobInv, Looking, ChildInv, Making
  <2>3. LookInv'
    <3>1. \A q \in Task : step[q] = "lock" => job[q].tree # None
      BY JobType, NoneApart
    <3>2. QED
      BY <1>2, <1>3, <1>4, <1>5, <2>1, <3>1 DEF LookInv, Looking
  <2>4. QED
    BY <2>2, <2>3
<1>11. ChildInv'
  <2>1. \A q \in Task : Making(q)' <=> Making(q)
    BY <1>2, <1>3, <1>4 DEF Making
  <2>2. \A q \in Task \ {k} : Making(q) => job[q].other \in Id \ {c}
    BY <1>2, JobType DEF ChildInv, Making
  <2>3. \A q \in Task : step[q] = "ref" => Making(q)
    BY DEF ChildInv, Making
  <2>4. QED
    BY <1>2, <1>3, <1>4, <2>1, <2>2, <2>3 DEF ChildInv, Making
<1>12. QED
  BY <1>1, <1>7, <1>8, <1>9, <1>10, <1>11

LEMMA InsertStep ==
  ASSUME Inv, NEW k \in Task, LockInsert(k)
  PROVE  Inv'
<1> USE DEF Inv
<1> DEFINE c == job[k].other
           t == job[k].tree
<1>1. TypeOK'
  BY TypeStep DEF Next, Continue, LockById, LockInsert, Locked
<1>2. /\ step[k] = "lock" /\ job[k].op = "child" /\ index[c] = t
      /\ c \in Id /\ t \in Tree /\ t # None /\ root[t] # None
  BY JobType, NoneApart DEF LockInsert, Locked, ChildInv
<1>3. /\ nodes' = [nodes EXCEPT ![t] = @ \cup {c}]
      /\ made' = made \cup {c}
      /\ step' = [step EXCEPT ![k] = "idle"]
      /\ UNCHANGED <<index, root, job>>
  BY DEF LockInsert, GoTo
<1>4. /\ nodes'[t] = nodes[t] \cup {c} /\ step'[k] = "idle"
      /\ \A u \in Tree \ {t} : nodes'[u] = nodes[u]
      /\ \A q \in Task \ {k} : step'[q] = step[q]
  BY <1>2, <1>3 DEF TypeOK
<1>5. \A x \in Id \ {c} : BeingMade(x) => BeingMade(x)'
  BY <1>3, <1>4 DEF BeingMade
<1>6. c \notin made /\ \A u \in Tree : c \notin nodes[u]
  BY <1>2 DEF ChildInv, Making
<1>7. IndexExact'
  BY <1>2, <1>3, <1>4, <1>5, <1>6 DEF IndexExact, TypeOK
<1>8. NeverABug'
  BY <1>4 DEF NeverABug
<1>9. TreeInv'
  BY <1>2, <1>3, <1>4 DEF TreeInv
<1>10. JobInv'
  BY <1>3, <1>4 DEF JobInv, Looking
<1>11. LookInv'
  <2>1. ASSUME NEW q \in Task \ {k}, step[q] = "lock", Looking(q)
        PROVE  \/ job[q].id \in nodes'[job[q].tree]
               \/ index[job[q].id] = job[q].tree /\ BeingMade(job[q].id)'
    <3>1. job[q].id \in Id /\ job[q].tree \in Tree
      BY <2>1, JobType
    <3>2. CASE job[q].id = c /\ index[c] = job[q].tree
      BY <1>2, <1>4, <3>2
    <3>3. CASE job[q].id \in nodes[job[q].tree]
      <4>1. \A u \in Tree : nodes[u] \subseteq nodes'[u]
        BY <1>4
      <4>2. QED
        BY <3>1, <3>3, <4>1
    <3>4. CASE job[q].id # c /\ index[job[q].id] = job[q].tree /\ BeingMade(job[q].id)
      <4>1. PICK p \in Task : step[p] \in {"ref", "lock"} /\ job[p].op = "child" /\ job[p].other = job[q].id
        BY <3>4 DEF BeingMade
      <4>2. p # k
        BY <3>4, <4>1
      <4>3. QED
        BY <1>3, <1>4, <3>4, <4>1, <4>2 DEF BeingMade
    <3>5. QED
      BY <2>1, <3>2, <3>3, <3>4 DEF LookInv
  <2>2. QED
    BY <1>3, <1>4, <2>1 DEF LookInv, Looking
<1>12. ChildInv'
  <2>1. \A q \in Task \ {k} : Making(q) => job[q].other \in Id \ {c}
    BY <1>2, JobType DEF ChildInv, Making
  <2>2. \A x \in Id \ {c} : (\A u \in Tree : x \notin nodes[u]) => \A u \in Tree : x \notin nodes'[u]
    BY <1>4
  <2>3. QED
    BY <1>3, <1>4, <2>1, <2>2 DEF ChildInv, Making
<1>13. QED
  BY <1>1, <1>7, <1>8, <1>9, <1>10, <1>11, <1>12

\* The other steps of an operation leave the index, the nodes and the made ids alone, and
\* do not end the making of a child.
LEMMA QuietStep ==
  ASSUME Inv, NEW k \in Task, TypeOK',
         UNCHANGED <<index, root, nodes, made>>,
         step[k] \in {"lock", "push"}, ~Making(k),
         step' = [step EXCEPT ![k] = step'[k]],
         step'[k] \in {"idle", "push"},
         \A q \in Task \ {k} : job'[q] = job[q],
         step'[k] = "push" => job'[k].op = job[k].op /\ job'[k].id = job[k].id
                              /\ job'[k].tree = job[k].tree
  PROVE  Inv'
<1> USE DEF Inv
<1>1. \A q \in Task \ {k} : step'[q] = step[q]
  BY DEF TypeOK
<1>2. \A x \in Id : BeingMade(x) => BeingMade(x)'
  BY <1>1 DEF BeingMade, Making
<1>3. IndexExact' /\ TreeInv'
  BY <1>2 DEF IndexExact, TreeInv
<1>4. NeverABug'
  BY <1>1 DEF NeverABug
<1>5. JobInv' /\ LookInv'
  <2>1. \A q \in Task : step[q] = "lock" => job[q].id \in Id
    BY JobType
  <2>2. QED
    BY <1>1, <1>2, <2>1 DEF JobInv, LookInv, Looking
<1>6. ChildInv'
  BY <1>1 DEF ChildInv, Making
<1>7. QED
  BY <1>3, <1>4, <1>5, <1>6

LEMMA InvStep == Inv /\ Patient /\ [Next]_vars => Inv'
<1> SUFFICES ASSUME Inv, Patient, [Next]_vars PROVE Inv'
  OBVIOUS
<1>0. TypeOK /\ TypeOK'
  BY TypeStep DEF Inv
<1>1. ASSUME NEW k \in Task, Call(k) PROVE Inv'
  <2>1. ASSUME NEW id \in Id, CreateTree(k, id) \/ RemoveRef(k, id) PROVE Inv'
    BY <2>1, CreateStep, RemoveStep
  <2>2. ASSUME NEW id \in Id, NEW child \in Id, NewChild(k, id, child) PROVE Inv'
    BY <2>2, LookStep, StoreAssumption DEF NewChild, Usable, Patient, Op
  <2>3. ASSUME NEW id \in Id, NEW to \in State,
               Update(k, id, to) \/ UpdateStateAndSignal(k, id, to) \/ UpdateAll(k, id, to)
        PROVE  Inv'
    BY <2>3, LookStep DEF Update, UpdateStateAndSignal, UpdateAll, Usable, Patient, Fresh, Op
  <2>4. ASSUME NEW id \in Id, GetState(k, id) \/ GetParentId(k, id) PROVE Inv'
    BY <2>4, LookStep, StoreAssumption DEF GetState, GetParentId, Op
  <2>5. QED
    BY <1>1, <2>1, <2>2, <2>3, <2>4 DEF Call
<1>2. ASSUME NEW k \in Task, Continue(k) PROVE Inv'
  <2> USE <1>0
  <2>1. CASE InsertRef(k)
    BY <2>1, InsertRefStep
  <2>2. CASE LockInsert(k)
    BY <2>2, InsertStep
  <2>3. CASE LockUpdate(k)
    BY <2>3, QuietStep, Zenon DEF LockUpdate, Locked, GoTo, Making, TypeOK
  <2>4. CASE LockUpdateForParent(k)
    <3>1. /\ step[k] = "lock" /\ ~Making(k) /\ job[k] \in Job
          /\ UNCHANGED <<index, root, nodes, made>>
          /\ step' = [step EXCEPT ![k] = step'[k]] /\ step'[k] \in {"idle", "push"}
      BY <2>4, JobType DEF LockUpdateForParent, Locked, GoTo, Making, TypeOK
    <3>2. \/ job' = job
          \/ job' = [job EXCEPT ![k].other = parent[job[k].tree][job[k].id]]
      BY <2>4 DEF LockUpdateForParent
    <3>3. /\ \A q \in Task \ {k} : job'[q] = job[q]
          /\ job'[k].op = job[k].op /\ job'[k].id = job[k].id /\ job'[k].tree = job[k].tree
      BY <3>1, <3>2 DEF TypeOK, Job
    <3>4. QED
      BY <3>1, <3>3, QuietStep
  <2>5. CASE PushSignal(k)
    BY <2>5, QuietStep DEF PushSignal, StateStored, GoTo, Making, TypeOK, trees
  <2>6. CASE LockUpdateAll(k)
    BY <2>6, QuietStep, Zenon DEF LockUpdateAll, AllOf, GoTo, Making, TypeOK
  <2>7. CASE LockGet(k)
    BY <2>7, QuietStep, Zenon DEF LockGet, GoTo, Making, TypeOK, trees
  <2>8. CASE LockPanic(k)
    <3>1. job[k].id \in nodes[job[k].tree]
      BY <2>8 DEF LockPanic, Inv, JobInv, Looking, IndexExact
    <3>2. QED
      BY <2>8, <3>1 DEF LockPanic
  <2>9. QED
    BY <1>2, <2>1, <2>2, <2>3, <2>4, <2>5, <2>6, <2>7, <2>8 DEF Continue, LockById
<1>3. CASE UNCHANGED vars
  BY <1>0, <1>3 DEF vars, trees, Inv, IndexExact, BeingMade, NeverABug, TreeInv, JobInv, LookInv,
                    Looking, ChildInv, Making
<1>4. QED
  BY <1>1, <1>2, <1>3 DEF Next

LEMMA InvCorrect == Patient /\ Spec => []Inv
<1>1. Patient => Patient'
  BY DEF Patient
<1>2. QED
  BY <1>1, InvInit, InvStep, PTL DEF Spec

\* However the tasks interleave, what was made is found through the index, the index names no
\* tree that the id is not in, the child of an unfinished new_child apart, and a node is in a
\* second tree only where its id has got a tree of its own.
THEOREM IndexCorrect == Patient /\ Spec => []IndexExact
<1>1. Inv => IndexExact
  BY DEF Inv
<1>2. QED
  BY <1>1, InvCorrect, PTL

\* The assertion of Zipper::by_id never fails, so no tree is ever lost to a panic, as long
\* as no task uses an id before the call that makes it has returned.
THEOREM AssertionHolds == Patient /\ Spec => []NeverABug
<1>1. Inv => NeverABug
  BY DEF Inv
<1>2. QED
  BY <1>1, InvCorrect, PTL

-----------------------------------------------------------------------------
(***************************************************************************)
(* The refinement.  An id is at home in its tree once its new_child has    *)
(* inserted the node, so insert_ref is invisible; every operation takes    *)
(* effect when it has locked its tree, which is then still the home of the *)
(* id that it is about, or when it finds no tree to lock.                  *)
(***************************************************************************)
LEMMA ForestInit == Init => Forest!SfInit
  BY DEF Init, Home, Forest!SfInit

LEMMA AtHome ==
  ASSUME Inv, NEW id \in made
  PROVE  id \in Id /\ index[id] \in Tree /\ id \in nodes[index[id]] /\ Home[id] = index[id]
<1>1. id \in Id /\ index[id] # None /\ id \in nodes[index[id]]
  BY DEF Inv, TypeOK, IndexExact
<1>2. QED
  BY <1>1 DEF Home, Inv, TypeOK

\* The id of an operation that has locked its tree is at home there.
LEMMA WorkerAtHome ==
  ASSUME Inv, NEW k \in Task, step[k] = "lock", ~Looking(k)
  PROVE  /\ job[k].id \in Id /\ job[k].tree \in Tree /\ job[k].to \in State
         /\ Home[job[k].id] = job[k].tree
BY AtHome, JobType DEF Inv, JobInv

LEMMA CreateMaps ==
  ASSUME Inv, NEW k \in Task, NEW id \in Id, CreateTree(k, id)
  PROVE  Forest!SfNext
<1> USE DEF Inv
<1>1. PICK t \in Tree : /\ root[t] = None
                        /\ root' = [root EXCEPT ![t] = id]
                        /\ nodes' = [nodes EXCEPT ![t] = {id}]
                        /\ parent' = [parent EXCEPT ![t][id] = None]
                        /\ state' = [state EXCEPT ![t][id] = New]
                        /\ index' = [index EXCEPT ![id] = t]
  BY DEF CreateTree
<1>2. nodes[t] = {} /\ t # None
  BY <1>1, NoneApart DEF TreeInv
<1>3. \A x \in Id : Home'[x] = IF x = id THEN t ELSE Home[x]
  <2>1. ASSUME NEW x \in Id, x # id PROVE Home'[x] = Home[x]
    <3>1. index'[x] = index[x] /\ index[x] # t
      BY <1>1, <1>2, <2>1 DEF TypeOK
    <3>2. index[x] # None => nodes'[index[x]] = nodes[index[x]]
      BY <1>1, <3>1 DEF TypeOK
    <3>3. QED
      BY <3>1, <3>2 DEF Home
  <2>2. index'[id] = t /\ nodes'[t] = {id}
    BY <1>1 DEF TypeOK
  <2>3. Home'[id] = t
    BY <1>2, <2>2 DEF Home
  <2>4. QED
    BY <2>1, <2>3
<1>4. Home' = [Home EXCEPT ![id] = t]
  BY <1>3 DEF Home
<1>5. Forest!SfCreate(id, t)
  BY <1>1, <1>2, <1>4 DEF CreateTree, Forest!SfCreate
<1>6. QED
  BY <1>5 DEF Forest!SfNext

LEMMA InsertMaps ==
  ASSUME Inv, NEW k \in Task, LockInsert(k)
  PROVE  Forest!SfNext
<1> USE DEF Inv
<1> DEFINE c == job[k].other
           t == job[k].tree
           p == job[k].id
<1>1. step[k] = "lock" /\ job[k].op = "child" /\ ~Looking(k)
  BY DEF LockInsert, Locked, Looking
<1>2. c \in Id /\ p \in Id /\ t \in Tree /\ t # None /\ index[c] = t /\ Home[p] = t /\ c \notin nodes[t]
  BY <1>1, JobType, WorkerAtHome, NoneApart DEF ChildInv, Making
<1>3. nodes' = [nodes EXCEPT ![t] = @ \cup {c}] /\ UNCHANGED index
  BY DEF LockInsert
<1>4. \A x \in Id : Home'[x] = IF x = c THEN t ELSE Home[x]
  <2>1. ASSUME NEW x \in Id, x # c, index[x] # None
        PROVE  x \in nodes'[index[x]] <=> x \in nodes[index[x]]
    BY <1>2, <1>3, <2>1 DEF TypeOK
  <2>2. c \in nodes'[t]
    BY <1>2, <1>3 DEF TypeOK
  <2>3. QED
    BY <1>2, <1>3, <2>1, <2>2 DEF Home
<1>5. Home' = [Home EXCEPT ![c] = t]
  BY <1>4 DEF Home
<1>6. Forest!SfAdd(c, p)
  BY <1>2, <1>5 DEF LockInsert, Forest!SfAdd
<1>7. QED
  BY <1>2, <1>6 DEF Forest!SfNext

LEMMA LookMaps ==
  ASSUME Inv, NEW k \in Task, NEW id \in Id, NEW other \in Id, NEW to \in State,
         NEW op \in Op, Look(k, op, id, other, to)
  PROVE  [Forest!SfNext]_Forest!sfVars
<1>1. UNCHANGED <<Home, nodes, parent, state>>
  BY DEF Look, trees, Home
<1>2. CASE seen' = seen
  BY <1>1, <1>2 DEF Forest!sfVars
<1>3. CASE index[id] = None /\ seen' = [seen EXCEPT ![k] = None]
  <2>1. Home[id] = None
    BY <1>3 DEF Home
  <2>2. Forest!SfGet(k, id)
    BY <1>1, <1>3, <2>1 DEF Forest!SfGet
  <2>3. QED
    BY <2>2 DEF Forest!SfNext
<1>4. QED
  BY <1>2, <1>3 DEF Look

LEMMA GetMaps ==
  ASSUME Inv, NEW k \in Task, LockGet(k)
  PROVE  Forest!SfNext
<1> DEFINE t == job[k].tree
           id == job[k].id
<1>1. step[k] = "lock" /\ Looking(k) /\ id \in Id /\ t \in Tree
  BY JobType DEF LockGet, Looking, Inv
<1>2. UNCHANGED <<Home, nodes, parent, state>>
  BY DEF LockGet, trees, Home
<1>3. CASE id \in nodes[t]
  <2>1. \E x \in {state[t][id], parent[t][id]} : seen' = [seen EXCEPT ![k] = x]
    BY <1>3 DEF LockGet
  <2>2. QED
    BY <1>1, <1>2, <1>3, <2>1, Zenon DEF Forest!SfGet, Forest!SfNext
<1>4. CASE id \notin nodes[t]
  <2>1. index[id] = t
    BY <1>1, <1>4 DEF Inv, LookInv
  <2>2. Home[id] = None
    BY <1>1, <1>4, <2>1 DEF Home
  <2>3. seen' = [seen EXCEPT ![k] = None]
    BY <1>4 DEF LockGet
  <2>4. QED
    BY <1>1, <1>2, <2>2, <2>3 DEF Forest!SfGet, Forest!SfNext
<1>5. QED
  BY <1>3, <1>4

LEMMA ForestStep ==
  ASSUME Inv, [Next]_vars
  PROVE  [Forest!SfNext]_Forest!sfVars
<1>1. ASSUME NEW k \in Task, Call(k) PROVE [Forest!SfNext]_Forest!sfVars
  <2>1. ASSUME NEW id \in Id, CreateTree(k, id) PROVE Forest!SfNext
    BY <2>1, CreateMaps
  <2>2. ASSUME NEW id \in Id, RemoveRef(k, id) PROVE Forest!SfNext
    <3>1. index' = [index EXCEPT ![id] = None] /\ UNCHANGED <<nodes, parent, state, seen>>
      BY <2>2 DEF RemoveRef, trees
    <3>2. Home' = [Home EXCEPT ![id] = None]
      BY <3>1 DEF Home, Inv, TypeOK
    <3>3. QED
      BY <3>1, <3>2 DEF Forest!SfRemove, Forest!SfNext
  <2>3. ASSUME NEW id \in Id, NEW child \in Id, NewChild(k, id, child)
        PROVE  [Forest!SfNext]_Forest!sfVars
    BY <2>3, LookMaps, StoreAssumption DEF NewChild, Op
  <2>4. ASSUME NEW id \in Id, NEW to \in State,
               Update(k, id, to) \/ UpdateStateAndSignal(k, id, to) \/ UpdateAll(k, id, to)
        PROVE  [Forest!SfNext]_Forest!sfVars
    BY <2>4, LookMaps DEF Update, UpdateStateAndSignal, UpdateAll, Op
  <2>5. ASSUME NEW id \in Id, GetState(k, id) \/ GetParentId(k, id)
        PROVE  [Forest!SfNext]_Forest!sfVars
    BY <2>5, LookMaps, StoreAssumption DEF GetState, GetParentId, Op
  <2>6. QED
    BY <1>1, <2>1, <2>2, <2>3, <2>4, <2>5 DEF Call
<1>2. ASSUME NEW k \in Task, Continue(k) PROVE [Forest!SfNext]_Forest!sfVars
  <2> DEFINE id == job[k].id
             t == job[k].tree
             to == job[k].to
  <2>1. CASE InsertRef(k)
    <3>1. /\ index[job[k].other] = None /\ t # None /\ job[k].other \notin nodes[t]
          /\ index' = [index EXCEPT ![job[k].other] = t]
          /\ UNCHANGED <<nodes, parent, state, seen>>
      BY <2>1, JobType, NoneApart DEF InsertRef, WithRef, trees, Inv, ChildInv, Making
    <3>2. Home' = Home
      BY <3>1 DEF Home, Inv, TypeOK
    <3>3. QED
      BY <3>1, <3>2 DEF Forest!sfVars
  <2>2. CASE LockInsert(k)
    BY <2>2, InsertMaps
  <2>3. CASE LockUpdate(k) \/ LockUpdateForParent(k)
    <3>1. /\ step[k] = "lock" /\ ~Looking(k)
          /\ state' = [state EXCEPT ![t][id] = to]
          /\ UNCHANGED <<index, nodes, parent, seen>>
      BY <2>3 DEF LockUpdate, LockUpdateForParent, Locked, Looking
    <3>2. Home[id] = t /\ t # None /\ id \in Id /\ to \in State
      BY <3>1, WorkerAtHome, NoneApart
    <3>3. Home' = Home
      BY <3>1 DEF Home
    <3>4. Forest!SfUpdate(id, to)
      BY <3>1, <3>2, <3>3 DEF Forest!SfUpdate
    <3>5. QED
      BY <3>2, <3>4 DEF Forest!SfNext
  <2>4. CASE PushSignal(k)
    <3>1. UNCHANGED <<Home, nodes, parent, state, seen>>
      BY <2>4 DEF PushSignal, trees, Home
    <3>2. QED
      BY <3>1 DEF Forest!sfVars
  <2>5. CASE LockUpdateAll(k)
    <3>1. /\ step[k] = "lock" /\ ~Looking(k)
          /\ state' = [state EXCEPT ![t] = [n \in Id |-> IF n \in nodes[t] THEN to ELSE @[n]]]
          /\ UNCHANGED <<index, nodes, parent, seen>>
      BY <2>5 DEF LockUpdateAll, AllOf, Looking
    <3>2. Home[id] = t /\ t # None /\ id \in Id /\ to \in State
      BY <3>1, WorkerAtHome, NoneApart
    <3>3. Home' = Home
      BY <3>1 DEF Home
    <3>4. Forest!SfUpdateAll(id, to)
      BY <3>1, <3>2, <3>3 DEF Forest!SfUpdateAll
    <3>5. QED
      BY <3>2, <3>4 DEF Forest!SfNext
  <2>6. CASE LockGet(k)
    BY <2>6, GetMaps
  <2>7. ~LockPanic(k)
    BY WorkerAtHome, AtHome DEF LockPanic, Looking, Inv, JobInv
  <2>8. QED
    BY <1>2, <2>1, <2>2, <2>3, <2>4, <2>5, <2>6, <2>7 DEF Continue, LockById
<1>3. CASE UNCHANGED vars
  BY <1>3 DEF vars, trees, Home, Forest!sfVars
<1>4. QED
  BY <1>1, <1>2, <1>3 DEF Next

\* With references, look-ups and locks the store is still a forest with atomic operations:
\* no update is lost, none lands in another hierarchy, and no answer is of a state that the
\* id did not have.
THEOREM ForestCorrect == Patient /\ Spec => ForestSafety
<1>1. Inv /\ [Next]_vars => [Forest!SfNext]_Forest!sfVars
  BY ForestStep
<1>2. QED
  BY <1>1, ForestInit, InvCorrect, PTL DEF Spec, ForestSafety, Forest!SfSpec

-----------------------------------------------------------------------------
(***************************************************************************)
(* The reports.  Only the task of a child updates it and signals, one      *)
(* operation at a time, so at most one report of a child is on its way:    *)
(* the last one, which the operation still knows.  This needs no           *)
(* discipline of the callers.                                              *)
(***************************************************************************)
ReportOf(j) == [to |-> j.other, of |-> j.id, state |-> j.to]

OwnInv ==
  \A k \in Task :
    /\ step[k] = "ref" => job[k].op = "child"
    /\ step[k] = "lock" /\ job[k].op = "signal" => Owner[job[k].id] = k
    /\ step[k] = "push" => Owner[job[k].id] = k

LastInv ==
  \A k \in Task :
    LET id == job[k].id
    IN  step[k] = "push" => Len(saved[id]) > 0 /\ saved[id][Len(saved[id])] = ReportOf(job[k])

ReportInv == TypeOK /\ OwnInv /\ LastInv /\ ReportsExact

\* How many of the first i reports are about id.
Count(s, id, i) == Cardinality({j \in 1..i : s[j].of = id})

LEMMA CountType ==
  ASSUME NEW s, NEW id, NEW i \in Nat
  PROVE  Count(s, id, i) \in Nat /\ Count(s, id, i) <= i /\ Count(s, id, 0) = 0
<1>1. PICK A : A = {j \in 1..i : s[j].of = id}
  OBVIOUS
<1>2. PICK U : U = 1..i
  OBVIOUS
<1>3. IsFiniteSet(U) /\ Cardinality(U) = i
  BY <1>2, FS_Interval
<1>4. A \subseteq U
  BY <1>1, <1>2
<1>5. Cardinality(A) <= i /\ IsFiniteSet(A)
  BY <1>3, <1>4, FS_Subset
<1>6. Cardinality(A) \in Nat
  BY <1>5, FS_CardinalityType
<1>7. Count(s, id, 0) = 0
  <2>1. {j \in 1..0 : s[j].of = id} = {}
    OBVIOUS
  <2>2. QED
    BY <2>1, FS_EmptySet DEF Count
<1>8. QED
  BY <1>1, <1>5, <1>6, <1>7 DEF Count

\* An earlier signal about id has a smaller count than all of them.
LEMMA CountBelow ==
  ASSUME NEW s, NEW id, NEW n \in Nat, NEW i \in 1..n, s[i].of = id
  PROVE  Count(s, id, i) \in 1..Count(s, id, n)
<1>1. PICK A : A = {j \in 1..i : s[j].of = id}
  OBVIOUS
<1>2. PICK B : B = {j \in 1..n : s[j].of = id}
  OBVIOUS
<1>3. IsFiniteSet(B)
  <2>1. PICK U : U = 1..n
    OBVIOUS
  <2>2. IsFiniteSet(U)
    BY <2>1, FS_Interval
  <2>3. B \subseteq U
    BY <1>2, <2>1
  <2>4. QED
    BY <2>2, <2>3, FS_Subset
<1>4. A \subseteq B /\ i \in A
  BY <1>1, <1>2
<1>5. Cardinality(A) <= Cardinality(B) /\ IsFiniteSet(A)
  BY <1>3, <1>4, FS_Subset
<1>6. Cardinality(A) \in Nat /\ Cardinality(B) \in Nat /\ Cardinality(A) # 0
  BY <1>3, <1>4, <1>5, FS_CardinalityType, FS_EmptySet
<1>7. QED
  BY <1>1, <1>2, <1>5, <1>6 DEF Count

LEMMA CountAppend ==
  ASSUME NEW s \in Seq(Report), NEW m \in Report, NEW id
  PROVE  /\ \A i \in 0..Len(s) : Count(Append(s, m), id, i) = Count(s, id, i)
         /\ Count(Append(s, m), id, Len(s) + 1) = Count(s, id, Len(s)) + (IF m.of = id THEN 1 ELSE 0)
<1>1. PICK t : t = Append(s, m)
  OBVIOUS
<1>2. PICK n \in Nat : n = Len(s)
  OBVIOUS
<1>3. t[n + 1] = m /\ \A j \in 1..n : t[j] = s[j]
  BY <1>1, <1>2
<1>4. ASSUME NEW i \in 0..n PROVE Count(t, id, i) = Count(s, id, i)
  <2>1. \A j \in 1..i : j \in 1..n
    OBVIOUS
  <2>2. \A j \in 1..i : t[j].of = s[j].of
    BY <1>3, <2>1
  <2>3. {j \in 1..i : t[j].of = id} = {j \in 1..i : s[j].of = id}
    BY <2>2
  <2>4. QED
    BY <2>3 DEF Count
<1>5. PICK A : A = {j \in 1..n : s[j].of = id}
  OBVIOUS
<1>6. n + 1 \notin A /\ IsFiniteSet(A) /\ Cardinality(A) \in Nat
  <2>1. PICK U : U = 1..n
    OBVIOUS
  <2>2. IsFiniteSet(U)
    BY <2>1, FS_Interval
  <2>3. A \subseteq U /\ n + 1 \notin U
    BY <1>5, <2>1
  <2>4. QED
    BY <2>2, <2>3, FS_Subset, FS_CardinalityType
<1>7. {j \in 1..(n + 1) : t[j].of = id} = IF m.of = id THEN A \cup {n + 1} ELSE A
  <2>1. \A j \in 1..(n + 1) : j \in 1..n \/ j = n + 1
    OBVIOUS
  <2>2. \A j \in 1..n : j \in 1..(n + 1)
    OBVIOUS
  <2>3. n + 1 \in 1..(n + 1)
    OBVIOUS
  <2>4. \A j \in 1..(n + 1) : t[j].of = id <=> j \in A \/ (j = n + 1 /\ m.of = id)
    BY <1>3, <1>5, <1>6, <2>1
  <2>5. \A j \in A : j \in 1..(n + 1)
    BY <1>5, <2>2
  <2>6. QED
    BY <2>3, <2>4, <2>5
<1>8. Count(t, id, n + 1) = Cardinality(A) + (IF m.of = id THEN 1 ELSE 0)
  <2>1. CASE m.of = id
    <3>1. Cardinality(A \cup {n + 1}) = Cardinality(A) + 1
      BY <1>6, FS_AddElement
    <3>2. Count(t, id, n + 1) = Cardinality(A \cup {n + 1})
      BY <1>7, <2>1 DEF Count
    <3>3. QED
      BY <2>1, <3>1, <3>2
  <2>2. CASE m.of # id
    <3>1. Count(t, id, n + 1) = Cardinality(A)
      BY <1>7, <2>2 DEF Count
    <3>2. QED
      BY <1>6, <2>2, <3>1
  <2>3. QED
    BY <2>1, <2>2
<1>9. QED
  BY <1>1, <1>2, <1>4, <1>5, <1>8 DEF Count

LEMMA ReportInit == Init => ReportInv
<1> SUFFICES ASSUME Init PROVE ReportInv
  OBVIOUS
<1>1. TypeOK /\ OwnInv /\ LastInv
  BY TypeInit DEF Init, OwnInv, LastInv
<1>2. ReportsExact
  <2>1. signals = <<>> /\ \A id \in Id : saved[id] = <<>> /\ ~Late(id)
    BY DEF Init, Late
  <2>2. \A id : Heard(id, 0) = 0
    BY CountType DEF Heard, Count
  <2>3. Len(signals) = 0 /\ DOMAIN signals = {} /\ \A id \in Id : Len(saved[id]) = 0
    BY <2>1
  <2>4. \A id \in Id : Heard(id, Len(signals)) = 0 - (IF Late(id) THEN 1 ELSE 0)
    BY <2>1, <2>2, <2>3
  <2>5. QED
    BY <2>3, <2>4 DEF ReportsExact
<1>3. QED
  BY <1>1, <1>2 DEF ReportInv

\* Steps that push nothing and save nothing.
LEMMA SameReports ==
  ASSUME ReportInv, TypeOK', signals' = signals, saved' = saved, OwnInv',
         \A k \in Task : /\ step'[k] = "push" <=> step[k] = "push"
                         /\ step[k] = "push" => job'[k] = job[k]
  PROVE  ReportInv'
<1>1. \A id \in Id : Late(id)' <=> Late(id)
  BY DEF Late
<1>2. \A id, i : Heard(id, i)' = Heard(id, i)
  BY DEF Heard
<1>3. ReportsExact'
  BY <1>1, <1>2 DEF ReportInv, ReportsExact
<1>4. LastInv'
  BY DEF ReportInv, LastInv, ReportOf
<1>5. QED
  BY <1>3, <1>4 DEF ReportInv

LEMMA LookReports ==
  ASSUME ReportInv, NEW k \in Task, NEW id \in Id, NEW other \in Id, NEW to \in State,
         NEW op \in Op, Look(k, op, id, other, to), op = "signal" => Owner[id] = k
  PROVE  ReportInv'
<1> DEFINE j == [op |-> op, id |-> id, other |-> other, to |-> to, tree |-> index[id]]
<1>1. TypeOK'
  BY LookType DEF ReportInv
<1>2. /\ job' = [job EXCEPT ![k] = j] /\ step[k] = "idle" /\ signals' = signals /\ saved' = saved
      /\ step' = [step EXCEPT ![k] = step'[k]]
      /\ step'[k] \in {"idle", "panicked", "ref", "lock"}
      /\ step'[k] = "ref" => op = "child"
  BY DEF Look, After, GoesOn, Begin, GoTo, ReportInv, TypeOK
<1>3. /\ job'[k] = j
      /\ \A q \in Task \ {k} : step'[q] = step[q] /\ job'[q] = job[q]
  BY <1>2 DEF ReportInv, TypeOK
<1>4. OwnInv'
  BY <1>2, <1>3 DEF ReportInv, OwnInv
<1>5. QED
  BY <1>1, <1>2, <1>3, <1>4, SameReports

\* What an operation with the mutex of its tree does, when nothing is reported.
LEMMA LockReports ==
  ASSUME ReportInv, TypeOK', NEW k \in Task, signals' = signals, saved' = saved, job' = job,
         step[k] \in {"ref", "lock"},
         step' = [step EXCEPT ![k] = step'[k]],
         step'[k] \in {"idle", "bug"} \/ (step[k] = "ref" /\ step'[k] = "lock")
  PROVE  ReportInv'
<1>1. \A q \in Task \ {k} : step'[q] = step[q]
  BY DEF ReportInv, TypeOK
<1>2. OwnInv'
  BY <1>1 DEF ReportInv, OwnInv
<1>3. QED
  BY <1>1, <1>2, SameReports

LEMMA UpdateReports ==
  ASSUME ReportInv, TypeOK', NEW k \in Task, LockUpdateForParent(k)
  PROVE  ReportInv'
<1> PICK j : j = job[k]
  BY Zenon
<1> PICK p : p = parent[j.tree][j.id]
  BY Zenon
<1> PICK r : r = [to |-> p, of |-> j.id, state |-> j.to]
  BY Zenon
<1>1. /\ step[k] = "lock" /\ j.op = "signal" /\ Owner[j.id] = k /\ j \in Job /\ j.id \in Id
      /\ step \in [Task -> {"idle", "ref", "lock", "push", "panicked", "bug"}]
      /\ job \in [Task -> Job \cup {None}]
  BY JobType DEF ReportInv, OwnInv, LockUpdateForParent, Locked, TypeOK
<1>2. CASE ~(p # None /\ j.to \in Reported)
  <2>1. signals' = signals /\ saved' = saved /\ job' = job /\ step' = [step EXCEPT ![k] = "idle"]
    BY <1>2 DEF LockUpdateForParent, GoTo
  <2>2. step'[k] = "idle"
    BY <1>1, <2>1
  <2>3. QED
    BY <1>1, <2>1, <2>2, LockReports
<1>3. CASE p # None /\ j.to \in Reported
  <2>1. /\ signals' = signals /\ step' = [step EXCEPT ![k] = "push"]
        /\ saved' = [saved EXCEPT ![j.id] = Append(saved[j.id], r)]
        /\ job' = [job EXCEPT ![k] = [j EXCEPT !.other = p]]
    BY <1>3 DEF LockUpdateForParent, GoTo
  <2>2. PICK i : i = [j EXCEPT !.other = p]
    OBVIOUS
  <2>3. i.op = "signal" /\ i.id = j.id /\ i.to = j.to /\ i.other = p
    BY <1>1, <2>2 DEF Job
  <2>4. /\ job'[k] = i /\ step'[k] = "push"
        /\ \A q \in Task \ {k} : step'[q] = step[q] /\ job'[q] = job[q]
    BY <1>1, <2>1, <2>2
  <2>5. OwnInv'
    BY <1>1, <2>3, <2>4 DEF ReportInv, OwnInv
  <2>6. saved \in [Id -> Seq(Report)] /\ saved' \in [Id -> Seq(Report)] /\ signals \in Seq(Report)
    BY DEF ReportInv, TypeOK
  <2>7. PICK s \in Seq(Report) : s = saved[j.id]
    BY <1>1, <2>6
  <2>8. /\ saved'[j.id] = Append(s, r) /\ \A x \in Id \ {j.id} : saved'[x] = saved[x]
        /\ Append(s, r) \in Seq(Report)
    BY <1>1, <2>1, <2>6, <2>7
  <2>9. PICK t \in Seq(Report) : t = Append(s, r)
    BY <2>8
  <2>10. /\ Len(s) \in Nat /\ Len(t) = Len(s) + 1 /\ t[Len(s) + 1] = r /\ t[Len(t)] = r
         /\ \A n \in 1..Len(s) : t[n] = s[n]
    BY <2>7, <2>9
  <2>11. \A q \in Task \ {k} : step[q] = "push" => job[q].id # j.id
    BY <1>1 DEF ReportInv, OwnInv
  <2>12. LastInv'
    <3>1. ASSUME NEW q \in Task, step'[q] = "push"
          PROVE  /\ Len(saved'[job'[q].id]) > 0
                 /\ saved'[job'[q].id][Len(saved'[job'[q].id])] = ReportOf(job'[q])
      <4>1. CASE q = k
        <5>1. saved'[job'[q].id] = t
          BY <2>3, <2>4, <2>8, <2>9, <4>1
        <5>2. ReportOf(job'[q]) = r
          BY <2>3, <2>4, <4>1 DEF ReportOf
        <5>3. Len(t) > 0 /\ t[Len(t)] = r
          BY <2>10
        <5>4. QED
          BY <5>1, <5>2, <5>3
      <4>2. CASE q # k
        <5>1. step[q] = "push" /\ job'[q] = job[q] /\ job[q].id # j.id /\ job[q].id \in Id
          BY <2>4, <2>11, <3>1, <4>2, JobType DEF ReportInv
        <5>2. saved'[job[q].id] = saved[job[q].id]
          BY <2>8, <5>1
        <5>3. QED
          BY <5>1, <5>2 DEF ReportInv, LastInv
      <4>3. QED
        BY <4>1, <4>2
    <3>2. QED
      BY <3>1 DEF LastInv, ReportOf
  <2>13. ~Late(j.id) /\ Late(j.id)' /\ \A x \in Id \ {j.id} : Late(x)' <=> Late(x)
    <3>1. ~Late(j.id)
      BY <1>1, <2>11 DEF Late
    <3>2. Late(j.id)'
      BY <2>3, <2>4 DEF Late
    <3>3. \A x \in Id \ {j.id} : Late(x)' <=> Late(x)
      BY <1>1, <2>3, <2>4 DEF Late
    <3>4. QED
      BY <3>1, <3>2, <3>3
  <2>14. \A x, n : Heard(x, n)' = Heard(x, n)
    BY <2>1 DEF Heard
  <2>15. ASSUME NEW x \in Id
         PROVE  /\ Heard(x, Len(signals))' = Len(saved'[x]) - (IF Late(x)' THEN 1 ELSE 0)
                /\ \A n \in DOMAIN signals' : signals'[n].of = x => signals'[n] = saved'[x][Heard(x, n)']
    <3>1. /\ Heard(x, Len(signals)) = Len(saved[x]) - (IF Late(x) THEN 1 ELSE 0)
          /\ \A n \in DOMAIN signals : signals[n].of = x => signals[n] = saved[x][Heard(x, n)]
      BY DEF ReportInv, ReportsExact
    <3>2. Heard(x, Len(signals))' = Heard(x, Len(signals))
      BY <2>1, <2>14
    <3>3. CASE x # j.id
      <4>1. saved'[x] = saved[x] /\ (Late(x)' <=> Late(x)) /\ signals' = signals
        BY <2>1, <2>8, <2>13, <3>3
      <4>2. Heard(x, Len(signals))' = Len(saved'[x]) - (IF Late(x)' THEN 1 ELSE 0)
        BY <3>1, <3>2, <4>1
      <4>3. ASSUME NEW n \in DOMAIN signals', signals'[n].of = x
            PROVE  signals'[n] = saved'[x][Heard(x, n)']
        BY <2>14, <3>1, <4>1, <4>3
      <4>4. QED
        BY <4>2, <4>3
    <3>4. CASE x = j.id
      <4>1. saved[x] = s /\ saved'[x] = t /\ Heard(x, Len(signals)) = Len(s)
        <5>1. saved[x] = s /\ saved'[x] = t
          BY <2>7, <2>8, <2>9, <3>4
        <5>2. Heard(x, Len(signals)) = Len(saved[x])
          BY <2>6, <2>13, <3>1, <3>4
        <5>3. QED
          BY <5>1, <5>2
      <4>2. Heard(x, Len(signals))' = Len(t) - 1
        BY <2>10, <3>2, <4>1
      <4>3. ASSUME NEW n \in DOMAIN signals, signals[n].of = x PROVE signals[n] = t[Heard(x, n)]
        <5>1. n \in 1..Len(signals) /\ Len(signals) \in Nat
          BY <2>6
        <5>2. Heard(x, n) \in 1..Heard(x, Len(signals))
          <6>1. Count(signals, x, n) \in 1..Count(signals, x, Len(signals))
            BY <4>3, <5>1, CountBelow
          <6>2. QED
            BY <6>1 DEF Heard, Count
        <5>3. QED
          BY <2>10, <3>1, <4>1, <4>3, <5>2
      <4>4. QED
        BY <2>1, <2>13, <2>14, <3>4, <4>1, <4>2, <4>3
    <3>5. QED
      BY <3>3, <3>4
  <2>16. ReportsExact'
    BY <2>15 DEF ReportsExact
  <2>17. QED
    BY <2>5, <2>12, <2>16 DEF ReportInv
<1>4. QED
  BY <1>2, <1>3

LEMMA PushReports ==
  ASSUME ReportInv, TypeOK', NEW k \in Task, PushSignal(k)
  PROVE  ReportInv'
<1> PICK j : j = job[k]
  OBVIOUS
<1> PICK m : m = ReportOf(j)
  OBVIOUS
<1>1. /\ step[k] = "push" /\ Owner[j.id] = k /\ j.id \in Id /\ m \in Report /\ m.of = j.id
      /\ step \in [Task -> {"idle", "ref", "lock", "push", "panicked", "bug"}]
  <2>1. step[k] = "push" /\ Owner[j.id] = k
    BY DEF PushSignal, ReportInv, OwnInv
  <2>2. j.other \in Id /\ j.id \in Id /\ j.to \in State
    BY <2>1, JobType DEF ReportInv
  <2>3. QED
    BY <2>1, <2>2 DEF ReportOf, Report, ReportInv, TypeOK
<1>2. /\ signals' = Append(signals, m) /\ step' = [step EXCEPT ![k] = "idle"]
      /\ job' = job /\ saved' = saved
  BY DEF PushSignal, StateStored, ReportOf, GoTo
<1>3. step'[k] = "idle" /\ \A q \in Task \ {k} : step'[q] = step[q]
  BY <1>1, <1>2
<1>4. OwnInv' /\ LastInv'
  BY <1>2, <1>3 DEF ReportInv, OwnInv, LastInv, ReportOf
<1>5. signals \in Seq(Report) /\ saved \in [Id -> Seq(Report)]
  BY DEF ReportInv, TypeOK
<1>6. PICK n \in Nat : n = Len(signals)
  BY <1>5
<1>7. PICK t : t = Append(signals, m)
  OBVIOUS
<1>8. /\ signals' = t /\ Len(t) = n + 1 /\ DOMAIN t = 1..(n + 1) /\ DOMAIN signals = 1..n
      /\ t[n + 1] = m /\ \A i \in 1..n : t[i] = signals[i]
  BY <1>1, <1>2, <1>5, <1>6, <1>7
<1>9. \A x : /\ \A i \in 1..n : Heard(x, i)' = Heard(x, i)
             /\ Heard(x, n + 1)' = Heard(x, n) + (IF m.of = x THEN 1 ELSE 0)
  <2>1. \A x, i : Heard(x, i)' = Count(t, x, i) /\ Heard(x, i) = Count(signals, x, i)
    BY <1>8 DEF Heard, Count
  <2>2. \A i \in 1..n : i \in 0..n
    OBVIOUS
  <2>3. QED
    BY <1>1, <1>5, <1>6, <1>7, <2>1, <2>2, CountAppend
<1>10. Late(j.id) /\ ~Late(j.id)' /\ \A x \in Id \ {j.id} : Late(x)' <=> Late(x)
  <2>1. Late(j.id)
    BY <1>1 DEF Late
  <2>2. ~Late(j.id)'
    BY <1>1, <1>2, <1>3 DEF Late, ReportInv, OwnInv
  <2>3. \A x \in Id \ {j.id} : Late(x)' <=> Late(x)
    BY <1>2, <1>3 DEF Late
  <2>4. QED
    BY <2>1, <2>2, <2>3
<1>11. ASSUME NEW x \in Id
       PROVE  /\ Heard(x, Len(signals))' = Len(saved'[x]) - (IF Late(x)' THEN 1 ELSE 0)
              /\ \A i \in DOMAIN signals' : signals'[i].of = x => signals'[i] = saved'[x][Heard(x, i)']
  <2>1. /\ Heard(x, n) = Len(saved[x]) - (IF Late(x) THEN 1 ELSE 0)
        /\ \A i \in DOMAIN signals : signals[i].of = x => signals[i] = saved[x][Heard(x, i)]
    BY <1>6 DEF ReportInv, ReportsExact
  <2>2. PICK l \in Nat : l = Len(saved[x])
    BY <1>5
  <2>3. Heard(x, Len(signals))' = Heard(x, n + 1)'
    BY <1>8 DEF Heard
  <2>4. CASE x = j.id
    <3>1. Heard(x, n) = l - 1 /\ Heard(x, n + 1)' = l /\ saved[x][l] = m
      <4>1. Heard(x, n) = l - 1 /\ Heard(x, n + 1)' = (l - 1) + 1
        BY <1>1, <1>9, <1>10, <2>1, <2>2, <2>4
      <4>2. saved[x][l] = m
        BY <1>1, <2>2, <2>4 DEF ReportInv, LastInv
      <4>3. QED
        BY <2>2, <4>1, <4>2
    <3>2. ASSUME NEW i \in DOMAIN signals', signals'[i].of = x PROVE signals'[i] = saved'[x][Heard(x, i)']
      <4>1. CASE i = n + 1
        BY <1>2, <1>8, <3>1, <4>1
      <4>2. CASE i \in 1..n
        BY <1>2, <1>8, <1>9, <2>1, <3>2, <4>2
      <4>3. QED
        BY <1>8, <4>1, <4>2
    <3>3. QED
      BY <1>2, <1>10, <2>2, <2>3, <2>4, <3>1, <3>2
  <2>5. CASE x # j.id
    <3>1. Heard(x, n + 1)' = Heard(x, n) + 0 /\ (Late(x)' <=> Late(x))
      BY <1>1, <1>9, <1>10, <2>5
    <3>2. Heard(x, n) \in Nat
      <4>1. Count(signals, x, n) \in Nat
        BY CountType
      <4>2. QED
        BY <4>1 DEF Heard, Count
    <3>3. Heard(x, n + 1)' = Heard(x, n)
      BY <3>1, <3>2
    <3>4. ASSUME NEW i \in DOMAIN signals', signals'[i].of = x PROVE signals'[i] = saved'[x][Heard(x, i)']
      <4>1. i \in 1..n
        BY <1>1, <1>8, <2>5, <3>4
      <4>2. QED
        BY <1>2, <1>8, <1>9, <2>1, <3>4, <4>1
    <3>5. QED
      BY <1>2, <2>1, <2>3, <3>1, <3>3, <3>4
  <2>6. QED
    BY <2>4, <2>5
<1>12. ReportsExact'
  BY <1>11 DEF ReportsExact
<1>13. QED
  BY <1>4, <1>12 DEF ReportInv

LEMMA ReportStep == ReportInv /\ [Next]_vars => ReportInv'
<1> SUFFICES ASSUME ReportInv, [Next]_vars PROVE ReportInv'
  OBVIOUS
<1>1. TypeOK'
  BY TypeStep DEF ReportInv
<1>2. ASSUME NEW k \in Task, Call(k) PROVE ReportInv'
  <2>1. ASSUME NEW id \in Id, CreateTree(k, id) \/ RemoveRef(k, id) PROVE ReportInv'
    <3>1. UNCHANGED <<step, job, signals, saved>>
      BY <2>1 DEF CreateTree, RemoveRef
    <3>2. OwnInv'
      BY <3>1 DEF ReportInv, OwnInv
    <3>3. QED
      BY <1>1, <3>1, <3>2, SameReports
  <2>2. ASSUME NEW id \in Id, NEW child \in Id, NewChild(k, id, child) PROVE ReportInv'
    BY <2>2, LookReports, StoreAssumption DEF NewChild, Op
  <2>3. ASSUME NEW id \in Id, NEW to \in State,
               Update(k, id, to) \/ UpdateStateAndSignal(k, id, to) \/ UpdateAll(k, id, to)
        PROVE  ReportInv'
    BY <2>3, LookReports DEF Update, UpdateStateAndSignal, UpdateAll, Op
  <2>4. ASSUME NEW id \in Id, GetState(k, id) \/ GetParentId(k, id) PROVE ReportInv'
    BY <2>4, LookReports, StoreAssumption DEF GetState, GetParentId, Op
  <2>5. QED
    BY <1>2, <2>1, <2>2, <2>3, <2>4 DEF Call
<1>3. ASSUME NEW k \in Task, Continue(k) PROVE ReportInv'
  <2>1. step \in [Task -> {"idle", "ref", "lock", "push", "panicked", "bug"}]
    BY DEF ReportInv, TypeOK
  <2>2. CASE InsertRef(k)
    BY <1>1, <2>1, <2>2, LockReports DEF InsertRef, GoTo
  <2>3. CASE LockInsert(k)
    BY <1>1, <2>1, <2>3, LockReports DEF LockInsert, Locked, GoTo
  <2>4. CASE LockUpdate(k)
    BY <1>1, <2>1, <2>4, LockReports DEF LockUpdate, Locked, GoTo
  <2>5. CASE LockUpdateForParent(k)
    BY <1>1, <2>5, UpdateReports
  <2>6. CASE PushSignal(k)
    BY <1>1, <2>6, PushReports
  <2>7. CASE LockUpdateAll(k)
    BY <1>1, <2>1, <2>7, LockReports DEF LockUpdateAll, GoTo
  <2>8. CASE LockGet(k)
    BY <1>1, <2>1, <2>8, LockReports DEF LockGet, GoTo
  <2>9. CASE LockPanic(k)
    BY <1>1, <2>1, <2>9, LockReports DEF LockPanic, GoTo
  <2>10. QED
    BY <1>3, <2>2, <2>3, <2>4, <2>5, <2>6, <2>7, <2>8, <2>9 DEF Continue, LockById
<1>4. CASE UNCHANGED vars
  <2>1. UNCHANGED <<step, job, signals, saved>>
    BY <1>4 DEF vars
  <2>2. OwnInv'
    BY <2>1 DEF ReportInv, OwnInv
  <2>3. QED
    BY <1>1, <2>1, <2>2, SameReports
<1>5. QED
  BY <1>2, <1>3, <1>4 DEF Next

\* A parent hears every state that its child reported, each once and in order, for any number
\* of tasks, trees and ids, and whether or not the callers wait.
THEOREM ReportsCorrect == Spec => []ReportsExact
<1>1. ReportInv => ReportsExact
  BY DEF ReportInv
<1>2. QED
  BY <1>1, ReportInit, ReportStep, PTL DEF Spec
=============================================================================
