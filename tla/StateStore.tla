-------------------------------- MODULE StateStore --------------------------------
(***************************************************************************)
(* The StateStore of src/storage.rs and the operations on it that state    *)
(* machines inherit from StateMachine and StateMachineExt in               *)
(* src/manager.rs.  The store is an index from ids to shared trees; a tree *)
(* is a FairMutex around a root node.  The tasks that hold an SmContext    *)
(* work on it at the same time, every id being the context of one task.    *)
(*                                                                         *)
(* The index (a DashMap) and a tree are accessed in separate steps: an     *)
(* operation first looks its tree up, and later locks it, so other tasks   *)
(* run in between.  What is done with the mutex of a tree held touches     *)
(* only that tree and is one action, its traversals being those of Zipper. *)
(***************************************************************************)
EXTENDS Naturals, Sequences, FiniteSets

CONSTANTS
  Id,        \* state ids; every new state gets an id of its own (StateId::new_rand)
  Task,      \* tasks that operate on the store
  Owner,     \* the task that has the SmContext of an id
  State,     \* the states of a node
  New,       \* Kind::new_state
  Reported,  \* the states for which Rex::state_input has an input for the parent
  Eager,     \* TRUE: a task uses its id as soon as SmContext::has_state says so
             \* FALSE: it waits until the call that makes the id has returned
  None,      \* no id, no tree, no state
  MaxTrees,  \* bound: how many trees are ever created
  MaxOps     \* bound: how many operations are ever begun

ASSUME StoreAssumption ==
  /\ Owner \in [Id -> Task]
  /\ New \in State
  /\ Reported \subseteq State
  /\ Eager \in BOOLEAN
  /\ None \notin Id \cup State \cup Nat
  /\ MaxTrees \in Nat
  /\ MaxOps \in Nat

VARIABLES
  index,    \* StateStore.trees: id -> tree, or None
  root,     \* the id of each tree's root node; None if the tree is not there yet
  nodes,    \* the ids in each tree
  parent,   \* tree -> id -> the parent, or None
  state,    \* tree -> id -> Node.state
  step,     \* where each task is in its operation
  job,      \* the operation of each task
  made,     \* the ids whose create_tree or new_child has returned, and that were not removed
  begun,    \* how many operations were begun
  seen,     \* what get_state or get_parent_id answered each task last
  signals,  \* the signals pushed to the back lane of the signal queue
  saved     \* history: what update_state_and_signal made of each child, and for which parent

trees == <<root, nodes, parent, state>>
vars == <<index, trees, step, job, made, begun, seen, signals, saved>>

Tree == 1..MaxTrees

\* An operation in progress; `other` is the child to make, later the parent to be told.
Op == {"child", "update", "signal", "all", "get", "parent"}
Job == [op : Op, id : Id, other : Id,
        to : State, tree : Tree \cup {None}]
Report == [to : Id, of : Id, state : State]

\* Type invariant; the trees that the index and the operations refer to are there.
TypeOK ==
  /\ index \in [Id -> Tree \cup {None}]
  /\ \A id \in Id : index[id] # None => root[index[id]] # None
  /\ root \in [Tree -> Id \cup {None}]
  /\ nodes \in [Tree -> SUBSET Id]
  /\ parent \in [Tree -> [Id -> Id \cup {None}]]
  /\ state \in [Tree -> [Id -> State]]
  /\ step \in [Task -> {"idle", "ref", "lock", "push", "panicked", "bug"}]
  /\ job \in [Task -> Job \cup {None}]
  /\ \A k \in Task : step[k] \in {"ref", "lock", "push"} =>
       job[k] \in Job /\ job[k].tree # None /\ root[job[k].tree] # None
  /\ made \in SUBSET Id
  /\ begun \in 0..MaxOps
  /\ seen \in [Task -> State \cup Id \cup {None}]
  /\ signals \in Seq(Report)
  /\ saved \in [Id -> Seq(Report)]

Init ==
  /\ index = [id \in Id |-> None]
  /\ root = [t \in Tree |-> None]
  /\ nodes = [t \in Tree |-> {}]
  /\ parent = [t \in Tree |-> [id \in Id |-> None]]
  /\ state = [t \in Tree |-> [id \in Id |-> New]]
  /\ step = [k \in Task |-> "idle"]
  /\ job = [k \in Task |-> None]
  /\ made = {}
  /\ begun = 0
  /\ seen = [k \in Task |-> None]
  /\ signals = <<>>
  /\ saved = [id \in Id |-> <<>>]

-----------------------------------------------------------------------------
\* A task that is in no operation begins one.
Begin(k) == step[k] = "idle" /\ begun < MaxOps /\ begun' = begun + 1
GoTo(k, s) == step' = [step EXCEPT ![k] = s]

\* A new_child of id is under way; a fresh id is one that nobody has used.
BeingMade(id) ==
  \E k \in Task : step[k] \in {"ref", "lock"} /\ job[k].op = "child" /\ job[k].other = id
Fresh(id) == index[id] = None /\ ~BeingMade(id) /\ \A t \in Tree : id \notin nodes[t]

\* What a task takes to be stored.
UsableEarly(id) == index[id] # None
Usable(id) == IF Eager THEN index[id] # None ELSE id \in made

\* StateMachineExt::create_tree: a new tree, and its reference in the index.  The id may have
\* one already; then it leaves that tree to those who are in it.
CreateTree(k, id) ==
  /\ Begin(k) /\ Owner[id] = k /\ (Fresh(id) \/ Usable(id))
  /\ \E t \in Tree :
       /\ root[t] = None
       /\ \A u \in 1..(t - 1) : root[u] # None
       /\ root' = [root EXCEPT ![t] = id]
       /\ nodes' = [nodes EXCEPT ![t] = {id}]
       /\ parent' = [parent EXCEPT ![t][id] = None]
       /\ state' = [state EXCEPT ![t][id] = New]
       /\ index' = [index EXCEPT ![id] = t]
  /\ made' = made \cup {id}
  /\ UNCHANGED <<step, job, seen, signals, saved>>

\* StateStore::remove_ref: the entry goes, the node stays in its tree.
RemoveRef(k, id) ==
  /\ Begin(k) /\ Owner[id] = k /\ Usable(id)
  /\ index' = [index EXCEPT ![id] = None]
  /\ made' = made \ {id}
  /\ UNCHANGED <<trees, step, job, seen, signals, saved>>

\* Every other operation begins with StateStore::get_tree.  Without a tree it panics, as
\* documented, and nothing happens to the store; get_state and get_parent_id answer None.
GoesOn(op) == IF op = "child" THEN "ref" ELSE "lock"
AfterUnchecked(op, id) == GoesOn(op)
After(op, id) ==
  IF index[id] # None THEN GoesOn(op)
  ELSE IF op \in {"get", "parent"} THEN "idle" ELSE "panicked"
Look(k, op, id, other, to) ==
  /\ Begin(k)
  /\ job' = [job EXCEPT ![k] =
       [op |-> op, id |-> id, other |-> other, to |-> to, tree |-> index[id]]]
  /\ GoTo(k, After(op, id))
  /\ seen' = IF op \in {"get", "parent"} /\ index[id] = None
             THEN [seen EXCEPT ![k] = None] ELSE seen
  /\ UNCHANGED <<index, trees, made, signals, saved>>

NewChild(k, id, child) ==
  /\ Owner[id] = k /\ Usable(id) /\ Fresh(child) /\ child # id
  /\ Look(k, "child", id, child, New)
Update(k, id, to) ==
  /\ Owner[id] = k /\ (Usable(id) \/ Fresh(id))
  /\ Look(k, "update", id, id, to)
UpdateStateAndSignal(k, id, to) ==
  /\ Owner[id] = k /\ (Usable(id) \/ Fresh(id))
  /\ Look(k, "signal", id, id, to)
UpdateAll(k, id, to) == Owner[id] = k /\ Usable(id) /\ Look(k, "all", id, id, to)
GetState(k, id) == Look(k, "get", id, id, New)
GetParentId(k, id) == Look(k, "parent", id, id, New)

-----------------------------------------------------------------------------
\* new_child between its look-up and its lock: StateStore::insert_ref.
WithoutRef(j) == index
WithRef(j) == [index EXCEPT ![j.other] = j.tree]
InsertRef(k) ==
  /\ step[k] = "ref"
  /\ index' = WithRef(job[k])
  /\ GoTo(k, "lock")
  /\ UNCHANGED <<trees, job, made, begun, seen, signals, saved>>

\* An operation with the mutex of its tree, which has the node that it names.
Locked(k, op) ==
  /\ step[k] = "lock" /\ job[k].op = op
  /\ job[k].id \in nodes[job[k].tree]

\* Node::insert; new_child returns.
LockInsert(k) ==
  LET j == job[k]
  IN /\ Locked(k, "child")
     /\ nodes' = [nodes EXCEPT ![j.tree] = @ \cup {j.other}]
     /\ parent' = [parent EXCEPT ![j.tree][j.other] = j.id]
     /\ state' = [state EXCEPT ![j.tree][j.other] = New]
     /\ made' = made \cup {j.other}
     /\ GoTo(k, "idle")
     /\ UNCHANGED <<index, root, job, begun, seen, signals, saved>>

\* Node::update.
LockUpdate(k) ==
  LET j == job[k]
  IN /\ Locked(k, "update")
     /\ state' = [state EXCEPT ![j.tree][j.id] = j.to]
     /\ GoTo(k, "idle")
     /\ UNCHANGED <<index, root, nodes, parent, job, made, begun, seen, signals, saved>>

\* Node::update_and_get_parent_id; the guard is dropped before the signal to the parent.
LockUpdateForParent(k) ==
  LET j == job[k]
      p == parent[j.tree][j.id]
      heard == p # None /\ j.to \in Reported
      report == [to |-> p, of |-> j.id, state |-> j.to]
  IN /\ Locked(k, "signal")
     /\ state' = [state EXCEPT ![j.tree][j.id] = j.to]
     /\ saved' = IF heard THEN [saved EXCEPT ![j.id] = Append(@, report)] ELSE saved
     /\ job' = IF heard THEN [job EXCEPT ![k].other = p] ELSE job
     /\ GoTo(k, IF heard THEN "push" ELSE "idle")
     /\ UNCHANGED <<index, root, nodes, parent, made, begun, seen, signals>>

\* SignalExt::signal_state_change with the state that was stored, not with the present one.
StateNow(j) == state[j.tree][j.id]
StateStored(j) == j.to
PushSignal(k) ==
  LET j == job[k]
  IN /\ step[k] = "push"
     /\ signals' = Append(signals, [to |-> j.other, of |-> j.id, state |-> StateStored(j)])
     /\ GoTo(k, "idle")
     /\ UNCHANGED <<index, trees, job, made, begun, seen, saved>>

\* Node::update_all_fn with a function that sets the state, wherever in the tree the id is.
AllBelow(t) == nodes[t] \ {root[t]}
AllOf(t) == nodes[t]
LockUpdateAll(k) ==
  LET j == job[k]
  IN /\ step[k] = "lock" /\ j.op = "all"
     /\ state' = [state EXCEPT ![j.tree] =
          [id \in Id |-> IF id \in AllOf(j.tree) THEN j.to ELSE @[id]]]
     /\ GoTo(k, "idle")
     /\ UNCHANGED <<index, root, nodes, parent, job, made, begun, seen, signals, saved>>

\* Node::get_state and Node::get_parent_id, and nothing for an id that is not in the tree.
LockGet(k) ==
  LET j == job[k]
      found == IF j.op = "get" THEN state[j.tree][j.id] ELSE parent[j.tree][j.id]
  IN /\ step[k] = "lock" /\ j.op \in {"get", "parent"}
     /\ seen' = [seen EXCEPT ![k] = IF j.id \in nodes[j.tree] THEN found ELSE None]
     /\ GoTo(k, "idle")
     /\ UNCHANGED <<index, trees, job, made, begun, signals, saved>>

\* Zipper::by_id does not find the node in the tree and panics: of the tree only the fresh
\* root is left that Node::insert or Node::update had swapped in.
LockPanic(k) ==
  LET j == job[k]
  IN /\ step[k] = "lock" /\ j.op \in {"child", "update", "signal"} /\ j.id \notin nodes[j.tree]
     /\ nodes' = [nodes EXCEPT ![j.tree] = {root[j.tree]}]
     /\ state' = [state EXCEPT ![j.tree] = [id \in Id |-> New]]
     /\ parent' = [parent EXCEPT ![j.tree] = [id \in Id |-> None]]
     /\ GoTo(k, "bug")
     /\ UNCHANGED <<index, root, job, made, begun, seen, signals, saved>>

\* The operations that go through Zipper::by_id, which asserts that it found the node.
LockById(k) ==
  /\ step[k] = "lock" /\ job[k].op \in {"child", "update", "signal"}
  /\ IF job[k].id \in nodes[job[k].tree]
     THEN LockInsert(k) \/ LockUpdate(k) \/ LockUpdateForParent(k)
     ELSE LockPanic(k)

-----------------------------------------------------------------------------
Continue(k) ==
  \/ InsertRef(k)
  \/ LockById(k)
  \/ PushSignal(k)
  \/ LockUpdateAll(k)
  \/ LockGet(k)

Call(k) ==
  \/ \E id \in Id : CreateTree(k, id) \/ RemoveRef(k, id)
  \/ \E id, child \in Id : NewChild(k, id, child)
  \/ \E id \in Id, to \in State :
       Update(k, id, to) \/ UpdateStateAndSignal(k, id, to) \/ UpdateAll(k, id, to)
  \/ \E id \in Id : GetState(k, id) \/ GetParentId(k, id)

Next == \E k \in Task : Call(k) \/ Continue(k)

Spec == Init /\ [][Next]_vars

-----------------------------------------------------------------------------
\* The index and the trees agree.  What was made and not removed is found in its tree through
\* the index, as the documentation of the tree entries says; what the index has an entry for
\* is in that tree, unless its new_child is still under way (insert_ref comes before the lock);
\* and a node that is in a tree which the index does not name has been removed, or has got a
\* tree of its own.
IndexExact ==
  /\ \A id \in made : index[id] # None /\ id \in nodes[index[id]]
  /\ \A id \in Id : index[id] # None => id \in nodes[index[id]] \/ BeingMade(id)
  /\ \A t \in Tree : \A id \in nodes[t] :
       index[id] = t \/ id \notin made \/ root[index[id]] = id

\* "should be in the node, this is a bug": no operation finds its tree without finding its
\* node in it (the assertion of Zipper::by_id; when it fails the whole tree is lost).
NeverABug == \A k \in Task : step[k] # "bug"

\* A parent hears every state its child reported, each once and in the order in which the
\* child went through them, although the signal is pushed after the tree is unlocked: the
\* n-th signal about a child is its n-th report, and at most the last report is still to come.
Heard(id, i) == Cardinality({j \in 1..i : signals[j].of = id})
Late(id) == \E k \in Task : step[k] = "push" /\ job[k].id = id
ReportsExact ==
  \A id \in Id :
    /\ Heard(id, Len(signals)) = Len(saved[id]) - (IF Late(id) THEN 1 ELSE 0)
    /\ \A i \in DOMAIN signals : signals[i].of = id => signals[i] = saved[id][Heard(id, i)]

\* The store is a forest with atomic operations: looking a tree up and locking it later is
\* as good as doing both at once, and no update is lost or lands in the wrong hierarchy.
Home == [id \in Id |-> IF index[id] # None /\ id \in nodes[index[id]] THEN index[id] ELSE None]
Forest == INSTANCE StateForest WITH Hierarchy <- Tree, home <- Home, members <- nodes
ForestSafety == Forest!SfSpec
=============================================================================
