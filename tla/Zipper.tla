---------------------------------- MODULE Zipper ----------------------------------
(***************************************************************************)
(* A tree of src/node.rs and the zipper that every insert and update runs  *)
(* over it.  The zipper goes down from the root by taking the child that   *)
(* leads to its target OUT of the children of the focus (swap_remove), so  *)
(* between its steps the tree is in pieces; on its way up it puts each     *)
(* child back where it was.  One step of the traversal is one action.  The *)
(* caller holds the mutex of the tree throughout: one operation at a time. *)
(*                                                                         *)
(* A node keeps its children, its descendant_keys and its state in the     *)
(* three functions, also while it is outside of its parent's children.     *)
(* Inserted ids are fresh (StateId::new_rand).                             *)
(***************************************************************************)
EXTENDS Naturals, Sequences

CONSTANTS
  Id,     \* state ids
  Root,   \* the id of the node at the root
  State,  \* the states of a node
  New,    \* Kind::new_state
  None    \* no id

ASSUME ZipperAssumption ==
  /\ Root \in Id
  /\ New \in State
  /\ None \notin Id

VARIABLES
  nodes,      \* the nodes that there are
  kids,       \* Node.children
  keys,       \* Node.descendant_keys
  state,      \* Node.state
  op,         \* the operation in progress
  direction,  \* where the zipper goes
  focus,      \* Zipper.node
  path,       \* the chain of Zipper.parent, with the self_idx of the zipper below it
  answer      \* what the last update_and_get_parent_id returned

tree == <<nodes, kids, keys, state>>
vars == <<tree, op, direction, focus, path, answer>>

Op == [kind : {"insert", "update", "update_parent"}, at : Id, id : Id, to : State]

\* Type invariant, and that the zipper at rest is at the root.
TypeOK ==
  /\ nodes \in SUBSET Id
  /\ kids \in [Id -> Seq(Id)]
  /\ keys \in [Id -> SUBSET Id]
  /\ state \in [Id -> State]
  /\ op \in Op
  /\ direction \in {"rest", "down", "up"}
  /\ focus \in Id
  /\ path \in Seq([node : Id, idx : Nat \ {0}])
  /\ direction = "rest" => focus = Root /\ path = <<>>
  /\ answer \in Id \cup {None}

Init ==
  /\ nodes = {Root}
  /\ kids = [n \in Id |-> <<>>]
  /\ keys = [n \in Id |-> {}]
  /\ state = [n \in Id |-> New]
  /\ op = [kind |-> "update", at |-> Root, id |-> Root, to |-> New]
  /\ direction = "rest"
  /\ focus = Root
  /\ path = <<>>
  /\ answer = None

-----------------------------------------------------------------------------
\* Vec::swap_remove, and the push and swap that undo it.
SwapRemove(s, i) == [j \in 1..(Len(s) - 1) |-> IF j = i THEN s[Len(s)] ELSE s[j]]
PutLast(s, i, x) == Append(s, x)
PutBack(s, i, x) ==
  [j \in 1..(Len(s) + 1) |-> IF j = i THEN x ELSE IF j = Len(s) + 1 THEN s[i] ELSE s[j]]

\* Node::child and child_idx: the first child that is the target or has it below.
LeadsTo(n, id) == {i \in DOMAIN kids[n] : kids[n][i] = id \/ id \in keys[kids[n][i]]}
ChildIdx(n, id) == CHOOSE i \in LeadsTo(n, id) : \A j \in LeadsTo(n, id) : i <= j

\* Node::get and get_parent_id, read while no zipper is at work.
Found(id) ==
  LET walk[n \in Id] == IF id \in keys[n] THEN walk[kids[n][ChildIdx(n, id)]] ELSE n
  IN  IF id = Root \/ id \in keys[Root] THEN walk[Root] ELSE None
ParentId(id) ==
  LET next(n) == kids[n][ChildIdx(n, id)]
      walk[n \in Id] == IF id \notin keys[n] THEN None
                        ELSE IF next(n) = id THEN n ELSE walk[next(n)]
  IN  walk[Root]

-----------------------------------------------------------------------------
\* Node::insert, update and update_and_get_parent_id: a zipper starts at the root.
Start(kind, at, id, to) ==
  /\ direction = "rest"
  /\ kind = "insert" => id \notin nodes /\ id # at
  /\ op' = [kind |-> kind, at |-> at, id |-> id, to |-> to]
  /\ direction' = "down"
  /\ UNCHANGED <<tree, focus, path, answer>>

\* Node::update_all_fn, with a function that sets the state: children first, then the node.
UpdateAll(to) ==
  /\ direction = "rest"
  /\ state' = [n \in Id |-> IF n \in nodes THEN to ELSE state[n]]
  /\ UNCHANGED <<nodes, kids, keys, op, direction, focus, path, answer>>

\* Zipper::by_id, one turn of its loop: Zipper::child moves the focus.
Down ==
  /\ direction = "down" /\ op.at \in keys[focus]
  /\ LET i == ChildIdx(focus, op.at)
     IN  /\ path' = Append(path, [node |-> focus, idx |-> i])
         /\ focus' = kids[focus][i]
         /\ kids' = [kids EXCEPT ![focus] = SwapRemove(@, i)]
  /\ UNCHANGED <<nodes, keys, state, op, direction, answer>>

\* by_id has arrived: insert_child and the first key of finish_insert ...
FocusUntold == [keys EXCEPT ![op.id] = {}]
FocusTold == [keys EXCEPT ![focus] = @ \cup {op.id}, ![op.id] = {}]
ActInsert ==
  /\ direction = "down" /\ op.at = focus /\ op.kind = "insert"
  /\ nodes' = nodes \cup {op.id}
  /\ kids' = [kids EXCEPT ![focus] = Append(@, op.id), ![op.id] = <<>>]
  /\ keys' = FocusTold
  /\ state' = [state EXCEPT ![op.id] = New]
  /\ direction' = "up"
  /\ UNCHANGED <<op, focus, path, answer>>

\* ... or set_state, and what finish_update_parent_id returns.
ActUpdate ==
  /\ direction = "down" /\ op.at = focus /\ op.kind # "insert"
  /\ state' = [state EXCEPT ![focus] = op.to]
  /\ answer' = IF op.kind = "update" THEN answer
               ELSE IF path = <<>> THEN None ELSE path[Len(path)].node
  /\ direction' = "up"
  /\ UNCHANGED <<nodes, kids, keys, op, focus, path>>

\* by_id has arrived at a node that is not its target and panics: the caller's `self` is
\* left with the fresh node that was swapped in, and the pieces are dropped.
Panic ==
  /\ direction = "down" /\ op.at # focus /\ op.at \notin keys[focus]
  /\ nodes' = {Root}
  /\ kids' = [n \in Id |-> <<>>]
  /\ keys' = [n \in Id |-> {}]
  /\ state' = [n \in Id |-> New]
  /\ direction' = "rest"
  /\ focus' = Root
  /\ path' = <<>>
  /\ UNCHANGED <<op, answer>>

\* Zipper::parent, with the key that finish_insert adds to every node on the way.
ParentUntold(n) == keys
ParentTold(n) == IF op.kind = "insert" THEN [keys EXCEPT ![n] = @ \cup {op.id}] ELSE keys
Up ==
  /\ direction = "up" /\ path # <<>>
  /\ LET top == path[Len(path)]
     IN  /\ focus' = top.node
         /\ kids' = [kids EXCEPT ![top.node] = PutBack(@, top.idx, focus)]
         /\ keys' = ParentTold(top.node)
  /\ path' = SubSeq(path, 1, Len(path) - 1)
  /\ UNCHANGED <<nodes, state, op, direction, answer>>

\* The zipper is at the root again and hands back the tree.
Anywhere == TRUE
AtRoot == path = <<>>
Finish ==
  /\ direction = "up" /\ AtRoot
  /\ direction' = "rest"
  /\ UNCHANGED <<tree, op, focus, path, answer>>

-----------------------------------------------------------------------------
Next ==
  \/ \E at \in Id, id \in Id : Start("insert", at, id, New)
  \/ \E at \in Id, to \in State : Start("update", at, at, to)
  \/ \E at \in Id, to \in State : Start("update_parent", at, at, to)
  \/ \E to \in State : UpdateAll(to)
  \/ Down
  \/ ActInsert
  \/ ActUpdate
  \/ Panic
  \/ Up
  \/ Finish

Spec == Init /\ [][Next]_vars

-----------------------------------------------------------------------------
\* The tree put together again: each node on the path with the child it gave away.
Held(k) == IF k = Len(path) THEN focus ELSE path[k + 1].node
Children(n) ==
  LET onPath == {k \in DOMAIN path : path[k].node = n}
  IN  IF onPath = {} THEN kids[n]
      ELSE LET k == CHOOSE k \in onPath : TRUE IN PutBack(kids[n], path[k].idx, Held(k))

\* At rest, descendant_keys says exactly who is below: it is what every lookup trusts, and
\* finish_insert must have told every ancestor.
KeysExact ==
  direction = "rest" =>
    \A n \in nodes :
      keys[n] = UNION {{kids[n][i]} \cup keys[kids[n][i]] : i \in DOMAIN kids[n]}

\* At rest, Node::get finds the node of every id in the tree and no other, and
\* get_parent_id the node that has it among its children.
LookupCorrect ==
  direction = "rest" =>
    \A id \in Id :
      /\ Found(id) = IF id \in nodes THEN id ELSE None
      /\ IF id \in nodes \ {Root}
         THEN \E i \in DOMAIN kids[ParentId(id)] : kids[ParentId(id)][i] = id
         ELSE ParentId(id) = None

\* The zipper implements the tree: its traversals are invisible, keep the children in
\* order and the rest of the tree as it was, and answer with the right parent.
Tree == INSTANCE StateTree WITH
  present <- nodes,
  children <- [n \in Id |-> Children(n)]
TreeSafety == Tree!StSpec
=============================================================================
