------------------------------- MODULE ZipperProofs -------------------------------
(***************************************************************************)
(* What holds of the zipper for any tree and any ids: its types, that the  *)
(* cached keys are exact, that lookups answer rightly, and that inserting  *)
(* and updating with a tree in pieces implements the tree as its users see *)
(* it, whose steps are atomic.                                             *)
(***************************************************************************)
EXTENDS Zipper, FiniteSetTheorems, WellFoundedInduction, TLAPS

-----------------------------------------------------------------------------
\* The inductive invariant.  It speaks of the tree put together again, and counts a key that
\* an insertion has still to tell the ancestors of its node, which are those on the path.

OnPath(n) == \E k \in DOMAIN path : path[k].node = n
Pending == direction = "up" /\ op.kind = "insert"
Below(n) == IF Pending /\ OnPath(n) THEN keys[n] \cup {op.id} ELSE keys[n]
IsKid(n, x) == \E i \in DOMAIN Children(n) : Children(n)[i] = x

\* Nodes that are not there are as new, and the others form a tree: each but the root is a
\* child once, all are below the root, and none is below itself.
FreshInv == \A n \in Id \ nodes : kids[n] = <<>> /\ keys[n] = {} /\ state[n] = New
KidsInv ==
  /\ \A n \in nodes : \A i \in DOMAIN Children(n) : Children(n)[i] \in nodes \ {Root}
  /\ \A n, m \in nodes : \A i \in DOMAIN Children(n), j \in DOMAIN Children(m) :
       Children(n)[i] = Children(m)[j] => n = m /\ i = j
BelowInv ==
  /\ \A n \in nodes : Below(n) \subseteq nodes /\ n \notin Below(n)
  /\ \A n \in nodes : \A x \in Id :
       x \in Below(n) <=> IsKid(n, x) \/ \E y \in nodes : IsKid(n, y) /\ x \in Below(y)
  /\ nodes = {Root} \cup Below(Root)
TreeInv == Root \in nodes /\ IsFiniteSet(nodes) /\ FreshInv /\ KidsInv /\ BelowInv

\* The path goes from the root to the focus, never over one node twice.
PathInv ==
  /\ focus \in nodes
  /\ \A k \in DOMAIN path : path[k].node \in nodes /\ path[k].node # focus
  /\ \A j, k \in DOMAIN path : path[j].node = path[k].node => j = k
  /\ \A k \in DOMAIN path : path[k].idx <= Len(kids[path[k].node]) + 1
  /\ IF path = <<>> THEN focus = Root ELSE path[1].node = Root

\* A zipper on its way down comes to its target, if that is in the tree.
OpInv ==
  /\ direction = "down" => (op.at \in nodes => op.at = focus \/ op.at \in keys[focus])
  /\ direction = "down" /\ op.kind = "insert" => op.id \notin nodes

Inv == TypeOK /\ TreeInv /\ PathInv /\ OpInv

-----------------------------------------------------------------------------
\* Vec::swap_remove and its undoing.

LEMMA SwapRemoveFacts ==
  ASSUME NEW S, NEW s \in Seq(S), NEW i \in 1..Len(s)
  PROVE  /\ SwapRemove(s, i) \in Seq(S) /\ Len(SwapRemove(s, i)) = Len(s) - 1
         /\ PutBack(SwapRemove(s, i), i, s[i]) = s
<1>1. PICK t : t = SwapRemove(s, i)
  OBVIOUS
<1>2. /\ t = [j \in 1..(Len(s) - 1) |-> IF j = i THEN s[Len(s)] ELSE s[j]]
      /\ Len(s) \in Nat /\ Len(s) - 1 \in Nat
  BY <1>1 DEF SwapRemove
<1>3. \A j \in 1..(Len(s) - 1) : (IF j = i THEN s[Len(s)] ELSE s[j]) \in S
  BY <1>2
<1>4. t \in Seq(S) /\ Len(t) = Len(s) - 1 /\ DOMAIN t = 1..(Len(s) - 1)
  BY <1>2, <1>3
<1>5. PICK u : u = PutBack(t, i, s[i])
  OBVIOUS
<1>6. u = [j \in 1..Len(s) |-> IF j = i THEN s[i] ELSE IF j = Len(s) THEN t[i] ELSE t[j]]
  <2>1. Len(t) + 1 = Len(s)
    BY <1>2, <1>4
  <2>2. QED
    BY <1>5, <2>1 DEF PutBack
<1>7. ASSUME NEW j \in 1..Len(s) PROVE u[j] = s[j]
  <2>1. CASE j = i
    BY <1>6, <2>1
  <2>2. CASE j # i /\ j = Len(s)
    <3>1. i \in 1..(Len(s) - 1) /\ t[i] = s[Len(s)]
      BY <1>2, <2>2
    <3>2. QED
      BY <1>6, <2>2, <3>1
  <2>3. CASE j # i /\ j # Len(s)
    <3>1. j \in 1..(Len(s) - 1) /\ t[j] = s[j]
      BY <1>2, <2>3
    <3>2. QED
      BY <1>6, <2>3, <3>1
  <2>4. QED
    BY <2>1, <2>2, <2>3
<1>8. u = s
  <2>1. s = [j \in 1..Len(s) |-> s[j]]
    OBVIOUS
  <2>2. u = [j \in 1..Len(s) |-> u[j]]
    BY <1>6
  <2>3. QED
    BY <1>7, <2>1, <2>2
<1>9. QED
  BY <1>1, <1>4, <1>5, <1>8

LEMMA PutBackFacts ==
  ASSUME NEW S, NEW s \in Seq(S), NEW i \in 1..(Len(s) + 1), NEW x \in S
  PROVE  /\ PutBack(s, i, x) \in Seq(S) /\ DOMAIN PutBack(s, i, x) = 1..(Len(s) + 1)
         /\ PutBack(s, i, x)[i] = x
<1>1. PICK t : t = PutBack(s, i, x)
  OBVIOUS
<1>2. /\ t = [j \in 1..(Len(s) + 1) |-> IF j = i THEN x ELSE IF j = Len(s) + 1 THEN s[i] ELSE s[j]]
      /\ Len(s) \in Nat /\ Len(s) + 1 \in Nat
  BY <1>1 DEF PutBack
<1>3. \A j \in 1..(Len(s) + 1) : (IF j = i THEN x ELSE IF j = Len(s) + 1 THEN s[i] ELSE s[j]) \in S
  BY <1>2
<1>4. t \in Seq(S) /\ DOMAIN t = 1..(Len(s) + 1) /\ t[i] = x
  BY <1>2, <1>3
<1>5. QED
  BY <1>1, <1>4

-----------------------------------------------------------------------------
\* The tree put together again.

LEMMA PathFacts ==
  ASSUME TypeOK, PathInv
  PROVE  /\ DOMAIN path = 1..Len(path) /\ Len(path) \in Nat /\ path = <<>> <=> Len(path) = 0
         /\ \A k \in DOMAIN path : path[k].node \in Id /\ path[k].idx \in Nat \ {0}
         /\ \A k \in DOMAIN path : Held(k) \in nodes
         /\ ~OnPath(focus)
<1>1. path \in Seq([node : Id, idx : Nat \ {0}])
  BY DEF TypeOK
<1>2. DOMAIN path = 1..Len(path) /\ Len(path) \in Nat /\ path = <<>> <=> Len(path) = 0
  BY <1>1
<1>3. ASSUME NEW k \in DOMAIN path PROVE path[k].node \in Id /\ path[k].idx \in Nat \ {0}
  <2>1. \A R : path \in Seq(R) => path[k] \in R
    OBVIOUS
  <2>2. path[k] \in [node : Id, idx : Nat \ {0}]
    BY <1>1, <2>1
  <2>3. QED
    BY <2>2
<1>4. ASSUME NEW k \in DOMAIN path PROVE Held(k) \in nodes
  <2>1. k = Len(path) \/ k + 1 \in DOMAIN path
    BY <1>2
  <2>2. QED
    BY <1>2, <2>1 DEF Held, PathInv
<1>5. ~OnPath(focus)
  BY DEF OnPath, PathInv
<1>6. QED
  BY <1>2, <1>3, <1>4, <1>5

LEMMA ChildrenFacts ==
  ASSUME TypeOK, PathInv, NEW n \in Id
  PROVE  /\ ~OnPath(n) => Children(n) = kids[n]
         /\ \A k \in DOMAIN path : path[k].node = n => Children(n) = PutBack(kids[n], path[k].idx, Held(k))
         /\ Children(n) \in Seq(Id) /\ DOMAIN Children(n) = 1..Len(Children(n))
<1>1. ~OnPath(n) => Children(n) = kids[n]
  <2>1. ~OnPath(n) => {k \in DOMAIN path : path[k].node = n} = {}
    BY DEF OnPath
  <2>2. QED
    BY <2>1 DEF Children
<1>2. ASSUME NEW k \in DOMAIN path, path[k].node = n
      PROVE  Children(n) = PutBack(kids[n], path[k].idx, Held(k))
  <2>1. PICK onPath : onPath = {j \in DOMAIN path : path[j].node = n}
    OBVIOUS
  <2>2. PICK c : c = CHOOSE j \in onPath : TRUE
    OBVIOUS
  <2>3. k \in onPath
    BY <1>2, <2>1
  <2>4. c \in onPath
    BY <2>2, <2>3
  <2>5. c = k
    BY <1>2, <2>1, <2>4 DEF PathInv
  <2>6. Children(n) = PutBack(kids[n], path[c].idx, Held(c))
    BY <2>1, <2>2, <2>3 DEF Children
  <2>7. QED
    BY <2>5, <2>6
<1>3. Children(n) \in Seq(Id)
  <2>1. kids[n] \in Seq(Id)
    BY DEF TypeOK
  <2>2. CASE OnPath(n)
    <3>1. PICK k \in DOMAIN path : path[k].node = n
      BY <2>2 DEF OnPath
    <3>2. path[k].idx \in 1..(Len(kids[n]) + 1)
      BY <2>1, <3>1, PathFacts DEF PathInv
    <3>3. Held(k) \in Id
      BY <3>1, PathFacts DEF TypeOK
    <3>4. QED
      BY <1>2, <2>1, <3>1, <3>2, <3>3, PutBackFacts
  <2>3. QED
    BY <1>1, <2>1, <2>2
<1>4. QED
  BY <1>1, <1>2, <1>3

Reassembled ==
  \A n \in Id :
    /\ ~OnPath(n) => Children(n) = kids[n]
    /\ \A k \in DOMAIN path : path[k].node = n => Children(n) = PutBack(kids[n], path[k].idx, Held(k))

LEMMA ChildrenReassembled == TypeOK /\ PathInv => Reassembled
  BY ChildrenFacts DEF Reassembled

\* A node on the path has the next one, or the focus, as the child it gave away.
LEMMA HeldIsKid ==
  ASSUME TypeOK, PathInv, NEW k \in DOMAIN path
  PROVE  /\ path[k].idx \in DOMAIN Children(path[k].node)
         /\ Children(path[k].node)[path[k].idx] = Held(k)
<1>1. PICK n \in Id : n = path[k].node
  BY PathFacts
<1>2. PICK i \in Nat \ {0} : i = path[k].idx
  BY PathFacts
<1>3. kids[n] \in Seq(Id) /\ Held(k) \in Id
  BY PathFacts DEF TypeOK
<1>4. i \in 1..(Len(kids[n]) + 1)
  BY <1>1, <1>2, <1>3 DEF PathInv
<1>5. Children(n) = PutBack(kids[n], i, Held(k))
  BY <1>1, <1>2, ChildrenFacts
<1>6. QED
  BY <1>1, <1>2, <1>3, <1>4, <1>5, PutBackFacts

\* What has the focus or a node on the path as a child is on the path.
LEMMA UpPath ==
  ASSUME TypeOK, TreeInv, PathInv, NEW n \in nodes, NEW i \in DOMAIN Children(n),
         OnPath(Children(n)[i]) \/ Children(n)[i] = focus
  PROVE  OnPath(n)
<1>1. PICK c : c = Children(n)[i]
  OBVIOUS
<1>2. c \in nodes \ {Root} /\ DOMAIN path = 1..Len(path) /\ Len(path) \in Nat
  BY <1>1, PathFacts DEF TreeInv, KidsInv
<1>3. ASSUME NEW k \in DOMAIN path, Held(k) = c PROVE OnPath(n)
  <2>1. path[k].node \in nodes
    BY DEF PathInv
  <2>2. path[k].node = n
    BY <1>1, <1>3, <2>1, HeldIsKid DEF TreeInv, KidsInv
  <2>3. QED
    BY <2>2 DEF OnPath
<1>4. CASE c = focus
  <2>1. path # <<>>
    BY <1>2, <1>4 DEF PathInv
  <2>2. Len(path) \in DOMAIN path
    BY <1>2, <2>1, PathFacts
  <2>3. Held(Len(path)) = c
    BY <1>4 DEF Held
  <2>4. QED
    BY <1>3, <2>2, <2>3
<1>5. CASE OnPath(c)
  <2>1. PICK k \in DOMAIN path : path[k].node = c
    BY <1>5 DEF OnPath
  <2>2. k # 1
    <3>1. path # <<>>
      BY <1>2, <2>1, PathFacts
    <3>2. path[1].node = Root
      BY <3>1 DEF PathInv
    <3>3. QED
      BY <1>2, <2>1, <3>2
  <2>3. k - 1 \in DOMAIN path /\ k - 1 # Len(path) /\ (k - 1) + 1 = k
    BY <1>2, <2>1, <2>2
  <2>4. Held(k - 1) = c
    BY <2>1, <2>3 DEF Held
  <2>5. QED
    BY <1>3, <2>3, <2>4
<1>6. QED
  BY <1>1, <1>4, <1>5

-----------------------------------------------------------------------------
\* Smallest elements, and the first child that leads to a node.

LEMMA SmallestSet ==
  ASSUME NEW S, IsFiniteSet(S), NEW T, T \subseteq SUBSET S, T # {}
  PROVE  \E X \in T : \A Y \in T : Y \subseteq X => Y = X
<1>1. IsWellFoundedOn(StrictSubsetOrdering(S), SUBSET S)
  BY FS_StrictSubsetOrderingWellFounded, FS_FiniteSubsetsOfFinite
<1>2. PICK X \in T : \A Y \in T : ~ (<<Y, X>> \in StrictSubsetOrdering(S))
  BY <1>1, WFMin
<1>3. ASSUME NEW Y \in T, Y \subseteq X PROVE Y = X
  <2>1. Y \in SUBSET S /\ X \in SUBSET S
    OBVIOUS
  <2>2. ~ (<<Y, X>> \in StrictSubsetOrdering(S))
    BY <1>2
  <2>3. QED
    BY <1>3, <2>1, <2>2 DEF StrictSubsetOrdering
<1>4. QED
  BY <1>3

LEMMA FirstIndex ==
  ASSUME NEW N \in Nat, NEW L \in SUBSET (1..N), L # {}
  PROVE  \E i \in L : \A j \in L : i <= j
<1> DEFINE T == {1..i : i \in L}
<1>1. PICK U : U = 1..N
  OBVIOUS
<1>2. IsFiniteSet(U)
  BY <1>1, FS_Interval
<1>3. PICK X \in T : \A Y \in T : Y \subseteq X => Y = X
  <2>1. \A i \in L : 1..i \subseteq U
    BY <1>1
  <2>2. T # {}
    OBVIOUS
  <2>3. T \subseteq SUBSET U
    BY <2>1
  <2> HIDE DEF T
  <2>4. QED
    BY <1>2, <2>2, <2>3, SmallestSet
<1>4. PICK i \in L : X = 1..i
  BY <1>3
<1>5. ASSUME NEW j \in L, j < i PROVE FALSE
  <2>1. i \in Nat \ {0} /\ j \in Nat
    BY <1>5
  <2>2. 1..j \in T
    OBVIOUS
  <2>3. 1..j \subseteq 1..i /\ i \in 1..i /\ i \notin 1..j
    BY <1>5, <2>1
  <2>4. QED
    BY <1>3, <1>4, <2>2, <2>3
<1>6. QED
  BY <1>5

LEMMA ChildIdxFacts ==
  ASSUME TypeOK, NEW n \in Id, NEW id, LeadsTo(n, id) # {}
  PROVE  ChildIdx(n, id) \in LeadsTo(n, id)
<1>1. LeadsTo(n, id) \subseteq 1..Len(kids[n]) /\ Len(kids[n]) \in Nat
  BY DEF LeadsTo, TypeOK
<1>2. \E i \in LeadsTo(n, id) : \A j \in LeadsTo(n, id) : i <= j
  BY <1>1, FirstIndex
<1>3. QED
  BY <1>2 DEF ChildIdx

\* A node that is whole and has a key has a child that is, or leads to, the node of that key.
LEMMA Leads ==
  ASSUME TypeOK, TreeInv, PathInv, ~Pending, NEW n \in nodes, ~OnPath(n), NEW id \in keys[n]
  PROVE  /\ id \in nodes
         /\ ChildIdx(n, id) \in DOMAIN kids[n]
         /\ kids[n][ChildIdx(n, id)] \in nodes \ {Root}
         /\ kids[n][ChildIdx(n, id)] = id \/ id \in keys[kids[n][ChildIdx(n, id)]]
<1>1. n \in Id /\ Children(n) = kids[n] /\ \A m \in nodes : Below(m) = keys[m]
  BY ChildrenFacts DEF TypeOK, Below
<1>2. id \in nodes /\ id \in Id
  BY <1>1 DEF TreeInv, BelowInv, TypeOK
<1>3. IsKid(n, id) \/ \E y \in nodes : IsKid(n, y) /\ id \in keys[y]
  BY <1>1, <1>2 DEF TreeInv, BelowInv
<1>4. LeadsTo(n, id) # {}
  BY <1>1, <1>3 DEF IsKid, LeadsTo
<1>5. ChildIdx(n, id) \in LeadsTo(n, id)
  BY <1>1, <1>4, ChildIdxFacts
<1>6. PICK i : i = ChildIdx(n, id)
  OBVIOUS
<1>7. i \in DOMAIN kids[n] /\ (kids[n][i] = id \/ id \in keys[kids[n][i]])
  BY <1>5, <1>6 DEF LeadsTo
<1>8. kids[n][i] \in nodes \ {Root}
  BY <1>1, <1>7 DEF TreeInv, KidsInv
<1>9. QED
  BY <1>2, <1>6, <1>7, <1>8

-----------------------------------------------------------------------------
\* The steps of the zipper that leave the tree as it is.

LEMMA SameTree ==
  ASSUME TreeInv, nodes' = nodes, FreshInv',
         \A n \in nodes : Children(n)' = Children(n) /\ Below(n)' = Below(n)
  PROVE  TreeInv'
<1>1. KidsInv'
  BY DEF TreeInv, KidsInv
<1>2. \A n \in nodes : \A x \in Id : IsKid(n, x)' <=> IsKid(n, x)
  BY DEF IsKid
<1>3. BelowInv'
  <2>1. \A n \in nodes' : Below(n)' \subseteq nodes' /\ n \notin Below(n)'
    BY DEF TreeInv, BelowInv
  <2>2. ASSUME NEW n \in nodes', NEW x \in Id
        PROVE  x \in Below(n)' <=> IsKid(n, x)' \/ \E y \in nodes' : IsKid(n, y)' /\ x \in Below(y)'
    <3>1. \A y \in nodes : IsKid(n, y)' <=> IsKid(n, y)
      BY DEF IsKid
    <3>2. x \in Below(n) <=> IsKid(n, x) \/ \E y \in nodes : IsKid(n, y) /\ x \in Below(y)
      BY DEF TreeInv, BelowInv
    <3>3. QED
      BY <1>2, <3>1, <3>2
  <2>3. nodes' = {Root} \cup Below(Root)'
    BY DEF TreeInv, BelowInv
  <2>4. QED
    BY <2>1, <2>2, <2>3 DEF BelowInv
<1>4. QED
  BY <1>1, <1>3 DEF TreeInv

LEMMA SameChildren ==
  ASSUME UNCHANGED <<kids, focus, path>>
  PROVE  \A n : Children(n)' = Children(n)
BY DEF Children, Held

LEMMA StartStep ==
  ASSUME Inv, NEW kind \in {"insert", "update", "update_parent"}, NEW at \in Id, NEW id \in Id,
         NEW to \in State, Start(kind, at, id, to)
  PROVE  Inv' /\ \A n : Children(n)' = Children(n)
<1> USE DEF Inv
<1>1. TypeOK'
  BY DEF Start, TypeOK, Op, tree
<1>2. \A n : Children(n)' = Children(n)
  BY SameChildren DEF Start, tree
<1>3. TreeInv'
  <2>1. FreshInv'
    BY DEF Start, tree, TreeInv, FreshInv
  <2>2. \A n : Below(n)' = keys[n] /\ Below(n) = keys[n]
    BY DEF Start, tree, Below, Pending
  <2>3. nodes' = nodes
    BY DEF Start, tree
  <2>4. QED
    BY <1>2, <2>1, <2>2, <2>3, SameTree
<1>4. PathInv'
  BY DEF PathInv, Start, tree
<1>5. OpInv'
  <2>1. focus = Root /\ focus' = Root /\ Below(Root) = keys[Root] /\ keys' = keys /\ nodes' = nodes
    BY DEF Start, tree, TypeOK, Below, Pending
  <2>2. op'.at = at /\ op'.id = id /\ op'.kind = kind
    BY DEF Start
  <2>3. nodes = {Root} \cup Below(Root)
    BY DEF TreeInv, BelowInv
  <2>4. kind = "insert" => id \notin nodes
    BY DEF Start
  <2>5. QED
    BY <2>1, <2>2, <2>3, <2>4 DEF OpInv
<1>6. QED
  BY <1>1, <1>2, <1>3, <1>4, <1>5

LEMMA UpdateAllStep ==
  ASSUME Inv, NEW to \in State, UpdateAll(to)
  PROVE  Inv' /\ \A n : Children(n)' = Children(n)
<1> USE DEF Inv
<1>1. TypeOK'
  BY DEF UpdateAll, TypeOK
<1>2. \A n : Children(n)' = Children(n)
  BY SameChildren DEF UpdateAll
<1>3. TreeInv'
  <2>1. FreshInv'
    BY DEF UpdateAll, TreeInv, FreshInv, TypeOK
  <2>2. \A n : Below(n)' = Below(n)
    BY DEF UpdateAll, Below, Pending, OnPath
  <2>3. nodes' = nodes
    BY DEF UpdateAll
  <2>4. QED
    BY <1>2, <2>1, <2>2, <2>3, SameTree
<1>4. PathInv'
  BY DEF PathInv, UpdateAll
<1>5. OpInv'
  BY DEF OpInv, UpdateAll
<1>6. QED
  BY <1>1, <1>2, <1>3, <1>4, <1>5

LEMMA FinishStep ==
  ASSUME Inv, Finish
  PROVE  Inv' /\ \A n : Children(n)' = Children(n)
<1> USE DEF Inv
<1>1. path = <<>> /\ focus = Root
  BY DEF Finish, AtRoot, PathInv
<1>2. TypeOK'
  BY <1>1 DEF Finish, TypeOK, tree
<1>3. \A n : Children(n)' = Children(n)
  BY SameChildren DEF Finish, tree
<1>4. TreeInv'
  <2>1. FreshInv'
    BY DEF Finish, tree, TreeInv, FreshInv
  <2>2. \A n : ~OnPath(n) /\ ~OnPath(n)'
    BY <1>1 DEF OnPath, Finish
  <2>3. \A n : Below(n)' = Below(n)
    BY <2>2 DEF Finish, tree, Below
  <2>4. nodes' = nodes
    BY DEF Finish, tree
  <2>5. QED
    BY <1>3, <2>1, <2>3, <2>4, SameTree
<1>5. PathInv'
  BY DEF PathInv, Finish, tree
<1>6. OpInv'
  BY DEF OpInv, Finish
<1>7. QED
  BY <1>2, <1>3, <1>4, <1>5, <1>6

LEMMA StutterStep ==
  ASSUME Inv, UNCHANGED vars
  PROVE  Inv' /\ \A n : Children(n)' = Children(n)
<1> USE DEF Inv
<1>1. TypeOK'
  BY DEF vars, tree, TypeOK
<1>2. \A n : Children(n)' = Children(n)
  BY SameChildren DEF vars, tree
<1>3. TreeInv'
  <2>1. FreshInv'
    BY DEF vars, tree, TreeInv, FreshInv
  <2>2. \A n : Below(n)' = Below(n)
    BY DEF vars, tree, Below, Pending, OnPath
  <2>3. nodes' = nodes
    BY DEF vars, tree
  <2>4. QED
    BY <1>2, <2>1, <2>2, <2>3, SameTree
<1>4. PathInv' /\ OpInv'
  BY DEF vars, tree, PathInv, OpInv
<1>5. QED
  BY <1>1, <1>2, <1>3, <1>4

LEMMA DownStep ==
  ASSUME Inv, Down
  PROVE  Inv' /\ \A n \in Id : Children(n)' = Children(n)
<1> USE DEF Inv
<1>1. PICK i : i = ChildIdx(focus, op.at)
  OBVIOUS
<1>2. PICK c : c = kids[focus][i]
  OBVIOUS
<1>3. /\ direction = "down" /\ op.at \in keys[focus]
      /\ path' = Append(path, [node |-> focus, idx |-> i])
      /\ focus' = c
      /\ kids' = [kids EXCEPT ![focus] = SwapRemove(kids[focus], i)]
      /\ nodes' = nodes /\ keys' = keys /\ state' = state /\ op' = op /\ direction' = direction /\ answer' = answer
  BY <1>1, <1>2 DEF Down
<1>4. /\ ~Pending /\ ~OnPath(focus) /\ focus \in nodes /\ focus \in Id
      /\ Children(focus) = kids[focus] /\ kids[focus] \in Seq(Id) /\ kids \in [Id -> Seq(Id)]
  BY <1>3, PathFacts, ChildrenFacts DEF Pending, PathInv, TypeOK
<1>5. /\ op.at \in nodes
      /\ i \in DOMAIN kids[focus]
      /\ c \in nodes \ {Root}
      /\ c = op.at \/ op.at \in keys[c]
  BY <1>1, <1>2, <1>3, <1>4, Leads
<1>6. ~OnPath(c) /\ c # focus
  BY <1>2, <1>4, <1>5, UpPath
<1>7. i \in 1..Len(kids[focus]) /\ i \in Nat \ {0} /\ Len(kids[focus]) \in Nat
  BY <1>4, <1>5
<1>8. PICK t \in Seq(Id) : t = SwapRemove(kids[focus], i)
  BY <1>4, <1>7, SwapRemoveFacts
<1>9. Len(t) = Len(kids[focus]) - 1 /\ PutBack(t, i, c) = kids[focus]
  BY <1>2, <1>4, <1>7, <1>8, SwapRemoveFacts
<1>10. kids' = [kids EXCEPT ![focus] = t]
  BY <1>3, <1>8
<1>11. kids'[focus] = t /\ \A n \in Id : n # focus => kids'[n] = kids[n]
  BY <1>4, <1>10
<1> DEFINE R == [node : Id, idx : Nat \ {0}]
           r == [node |-> focus, idx |-> i]
<1>12. r \in R /\ r.node = focus /\ r.idx = i
  BY <1>4, <1>7
<1>13. PICK L \in Nat : L = Len(path)
  BY PathFacts
<1>14. /\ DOMAIN path = 1..L /\ path \in Seq(R)
       /\ path' \in Seq(R) /\ Len(path') = L + 1 /\ DOMAIN path' = 1..(L + 1)
       /\ path'[L + 1] = r /\ \A k \in 1..L : path'[k] = path[k]
  <2>1. DOMAIN path = 1..L /\ path \in Seq(R)
    BY <1>13, PathFacts DEF TypeOK
  <2>2. path' = Append(path, r)
    BY <1>3
  <2> HIDE DEF R, r
  <2>3. QED
    BY <1>12, <1>13, <2>1, <2>2
<1>15. TypeOK'
  <2>1. kids' \in [Id -> Seq(Id)]
    BY <1>4, <1>10
  <2>2. c \in Id
    BY <1>5 DEF TypeOK
  <2>3. QED
    BY <1>3, <1>14, <2>1, <2>2 DEF TypeOK
<1> HIDE DEF R
<1>16. \A k \in 1..L : path'[k].node = path[k].node /\ path'[k].idx = path[k].idx
  BY <1>14
<1>17. path'[L + 1].node = focus /\ path'[L + 1].idx = i
  BY <1>12, <1>14
<1> HIDE DEF r
<1>18. \A k \in DOMAIN path' : k \in 1..L \/ k = L + 1
  BY <1>14
<1>19. PathInv'
  <2>1. focus' \in nodes'
    BY <1>3, <1>5
  <2>2. ASSUME NEW k \in DOMAIN path'
        PROVE  path'[k].node \in nodes' /\ path'[k].node # focus' /\ path'[k].idx <= Len(kids'[path'[k].node]) + 1
    <3>1. CASE k \in 1..L
      <4>1. path[k].node \in nodes /\ path[k].node # focus /\ path[k].node # c
        BY <1>6, <1>14, <3>1 DEF PathInv, OnPath
      <4>2. path[k].idx <= Len(kids[path[k].node]) + 1
        BY <1>14, <3>1 DEF PathInv
      <4>3. kids'[path[k].node] = kids[path[k].node]
        BY <1>11, <4>1 DEF TypeOK
      <4>4. QED
        BY <1>3, <1>16, <3>1, <4>1, <4>2, <4>3
    <3>2. CASE k = L + 1
      <4>1. i <= Len(t) + 1
        BY <1>7, <1>9
      <4>2. QED
        BY <1>3, <1>4, <1>6, <1>11, <1>17, <3>2, <4>1
    <3>3. QED
      BY <1>18, <3>1, <3>2
  <2>3. ASSUME NEW j \in DOMAIN path', NEW k \in DOMAIN path', path'[j].node = path'[k].node PROVE j = k
    <3>1. \A m \in 1..L : path'[m].node = path[m].node /\ path[m].node # focus
      BY <1>14, <1>16 DEF PathInv
    <3>2. QED
      BY <1>14, <1>17, <1>18, <2>3, <3>1 DEF PathInv
  <2>4. path' # <<>> /\ path'[1].node = Root
    <3>1. CASE L = 0
      <4>1. path = <<>>
        BY <1>13, <3>1, PathFacts
      <4>2. focus = Root
        BY <4>1 DEF PathInv
      <4>3. QED
        BY <1>14, <1>17, <3>1, <4>2
    <3>2. CASE L # 0
      <4>1. 1 \in 1..L /\ path # <<>>
        BY <1>13, <3>2, PathFacts
      <4>2. path[1].node = Root
        BY <4>1 DEF PathInv
      <4>3. QED
        BY <1>14, <1>16, <4>1, <4>2
    <3>3. QED
      BY <3>1, <3>2
  <2>5. QED
    BY <2>1, <2>2, <2>3, <2>4 DEF PathInv
<1>20. ASSUME NEW k \in 1..L PROVE Held(k)' = Held(k)
  <2>1. Held(k)' = path'[k + 1].node
    <3>1. k # Len(path')
      BY <1>14
    <3>2. QED
      BY <3>1 DEF Held
  <2>2. CASE k = L
    BY <1>13, <1>17, <2>1, <2>2 DEF Held
  <2>3. CASE k # L
    <3>1. k + 1 \in 1..L
      BY <2>3
    <3>2. QED
      BY <1>13, <1>16, <2>1, <2>3, <3>1 DEF Held
  <2>4. QED
    BY <2>2, <2>3
<1>21. Held(L + 1)' = c
  BY <1>3, <1>14 DEF Held
<1>22. ASSUME NEW n \in Id PROVE Children(n)' = Children(n)
  <2>1. /\ (~OnPath(n) => Children(n) = kids[n])
        /\ \A k \in DOMAIN path : path[k].node = n => Children(n) = PutBack(kids[n], path[k].idx, Held(k))
    BY ChildrenFacts
  <2>2. /\ (~OnPath(n)' => Children(n)' = kids'[n])
        /\ \A k \in DOMAIN path' : path'[k].node = n => Children(n)' = PutBack(kids'[n], path'[k].idx, Held(k)')
    <3>1. Reassembled'
      BY <1>15, <1>19, ChildrenReassembled, PTL
    <3>2. QED
      BY <3>1 DEF Reassembled
  <2>3. CASE n = focus
    <3>1. L + 1 \in DOMAIN path'
      BY <1>14
    <3>2. Children(n)' = PutBack(t, i, c)
      BY <1>11, <1>17, <1>21, <2>2, <2>3, <3>1
    <3>3. QED
      BY <1>4, <1>9, <2>3, <3>2
  <2>4. CASE n # focus /\ OnPath(n)
    <3>1. PICK k \in 1..L : path[k].node = n
      BY <1>14, <2>4 DEF OnPath
    <3>2. k \in DOMAIN path' /\ k \in DOMAIN path
      BY <1>14
    <3>3. Children(n)' = PutBack(kids[n], path[k].idx, Held(k))
      BY <1>11, <1>16, <1>20, <2>2, <2>4, <3>1, <3>2
    <3>4. QED
      BY <2>1, <3>1, <3>2, <3>3
  <2>5. CASE n # focus /\ ~OnPath(n)
    <3>1. ~OnPath(n)'
      BY <1>14, <1>16, <1>17, <1>18, <2>5 DEF OnPath
    <3>2. QED
      BY <1>11, <2>1, <2>2, <2>5, <3>1
  <2>6. QED
    BY <2>3, <2>4, <2>5
<1>23. TreeInv'
  <2>1. FreshInv'
    BY <1>3, <1>4, <1>11 DEF TreeInv, FreshInv
  <2>2. \A n \in nodes : Below(n)' = Below(n)
    BY <1>3 DEF Below, Pending
  <2>3. \A n \in nodes : Children(n)' = Children(n)
    BY <1>22 DEF TypeOK
  <2>4. QED
    BY <1>3, <2>1, <2>2, <2>3, SameTree
<1>24. OpInv'
  BY <1>3, <1>5 DEF OpInv
<1>25. QED
  BY <1>15, <1>19, <1>22, <1>23, <1>24

LEMMA ActUpdateStep ==
  ASSUME Inv, ActUpdate
  PROVE  Inv' /\ \A n : Children(n)' = Children(n)
<1> USE DEF Inv
<1>1. \A n : Children(n)' = Children(n)
  BY SameChildren DEF ActUpdate
<1>2. TypeOK'
  <2>1. answer' \in Id \cup {None}
    <3>1. CASE path = <<>> \/ op.kind = "update"
      BY <3>1 DEF ActUpdate, TypeOK
    <3>2. CASE path # <<>> /\ op.kind # "update"
      <4>1. Len(path) \in DOMAIN path
        BY <3>2, PathFacts
      <4>2. path[Len(path)].node \in Id
        BY <4>1, PathFacts
      <4>3. QED
        BY <3>2, <4>2 DEF ActUpdate
    <3>3. QED
      BY <3>1, <3>2
  <2>2. op.to \in State
    BY DEF TypeOK, Op
  <2>3. QED
    BY <2>1, <2>2 DEF ActUpdate, TypeOK
<1>3. TreeInv'
  <2>1. FreshInv'
    BY DEF ActUpdate, TreeInv, FreshInv, TypeOK, PathInv
  <2>2. \A n : Below(n)' = Below(n)
    BY DEF ActUpdate, Below, Pending
  <2>3. nodes' = nodes
    BY DEF ActUpdate
  <2>4. QED
    BY <1>1, <2>1, <2>2, <2>3, SameTree
<1>4. PathInv' /\ OpInv'
  BY DEF PathInv, OpInv, ActUpdate
<1>5. QED
  BY <1>1, <1>2, <1>3, <1>4

LEMMA UpStep ==
  ASSUME Inv, Up
  PROVE  Inv' /\ \A n \in Id : Children(n)' = Children(n)
<1> USE DEF Inv
<1>1. PICK L : L = Len(path)
  OBVIOUS
<1>2. PICK p : p = path[L].node
  OBVIOUS
<1>3. PICK j : j = path[L].idx
  OBVIOUS
<1>4. /\ direction = "up" /\ path # <<>> /\ focus' = p
      /\ kids' = [kids EXCEPT ![p] = PutBack(kids[p], j, focus)]
      /\ keys' = ParentTold(p)
      /\ path' = SubSeq(path, 1, L - 1)
      /\ nodes' = nodes /\ state' = state /\ op' = op /\ direction' = direction /\ answer' = answer
  BY <1>1, <1>2, <1>3 DEF Up
<1>5. L \in Nat /\ DOMAIN path = 1..L /\ L # 0 /\ L \in DOMAIN path
  BY <1>1, <1>4, PathFacts
<1>6. p \in nodes /\ p \in Id /\ p # focus /\ \A k \in 1..(L - 1) : path[k].node # p
  <2>1. p \in nodes /\ p # focus
    BY <1>2, <1>5 DEF PathInv
  <2>2. ASSUME NEW k \in 1..(L - 1) PROVE path[k].node # p
    <3>1. k \in DOMAIN path /\ k # L
      BY <1>5
    <3>2. QED
      BY <1>2, <1>5, <3>1 DEF PathInv
  <2>3. QED
    BY <2>1, <2>2 DEF TypeOK
<1>7. Held(L) = focus
  BY <1>1 DEF Held
<1>8. /\ Children(p) = PutBack(kids[p], j, focus) /\ Children(p) \in Seq(Id)
      /\ kids \in [Id -> Seq(Id)]
  BY <1>2, <1>3, <1>5, <1>6, <1>7, ChildrenFacts DEF TypeOK
<1>9. kids' \in [Id -> Seq(Id)] /\ kids'[p] = Children(p) /\ \A n \in Id : n # p => kids'[n] = kids[n]
  BY <1>4, <1>6, <1>8
<1>10. /\ path' \in Seq([node : Id, idx : Nat \ {0}]) /\ Len(path') = L - 1 /\ DOMAIN path' = 1..(L - 1)
       /\ \A k \in 1..(L - 1) : path'[k] = path[k]
  <2> DEFINE R == [node : Id, idx : Nat \ {0}]
  <2>1. path \in Seq(R)
    BY DEF TypeOK
  <2> HIDE DEF R
  <2>2. path' \in Seq(R) /\ Len(path') = L - 1 /\ DOMAIN path' = 1..(L - 1)
        /\ \A k \in 1..(L - 1) : path'[k] = path[k]
    BY <1>1, <1>4, <1>5, <2>1
  <2>3. QED
    BY <2>2 DEF R
<1>11. \A k \in 1..(L - 1) : k \in DOMAIN path' /\ k \in DOMAIN path /\ k # L
  BY <1>5, <1>10
<1>12. /\ keys' \in [Id -> SUBSET Id]
       /\ op.kind = "insert" => keys'[p] = keys[p] \cup {op.id} /\ \A n \in Id : n # p => keys'[n] = keys[n]
       /\ op.kind # "insert" => keys' = keys
  <2>1. keys \in [Id -> SUBSET Id] /\ op.id \in Id
    BY DEF TypeOK, Op
  <2>2. QED
    BY <1>4, <1>6, <2>1 DEF ParentTold
<1>13. TypeOK'
  BY <1>4, <1>6, <1>9, <1>10, <1>12 DEF TypeOK
<1>14. PathInv'
  <2>1. ASSUME NEW k \in DOMAIN path'
        PROVE  path'[k].node \in nodes' /\ path'[k].node # focus' /\ path'[k].idx <= Len(kids'[path'[k].node]) + 1
    <3>1. k \in 1..(L - 1) /\ path'[k] = path[k]
      BY <1>10
    <3>2. path[k].node \in nodes /\ path[k].node # p /\ path[k].idx <= Len(kids[path[k].node]) + 1
      BY <1>6, <1>11, <3>1 DEF PathInv
    <3>3. kids'[path[k].node] = kids[path[k].node]
      BY <1>9, <3>2 DEF TypeOK
    <3>4. QED
      BY <1>4, <3>1, <3>2, <3>3
  <2>2. \A k, m \in DOMAIN path' : path'[k].node = path'[m].node => k = m
    BY <1>10, <1>11 DEF PathInv
  <2>3. IF path' = <<>> THEN focus' = Root ELSE path'[1].node = Root
    <3>1. path[1].node = Root
      BY <1>4 DEF PathInv
    <3>2. CASE L = 1
      <4>1. path' = <<>>
        BY <1>10, <3>2
      <4>2. QED
        BY <1>2, <1>4, <3>1, <3>2, <4>1
    <3>3. CASE L # 1
      <4>1. 1 \in 1..(L - 1)
        BY <1>5, <3>3
      <4>2. path' # <<>> /\ path'[1] = path[1]
        BY <1>10, <4>1
      <4>3. QED
        BY <3>1, <4>2
    <3>4. QED
      BY <3>2, <3>3
  <2>4. QED
    BY <1>4, <1>6, <2>1, <2>2, <2>3 DEF PathInv
<1>15. ASSUME NEW k \in 1..(L - 1) PROVE Held(k)' = Held(k)
  <2>1. CASE k = L - 1
    <3>1. Held(k)' = p
      BY <1>4, <1>10, <2>1 DEF Held
    <3>2. Held(k) = path[L].node
      <4>1. k # Len(path) /\ k + 1 = L
        BY <1>1, <1>5, <2>1
      <4>2. QED
        BY <4>1 DEF Held
    <3>3. QED
      BY <1>2, <3>1, <3>2
  <2>2. CASE k # L - 1
    <3>1. k + 1 \in 1..(L - 1) /\ k # L
      BY <1>5, <2>2
    <3>2. path'[k + 1] = path[k + 1]
      BY <1>10, <3>1
    <3>3. QED
      BY <1>1, <1>10, <2>2, <3>1, <3>2 DEF Held
  <2>3. QED
    BY <2>1, <2>2
<1>16. ASSUME NEW n \in Id PROVE OnPath(n)' <=> OnPath(n) /\ n # p
  <2>1. ASSUME OnPath(n)' PROVE OnPath(n) /\ n # p
    <3>1. PICK k \in 1..(L - 1) : path'[k].node = n
      BY <1>10, <2>1 DEF OnPath
    <3>2. QED
      BY <1>6, <1>10, <1>11, <3>1 DEF OnPath
  <2>2. ASSUME OnPath(n), n # p PROVE OnPath(n)'
    <3>1. PICK k \in 1..L : path[k].node = n
      BY <1>5, <2>2 DEF OnPath
    <3>2. k \in 1..(L - 1)
      BY <1>2, <1>5, <2>2, <3>1
    <3>3. QED
      BY <1>10, <1>11, <3>1, <3>2 DEF OnPath
  <2>3. QED
    BY <2>1, <2>2
<1>17. ASSUME NEW n \in Id PROVE Children(n)' = Children(n)
  <2>1. /\ (~OnPath(n) => Children(n) = kids[n])
        /\ \A k \in DOMAIN path : path[k].node = n => Children(n) = PutBack(kids[n], path[k].idx, Held(k))
    BY ChildrenFacts
  <2>2. /\ (~OnPath(n)' => Children(n)' = kids'[n])
        /\ \A k \in DOMAIN path' : path'[k].node = n => Children(n)' = PutBack(kids'[n], path'[k].idx, Held(k)')
    <3>1. Reassembled'
      BY <1>13, <1>14, ChildrenReassembled, PTL
    <3>2. QED
      BY <3>1 DEF Reassembled
  <2>3. CASE ~OnPath(n)'
    BY <1>9, <1>16, <2>1, <2>2, <2>3
  <2>4. CASE OnPath(n)'
    <3>1. n # p
      BY <1>16, <2>4
    <3>2. PICK k \in 1..(L - 1) : path'[k].node = n
      BY <1>10, <2>4 DEF OnPath
    <3>3. path'[k] = path[k] /\ k \in DOMAIN path /\ k \in DOMAIN path' /\ Held(k)' = Held(k)
      BY <1>10, <1>11, <1>15
    <3>4. Children(n) = PutBack(kids[n], path[k].idx, Held(k))
      BY <2>1, <3>2, <3>3
    <3>5. Children(n)' = PutBack(kids'[n], path'[k].idx, Held(k)')
      BY <2>2, <3>2, <3>3
    <3>6. QED
      BY <1>9, <3>1, <3>3, <3>4, <3>5
  <2>5. QED
    BY <2>3, <2>4
<1>18. ASSUME NEW n \in nodes PROVE Below(n)' = Below(n)
  <2>1. n \in Id /\ Pending' = Pending /\ OnPath(p)
    BY <1>2, <1>4, <1>5 DEF TypeOK, Pending, OnPath
  <2>2. CASE op.kind = "insert"
    BY <1>4, <1>12, <1>16, <2>1, <2>2 DEF Below, Pending
  <2>3. CASE op.kind # "insert"
    BY <1>12, <2>1, <2>3 DEF Below, Pending
  <2>4. QED
    BY <2>2, <2>3
<1>19. TreeInv'
  <2>1. FreshInv'
    <3>1. \A n \in Id \ nodes : n # p /\ keys'[n] = keys[n] /\ kids'[n] = kids[n]
      BY <1>6, <1>9, <1>12
    <3>2. QED
      BY <1>4, <3>1 DEF TreeInv, FreshInv
  <2>2. \A n \in nodes : Children(n)' = Children(n)
    BY <1>17 DEF TypeOK
  <2>3. QED
    BY <1>4, <1>18, <2>1, <2>2, SameTree
<1>20. OpInv'
  BY <1>4 DEF OpInv
<1>21. QED
  BY <1>13, <1>14, <1>17, <1>19, <1>20

-----------------------------------------------------------------------------
\* The steps that change the tree.

LEMMA PanicStep ==
  ASSUME Inv, Panic
  PROVE  Inv' /\ op.at \notin nodes /\ \A n \in Id : Children(n)' = <<>>
<1> USE DEF Inv
<1>1. TypeOK'
  BY ZipperAssumption DEF Panic, TypeOK
<1>2. /\ nodes' = {Root} /\ path' = <<>> /\ focus' = Root /\ direction' = "rest"
      /\ \A n \in Id : kids'[n] = <<>> /\ keys'[n] = {} /\ state'[n] = New
  BY DEF Panic
<1>3. PathInv'
  BY <1>2 DEF PathInv
<1>4. \A n \in Id : Children(n)' = <<>>
  <2>1. \A n : ~OnPath(n)'
    BY <1>2 DEF OnPath
  <2>2. Reassembled'
    BY <1>1, <1>3, ChildrenReassembled, PTL
  <2>3. QED
    BY <1>2, <2>1, <2>2 DEF Reassembled
<1>5. TreeInv'
  <2>1. Root \in nodes' /\ IsFiniteSet(nodes')
    BY <1>2, FS_Singleton
  <2>2. FreshInv'
    BY <1>2 DEF FreshInv
  <2>3. \A n \in nodes' : DOMAIN Children(n)' = {} /\ Below(n)' = {}
    BY <1>2, <1>4, ZipperAssumption DEF Below, Pending
  <2>4. KidsInv' /\ BelowInv'
    BY <1>2, <2>3 DEF KidsInv, BelowInv, IsKid
  <2>5. QED
    BY <2>1, <2>2, <2>4 DEF TreeInv
<1>6. OpInv' /\ op.at \notin nodes
  BY <1>2 DEF OpInv, Panic
<1>7. QED
  BY <1>1, <1>3, <1>4, <1>5, <1>6

\* insert_child at the focus.  The ancestors of the new node, which have still to be told, are
\* the nodes on the path; Below counts the key for them already.
LEMMA ActInsertStep ==
  ASSUME Inv, ActInsert
  PROVE  /\ Inv' /\ op.at = focus /\ op.id \in Id \ nodes
         /\ \A n \in Id : Children(n)' = IF n = focus THEN Append(Children(n), op.id) ELSE Children(n)
<1> USE DEF Inv
<1>1. PICK x : x = op.id
  OBVIOUS
<1>2. /\ direction = "down" /\ op.kind = "insert" /\ op.at = focus
      /\ nodes' = nodes \cup {x} /\ direction' = "up"
      /\ kids' = [kids EXCEPT ![focus] = Append(kids[focus], x), ![x] = <<>>]
      /\ keys' = [keys EXCEPT ![focus] = keys[focus] \cup {x}, ![x] = {}]
      /\ state' = [state EXCEPT ![x] = New]
      /\ op' = op /\ focus' = focus /\ path' = path /\ answer' = answer
  BY <1>1 DEF ActInsert, FocusTold
<1>3. /\ x \in Id /\ x \notin nodes /\ focus \in nodes /\ focus \in Id /\ x # focus
      /\ Root \in nodes /\ x # Root /\ nodes \subseteq Id
  BY <1>1, <1>2 DEF OpInv, TypeOK, Op, PathInv, TreeInv
<1>4. /\ ~Pending /\ ~OnPath(focus) /\ ~OnPath(x)
      /\ Children(focus) = kids[focus] /\ Children(x) = <<>> /\ keys[x] = {} /\ kids[x] = <<>>
      /\ kids \in [Id -> Seq(Id)] /\ keys \in [Id -> SUBSET Id] /\ state \in [Id -> State]
  <2>1. ~OnPath(focus) /\ ~OnPath(x)
    BY <1>3 DEF OnPath, PathInv
  <2>2. keys[x] = {} /\ kids[x] = <<>>
    BY <1>3 DEF TreeInv, FreshInv
  <2>3. QED
    BY <1>2, <1>3, <2>1, <2>2, ChildrenFacts DEF Pending, TypeOK
<1>5. PICK s \in Seq(Id) : s = kids[focus]
  BY <1>3, <1>4
<1>6. PICK t : t = Append(s, x)
  OBVIOUS
<1>7. PICK l \in Nat : l = Len(s)
  OBVIOUS
<1>8. /\ t \in Seq(Id) /\ DOMAIN s = 1..l /\ Len(t) = l + 1 /\ DOMAIN t = 1..(l + 1) /\ t[l + 1] = x
      /\ \A i \in 1..l : t[i] = s[i]
  BY <1>3, <1>6, <1>7
<1>9. /\ kids' \in [Id -> Seq(Id)] /\ kids'[focus] = t /\ kids'[x] = <<>>
      /\ \A n \in Id : n # focus => kids'[n] = kids[n]
  <2>1. kids' = [kids EXCEPT ![focus] = t, ![x] = <<>>] /\ <<>> \in Seq(Id)
    BY <1>2, <1>5, <1>6
  <2>2. QED
    BY <1>3, <1>4, <1>8, <2>1
<1>10. /\ keys' \in [Id -> SUBSET Id] /\ keys'[focus] = keys[focus] \cup {x}
       /\ \A n \in Id : n # focus => keys'[n] = keys[n]
  <2>1. keys[focus] \cup {x} \in SUBSET Id /\ {} \in SUBSET Id
    BY <1>3, <1>4
  <2>2. QED
    BY <1>2, <1>3, <1>4, <2>1
<1>11. TypeOK'
  <2>1. state' \in [Id -> State]
    BY <1>2, <1>3, <1>4, ZipperAssumption
  <2>2. QED
    <3>1. nodes' \in SUBSET Id
      BY <1>2, <1>3
    <3>2. /\ op' \in Op /\ direction' \in {"rest", "down", "up"} /\ focus' \in Id
          /\ path' \in Seq([node : Id, idx : Nat \ {0}])
          /\ (direction' = "rest" => focus' = Root /\ path' = <<>>)
          /\ answer' \in Id \cup {None}
      BY <1>2 DEF TypeOK
    <3>3. QED
      BY <1>9, <1>10, <2>1, <3>1, <3>2, Zenon DEF TypeOK
<1>12. PathInv'
  <2>1. ASSUME NEW k \in DOMAIN path
        PROVE  path[k].node \in nodes' /\ path[k].idx <= Len(kids'[path[k].node]) + 1
    <3>1. path[k].node \in nodes /\ path[k].node # focus /\ path[k].idx <= Len(kids[path[k].node]) + 1
      BY DEF PathInv
    <3>2. kids'[path[k].node] = kids[path[k].node]
      BY <1>3, <1>9, <3>1
    <3>3. QED
      BY <1>2, <3>1, <3>2
  <2>2. QED
    BY <1>2, <2>1 DEF PathInv
<1>13. ASSUME NEW n \in Id PROVE Children(n)' = IF n = focus THEN t ELSE Children(n)
  <2>1. /\ (~OnPath(n) => Children(n) = kids[n])
        /\ \A k \in DOMAIN path : path[k].node = n => Children(n) = PutBack(kids[n], path[k].idx, Held(k))
    BY ChildrenFacts
  <2>2. /\ (~OnPath(n)' => Children(n)' = kids'[n])
        /\ \A k \in DOMAIN path' : path'[k].node = n => Children(n)' = PutBack(kids'[n], path'[k].idx, Held(k)')
    <3>1. Reassembled'
      BY <1>11, <1>12, ChildrenReassembled, PTL
    <3>2. QED
      BY <3>1 DEF Reassembled
  <2>3. OnPath(n)' <=> OnPath(n)
    BY <1>2 DEF OnPath
  <2>4. CASE ~OnPath(n)
    BY <1>4, <1>9, <2>1, <2>2, <2>3, <2>4
  <2>5. CASE OnPath(n)
    <3>1. PICK k \in DOMAIN path : path[k].node = n
      BY <2>5 DEF OnPath
    <3>2. Held(k)' = Held(k)
      BY <1>2 DEF Held
    <3>3. n # focus /\ kids'[n] = kids[n]
      BY <1>4, <1>9, <2>5
    <3>4. Children(n)' = PutBack(kids[n], path[k].idx, Held(k))
      BY <1>2, <2>2, <3>1, <3>2, <3>3
    <3>5. QED
      BY <2>1, <3>1, <3>3, <3>4
  <2>6. QED
    BY <2>4, <2>5
<1> DEFINE Told(n) == OnPath(n) \/ n = focus
<1>14. ASSUME NEW n \in nodes
       PROVE  Below(n) = keys[n] /\ Below(n)' = IF Told(n) THEN keys[n] \cup {x} ELSE keys[n]
  <2>1. Pending' /\ (OnPath(n)' <=> OnPath(n)) /\ op'.id = x
    BY <1>1, <1>2 DEF Pending, OnPath
  <2>2. QED
    BY <1>3, <1>4, <1>10, <2>1 DEF Below
<1>15. Below(x)' = {} /\ \A z : ~IsKid(x, z)'
  <2>1. ~OnPath(x)' /\ keys'[x] = {}
    BY <1>2, <1>3, <1>4, <1>10 DEF OnPath
  <2>2. Children(x)' = <<>>
    BY <1>3, <1>4, <1>13
  <2>3. QED
    BY <2>1, <2>2 DEF Below, IsKid
<1>16. ASSUME NEW n \in nodes, NEW z \in Id
       PROVE  IsKid(n, z)' <=> IsKid(n, z) \/ (n = focus /\ z = x)
  <2>1. CASE n = focus
    <3>1. Children(n)' = t /\ Children(n) = s
      BY <1>3, <1>4, <1>5, <1>13, <2>1
    <3>2. IsKid(n, z)' <=> \E i \in 1..(l + 1) : t[i] = z
      BY <1>8, <3>1 DEF IsKid
    <3>3. IsKid(n, z) <=> \E i \in 1..l : s[i] = z
      BY <1>8, <3>1 DEF IsKid
    <3>4. \A i \in 1..(l + 1) : i \in 1..l \/ i = l + 1
      OBVIOUS
    <3>5. \A i \in 1..l : i \in 1..(l + 1)
      OBVIOUS
    <3>6. l + 1 \in 1..(l + 1)
      OBVIOUS
    <3>7. QED
      BY <1>8, <2>1, <3>2, <3>3, <3>4, <3>5, <3>6
  <2>2. CASE n # focus
    BY <1>3, <1>13, <2>2 DEF IsKid
  <2>3. QED
    BY <2>1, <2>2
<1>17. \A n \in nodes : ~IsKid(n, x) /\ x \notin keys[n]
  <2>1. \A n \in nodes : \A z \in Id : z \in Below(n) => z \in nodes
    BY DEF TreeInv, BelowInv
  <2>2. \A n \in nodes : \A z : IsKid(n, z) => z \in nodes
    BY DEF TreeInv, KidsInv, IsKid
  <2>3. QED
    BY <1>3, <1>14, <2>1, <2>2
<1>18. ASSUME NEW n \in nodes PROVE Told(n) <=> n = focus \/ \E y \in nodes : IsKid(n, y) /\ Told(y)
  <2>1. ASSUME NEW y \in nodes, IsKid(n, y), Told(y) PROVE Told(n)
    BY <2>1, UpPath DEF IsKid
  <2>2. ASSUME OnPath(n) PROVE \E y \in nodes : IsKid(n, y) /\ Told(y)
    <3>1. PICK k \in DOMAIN path : path[k].node = n
      BY <2>2 DEF OnPath
    <3>2. IsKid(n, Held(k)) /\ Held(k) \in nodes
      BY <3>1, HeldIsKid, PathFacts DEF IsKid
    <3>3. Told(Held(k))
      <4>1. k = Len(path) \/ k + 1 \in DOMAIN path
        BY PathFacts
      <4>2. QED
        BY <4>1 DEF Held, OnPath
    <3>4. QED
      BY <3>2, <3>3
  <2>3. QED
    BY <2>1, <2>2
<1>19. Told(Root)
  <2>1. CASE path = <<>>
    BY <2>1 DEF PathInv
  <2>2. CASE path # <<>>
    <3>1. 1 \in DOMAIN path /\ path[1].node = Root
      BY <2>2, PathFacts DEF PathInv
    <3>2. QED
      BY <3>1 DEF OnPath
  <2>3. QED
    BY <2>1, <2>2
<1> HIDE DEF Told
<1>20. KidsInv'
  <2>1. ASSUME NEW n \in nodes', NEW i \in DOMAIN Children(n)'
        PROVE  /\ n \in nodes
               /\ \/ i \in DOMAIN Children(n) /\ Children(n)'[i] = Children(n)[i]
                  \/ n = focus /\ i = l + 1 /\ Children(n)'[i] = x
    <3>1. n \in nodes
      BY <1>2, <1>3, <1>4, <1>13
    <3>2. CASE n = focus
      <4>1. Children(n)' = t /\ Children(n) = s
        BY <1>3, <1>4, <1>5, <1>13, <3>2
      <4>2. i \in 1..l \/ i = l + 1
        BY <1>8, <4>1
      <4>3. QED
        BY <1>8, <3>1, <3>2, <4>1, <4>2
    <3>3. CASE n # focus
      BY <1>3, <1>13, <3>1, <3>3
    <3>4. QED
      BY <3>2, <3>3
  <2>2. \A n \in nodes : \A i \in DOMAIN Children(n) :
          Children(n)[i] \in nodes \ {Root} /\ Children(n)[i] # x
    BY <1>3 DEF TreeInv, KidsInv
  <2>3. \A n \in nodes' : \A i \in DOMAIN Children(n)' : Children(n)'[i] \in nodes' \ {Root}
    BY <1>2, <1>3, <2>1, <2>2
  <2>4. ASSUME NEW n \in nodes', NEW m \in nodes',
               NEW i \in DOMAIN Children(n)', NEW j \in DOMAIN Children(m)',
               Children(n)'[i] = Children(m)'[j]
        PROVE  n = m /\ i = j
    <3>1. \A c, d \in nodes : \A u \in DOMAIN Children(c), v \in DOMAIN Children(d) :
            Children(c)[u] = Children(d)[v] => c = d /\ u = v
      BY DEF TreeInv, KidsInv
    <3>2. /\ n \in nodes
          /\ \/ i \in DOMAIN Children(n) /\ Children(n)'[i] = Children(n)[i]
             \/ n = focus /\ i = l + 1 /\ Children(n)'[i] = x
      BY <2>1
    <3>3. /\ m \in nodes
          /\ \/ j \in DOMAIN Children(m) /\ Children(m)'[j] = Children(m)[j]
             \/ m = focus /\ j = l + 1 /\ Children(m)'[j] = x
      BY <2>1
    <3>4. QED
      BY <2>2, <2>4, <3>1, <3>2, <3>3
  <2>5. QED
    BY <2>3, <2>4 DEF KidsInv
<1>21. BelowInv'
  <2>1. \A n \in nodes' : Below(n)' \subseteq nodes' /\ n \notin Below(n)'
    <3>1. \A n \in nodes : keys[n] \subseteq nodes /\ n \notin keys[n]
      BY <1>14 DEF TreeInv, BelowInv
    <3>2. QED
      BY <1>2, <1>3, <1>14, <1>15, <3>1
  <2>2. ASSUME NEW n \in nodes', NEW z \in Id
        PROVE  z \in Below(n)' <=> IsKid(n, z)' \/ \E y \in nodes' : IsKid(n, y)' /\ z \in Below(y)'
    <3>1. CASE n = x
      BY <1>2, <1>15, <3>1
    <3>2. CASE n \in nodes /\ z = x
      <4>1. x \in Below(n)' <=> Told(n)
        BY <1>14, <1>17, <3>2
      <4>2. IsKid(n, x)' <=> n = focus
        BY <1>3, <1>16, <1>17, <3>2
      <4>3. \A y \in nodes : x \in Below(y)' <=> Told(y)
        BY <1>14, <1>17
      <4>4. \A y \in nodes : IsKid(n, y)' <=> IsKid(n, y)
        BY <1>3, <1>16, <3>2
      <4>5. (\E y \in nodes' : IsKid(n, y)' /\ x \in Below(y)') <=> \E y \in nodes : IsKid(n, y) /\ Told(y)
        BY <1>2, <1>15, <4>3, <4>4
      <4>6. QED
        BY <1>18, <3>2, <4>1, <4>2, <4>5
    <3>3. CASE n \in nodes /\ z # x
      <4>1. z \in Below(n) <=> IsKid(n, z) \/ \E y \in nodes : IsKid(n, y) /\ z \in Below(y)
        BY <3>3 DEF TreeInv, BelowInv
      <4>2. \A y \in nodes : z \in Below(y)' <=> z \in Below(y)
        BY <1>14, <3>3
      <4>3. IsKid(n, z)' <=> IsKid(n, z)
        BY <1>16, <3>3
      <4>4. \A y \in nodes : IsKid(n, y)' <=> IsKid(n, y)
        BY <1>3, <1>16, <3>3
      <4>5. (\E y \in nodes' : IsKid(n, y)' /\ z \in Below(y)') <=> \E y \in nodes : IsKid(n, y) /\ z \in Below(y)
        BY <1>2, <1>15, <4>2, <4>4
      <4>6. QED
        BY <3>3, <4>1, <4>2, <4>3, <4>5
    <3>4. QED
      BY <1>2, <3>1, <3>2, <3>3
  <2>3. nodes' = {Root} \cup Below(Root)'
    <3>1. nodes = {Root} \cup keys[Root]
      BY <1>3, <1>14 DEF TreeInv, BelowInv
    <3>2. Below(Root)' = keys[Root] \cup {x}
      BY <1>3, <1>14, <1>19
    <3>3. QED
      BY <1>2, <3>1, <3>2
  <2>4. QED
    BY <2>1, <2>2, <2>3 DEF BelowInv
<1>22. TreeInv'
  <2>1. Root \in nodes' /\ IsFiniteSet(nodes')
    BY <1>2, <1>3, FS_AddElement DEF TreeInv
  <2>2. FreshInv'
    <3>1. \A n \in Id \ nodes' : n \in Id \ nodes /\ n # focus /\ n # x
      BY <1>2, <1>3
    <3>2. QED
      BY <1>2, <1>4, <1>9, <1>10, <3>1 DEF TreeInv, FreshInv
  <2>3. QED
    BY <1>20, <1>21, <2>1, <2>2 DEF TreeInv
<1>23. OpInv'
  BY <1>2 DEF OpInv
<1>24. QED
  <2>1. \A n \in Id : Children(n)' = IF n = focus THEN Append(Children(n), op.id) ELSE Children(n)
    BY <1>1, <1>4, <1>5, <1>6, <1>13
  <2>2. QED
    BY <1>1, <1>2, <1>3, <1>11, <1>12, <1>22, <1>23, <2>1

-----------------------------------------------------------------------------
\* The invariant holds throughout.

LEMMA InvInit == Init => Inv /\ \A n \in Id : Children(n) = <<>>
<1> SUFFICES ASSUME Init PROVE Inv /\ \A n \in Id : Children(n) = <<>>
  OBVIOUS
<1>1. TypeOK
  BY ZipperAssumption DEF Init, TypeOK, Op
<1>2. PathInv /\ OpInv
  BY DEF Init, PathInv, OpInv
<1>3. \A n \in Id : Children(n) = <<>>
  <2>1. path = <<>>
    BY DEF Init
  <2>2. \A n : ~OnPath(n)
    BY <2>1 DEF OnPath
  <2>3. QED
    BY <1>1, <1>2, <2>2, ChildrenFacts DEF Init
<1>4. TreeInv
  <2>1. Root \in nodes /\ IsFiniteSet(nodes)
    BY FS_Singleton DEF Init
  <2>2. FreshInv
    BY DEF Init, FreshInv
  <2>3. \A n \in nodes : DOMAIN Children(n) = {} /\ Below(n) = {}
    <3>1. nodes = {Root} /\ Root \in Id /\ keys[Root] = {} /\ ~Pending
      BY ZipperAssumption DEF Init, Pending
    <3>2. Children(Root) = <<>> /\ DOMAIN Children(Root) = {}
      BY <1>3, <3>1
    <3>3. Below(Root) = {}
      BY <3>1 DEF Below
    <3>4. QED
      BY <3>1, <3>2, <3>3
  <2>4. KidsInv /\ BelowInv
    BY <2>3 DEF Init, KidsInv, BelowInv, IsKid
  <2>5. QED
    BY <2>1, <2>2, <2>4 DEF TreeInv
<1>5. QED
  BY <1>1, <1>2, <1>3, <1>4 DEF Inv

LEMMA InvStep == Inv /\ [Next]_vars => Inv'
<1> SUFFICES ASSUME Inv, [Next]_vars PROVE Inv'
  OBVIOUS
<1>1. CASE \E at \in Id, id \in Id : Start("insert", at, id, New)
  BY <1>1, StartStep, ZipperAssumption
<1>2. CASE \E at \in Id, to \in State : Start("update", at, at, to)
  BY <1>2, StartStep
<1>3. CASE \E at \in Id, to \in State : Start("update_parent", at, at, to)
  BY <1>3, StartStep
<1>4. CASE \E to \in State : UpdateAll(to)
  BY <1>4, UpdateAllStep
<1>5. CASE Down
  BY <1>5, DownStep
<1>6. CASE ActInsert
  BY <1>6, ActInsertStep
<1>7. CASE ActUpdate
  BY <1>7, ActUpdateStep
<1>8. CASE Panic
  BY <1>8, PanicStep
<1>9. CASE Up
  BY <1>9, UpStep
<1>10. CASE Finish
  BY <1>10, FinishStep
<1>11. CASE UNCHANGED vars
  BY <1>11, StutterStep
<1>12. QED
  BY <1>1, <1>2, <1>3, <1>4, <1>5, <1>6, <1>7, <1>8, <1>9, <1>10, <1>11 DEF Next

LEMMA InvHolds == Spec => []Inv
  BY InvInit, InvStep, PTL DEF Spec

\* Type correctness, and that a zipper at rest is at the root with nothing above it.
THEOREM TypeCorrect == Spec => []TypeOK
<1>1. Inv => TypeOK
  BY DEF Inv
<1>2. QED
  BY <1>1, InvHolds, PTL

-----------------------------------------------------------------------------
\* The tree at rest.

LEMMA AtRest ==
  ASSUME Inv, direction = "rest"
  PROVE  /\ \A n : ~OnPath(n)
         /\ \A n \in nodes : n \in Id /\ Children(n) = kids[n] /\ Below(n) = keys[n]
<1>1. \A n : ~OnPath(n)
  BY DEF Inv, TypeOK, OnPath
<1>2. ASSUME NEW n \in nodes PROVE n \in Id /\ Children(n) = kids[n] /\ Below(n) = keys[n]
  BY <1>1, ChildrenFacts DEF Inv, TypeOK, Below
<1>3. QED
  BY <1>1, <1>2

\* At rest, descendant_keys is exact for every tree that inserts can build.
THEOREM KeysCorrect == Spec => []KeysExact
<1>1. ASSUME Inv, direction = "rest", NEW n \in nodes
      PROVE  keys[n] = UNION {{kids[n][i]} \cup keys[kids[n][i]] : i \in DOMAIN kids[n]}
  <2>1. n \in Id /\ keys[n] \subseteq Id
    BY <1>1 DEF Inv, TypeOK
  <2>2. \A m \in nodes : Children(m) = kids[m] /\ Below(m) = keys[m]
    BY <1>1, AtRest
  <2>3. \A i \in DOMAIN kids[n] : kids[n][i] \in nodes /\ kids[n][i] \in Id /\ keys[kids[n][i]] \subseteq Id
    BY <1>1, <2>2 DEF Inv, TreeInv, KidsInv, TypeOK
  <2>4. \A x \in Id : x \in keys[n] <=> IsKid(n, x) \/ \E y \in nodes : IsKid(n, y) /\ x \in keys[y]
    BY <1>1, <2>2 DEF Inv, TreeInv, BelowInv
  <2>5. \A x : IsKid(n, x) <=> \E i \in DOMAIN kids[n] : kids[n][i] = x
    BY <1>1, <2>2 DEF IsKid
  <2>6. \A x \in Id : x \in keys[n] <=> \E i \in DOMAIN kids[n] : x = kids[n][i] \/ x \in keys[kids[n][i]]
    BY <2>3, <2>4, <2>5
  <2>7. \A x : x \in keys[n] <=> \E i \in DOMAIN kids[n] : x \in {kids[n][i]} \cup keys[kids[n][i]]
    BY <2>1, <2>3, <2>6
  <2>8. QED
    BY <2>7
<1>2. Inv => KeysExact
  BY <1>1 DEF KeysExact
<1>3. QED
  BY <1>2, InvHolds, PTL

\* Whoever goes down towards a node gets there: its keys become fewer with every step.
LEMMA NoEndlessDescent ==
  ASSUME Inv, direction = "rest", NEW id, NEW B \in SUBSET nodes,
         \A n \in B : id \in keys[n] /\ kids[n][ChildIdx(n, id)] \in B
  PROVE  B = {}
<1> SUFFICES ASSUME B # {} PROVE FALSE
  OBVIOUS
<1> DEFINE T == {keys[n] : n \in B}
<1>1. \A n \in nodes : n \in Id /\ ~OnPath(n) /\ Children(n) = kids[n] /\ Below(n) = keys[n] /\ keys[n] \subseteq nodes
  BY AtRest DEF Inv, TreeInv, BelowInv
<1>2. PICK X \in T : \A Y \in T : Y \subseteq X => Y = X
  <2>1. T # {} /\ T \subseteq SUBSET nodes /\ IsFiniteSet(nodes)
    BY <1>1 DEF Inv, TreeInv
  <2> HIDE DEF T
  <2>2. QED
    BY <2>1, SmallestSet
<1>3. PICK n \in B : X = keys[n]
  BY <1>2
<1>4. PICK c \in B : c = kids[n][ChildIdx(n, id)]
  OBVIOUS
<1>5. ~Pending
  BY DEF Pending
<1>6. IsKid(n, c)
  <2>1. ChildIdx(n, id) \in DOMAIN kids[n]
    BY <1>1, <1>5, Leads DEF Inv
  <2>2. QED
    BY <1>1, <1>4, <2>1 DEF IsKid
<1>7. \A x \in Id : (x = c \/ x \in keys[c]) => x \in keys[n]
  BY <1>1, <1>6 DEF Inv, TreeInv, BelowInv
<1>8. c \in keys[n] /\ keys[c] \subseteq keys[n] /\ c \notin keys[c]
  BY <1>1, <1>7 DEF Inv, TreeInv, BelowInv
<1>9. keys[c] = keys[n]
  BY <1>2, <1>3, <1>8
<1>10. QED
  BY <1>8, <1>9

LEMMA FoundRight ==
  ASSUME Inv, direction = "rest", NEW id \in Id
  PROVE  Found(id) = IF id \in nodes THEN id ELSE None
<1> DEFINE next(n) == kids[n][ChildIdx(n, id)]
           Fix(u) == u = [n \in Id |-> IF id \in keys[n] THEN u[next(n)] ELSE n]
<1>1. PICK w : w = CHOOSE u : Fix(u)
  OBVIOUS
<1>2. Found(id) = IF id = Root \/ id \in keys[Root] THEN w[Root] ELSE None
  BY <1>1 DEF Found
<1>3. ASSUME NEW n \in Id, id \in keys[n]
      PROVE  n \in nodes /\ next(n) \in nodes /\ next(n) \in Id /\ (next(n) = id \/ id \in keys[next(n)])
  <2>1. n \in nodes
    BY <1>3 DEF Inv, TreeInv, FreshInv
  <2>2. ~OnPath(n) /\ ~Pending
    BY AtRest DEF Pending
  <2>3. QED
    BY <1>3, <2>1, <2>2, Leads DEF Inv, TypeOK
<1>4. Fix(w)
  <2> DEFINE f == [n \in Id |-> IF id \in keys[n] THEN id ELSE n]
  <2>1. ASSUME NEW n \in Id PROVE f[n] = IF id \in keys[n] THEN f[next(n)] ELSE n
    BY <1>3
  <2>2. Fix(f)
    BY <2>1
  <2> HIDE DEF f, Fix
  <2>3. QED
    BY <1>1, <2>2
<1>5. \A n \in Id : w[n] = IF id \in keys[n] THEN w[next(n)] ELSE n
  BY <1>4
<1>6. id \notin keys[id]
  BY AtRest DEF Inv, TreeInv, BelowInv, FreshInv
<1>7. w[id] = id
  BY <1>5, <1>6
<1>8. \A n \in nodes : id \in keys[n] => w[n] = id
  <2> DEFINE B == {n \in nodes : id \in keys[n] /\ w[n] # id}
  <2>1. ASSUME NEW n \in B PROVE id \in keys[n] /\ next(n) \in B
    <3>1. n \in Id
      BY DEF Inv, TypeOK
    <3>2. w[n] = w[next(n)]
      BY <1>5, <3>1
    <3>3. QED
      BY <1>3, <1>7, <3>1, <3>2
  <2>2. B \in SUBSET nodes /\ \A n \in B : id \in keys[n] /\ kids[n][ChildIdx(n, id)] \in B
    BY <2>1
  <2>3. B = {}
    <3> HIDE DEF B
    <3>1. QED
      BY <2>2, NoEndlessDescent
  <2>4. QED
    BY <2>3
<1>9. Root \in nodes /\ nodes = {Root} \cup keys[Root]
  BY AtRest DEF Inv, TreeInv, BelowInv
<1>10. QED
  BY <1>2, <1>7, <1>8, <1>9

LEMMA ParentRight ==
  ASSUME Inv, direction = "rest", NEW id \in Id
  PROVE  IF id \in nodes \ {Root}
         THEN \E i \in DOMAIN kids[ParentId(id)] : kids[ParentId(id)][i] = id
         ELSE ParentId(id) = None
<1> DEFINE next(n) == kids[n][ChildIdx(n, id)]
           Fix(u) == u = [n \in Id |-> IF id \notin keys[n] THEN None
                                       ELSE IF next(n) = id THEN n ELSE u[next(n)]]
<1>1. PICK w : w = CHOOSE u : Fix(u)
  OBVIOUS
<1>2. ParentId(id) = w[Root]
  BY <1>1 DEF ParentId
<1>3. ASSUME NEW n \in Id, id \in keys[n]
      PROVE  /\ n \in nodes /\ ChildIdx(n, id) \in DOMAIN kids[n]
             /\ next(n) \in nodes /\ next(n) \in Id /\ (next(n) = id \/ id \in keys[next(n)])
  <2>1. n \in nodes
    BY <1>3 DEF Inv, TreeInv, FreshInv
  <2>2. ~OnPath(n) /\ ~Pending
    BY AtRest DEF Pending
  <2>3. QED
    BY <1>3, <2>1, <2>2, Leads DEF Inv, TypeOK
<1>4. ASSUME NEW n \in Id, NEW m \in Id, id \in keys[n], id \in keys[m], next(n) = id, next(m) = id
      PROVE  n = m
  <2>1. /\ n \in nodes /\ ChildIdx(n, id) \in DOMAIN Children(n) /\ Children(n)[ChildIdx(n, id)] = id
        /\ m \in nodes /\ ChildIdx(m, id) \in DOMAIN Children(m) /\ Children(m)[ChildIdx(m, id)] = id
    BY <1>3, <1>4, AtRest
  <2>2. QED
    BY <2>1 DEF Inv, TreeInv, KidsInv
<1>5. Fix(w)
  <2>1. PICK p : p = CHOOSE n \in Id : id \in keys[n] /\ next(n) = id
    OBVIOUS
  <2> DEFINE f == [n \in Id |-> IF id \notin keys[n] THEN None ELSE p]
  <2>2. ASSUME NEW n \in Id, id \in keys[n], next(n) = id PROVE p = n
    <3>1. p \in Id /\ id \in keys[p] /\ next(p) = id
      BY <2>1, <2>2
    <3>2. QED
      BY <1>4, <2>2, <3>1
  <2>3. ASSUME NEW n \in Id
        PROVE  f[n] = IF id \notin keys[n] THEN None ELSE IF next(n) = id THEN n ELSE f[next(n)]
    BY <1>3, <2>2
  <2>4. Fix(f)
    BY <2>3
  <2> HIDE DEF f, Fix
  <2>5. QED
    BY <1>1, <2>4
<1>6. \A n \in Id : w[n] = IF id \notin keys[n] THEN None ELSE IF next(n) = id THEN n ELSE w[next(n)]
  BY <1>5
<1> DEFINE Right(p) == \E i \in DOMAIN kids[p] : kids[p][i] = id
<1>7. \A n \in nodes : id \in keys[n] => Right(w[n])
  <2> DEFINE B == {n \in nodes : id \in keys[n] /\ ~Right(w[n])}
  <2>1. ASSUME NEW n \in B PROVE id \in keys[n] /\ next(n) \in B
    <3>1. n \in Id /\ id \in keys[n]
      BY DEF Inv, TypeOK
    <3>2. CASE next(n) = id
      <4>1. w[n] = n
        BY <1>6, <3>1, <3>2
      <4>2. Right(n)
        BY <1>3, <3>1, <3>2
      <4>3. QED
        BY <4>1, <4>2
    <3>3. CASE next(n) # id
      <4>1. w[n] = w[next(n)]
        BY <1>6, <3>1, <3>3
      <4>2. next(n) \in nodes /\ id \in keys[next(n)]
        BY <1>3, <3>1, <3>3
      <4>3. QED
        BY <3>1, <4>1, <4>2
    <3>4. QED
      BY <3>2, <3>3
  <2>2. B \in SUBSET nodes /\ \A n \in B : id \in keys[n] /\ kids[n][ChildIdx(n, id)] \in B
    BY <2>1
  <2>3. B = {}
    <3> HIDE DEF B
    <3>1. QED
      BY <2>2, NoEndlessDescent
  <2>4. QED
    BY <2>3
<1>8. /\ Root \in nodes /\ Root \in Id /\ nodes = {Root} \cup keys[Root] /\ Root \notin keys[Root]
  BY AtRest DEF Inv, TreeInv, BelowInv
<1>9. CASE id \in nodes \ {Root}
  <2>1. Right(w[Root])
    BY <1>7, <1>8, <1>9
  <2>2. QED
    BY <1>2, <1>9, <2>1
<1>10. CASE id \notin nodes \ {Root}
  BY <1>2, <1>6, <1>8, <1>10
<1>11. QED
  BY <1>9, <1>10

\* At rest, Node::get and get_parent_id answer rightly for every id.
THEOREM LookupsCorrect == Spec => []LookupCorrect
<1>1. Inv => LookupCorrect
  <2>1. SUFFICES ASSUME Inv, direction = "rest", NEW id \in Id
                 PROVE  /\ Found(id) = IF id \in nodes THEN id ELSE None
                        /\ IF id \in nodes \ {Root}
                           THEN \E i \in DOMAIN kids[ParentId(id)] : kids[ParentId(id)][i] = id
                           ELSE ParentId(id) = None
    BY DEF LookupCorrect
  <2>2. Found(id) = IF id \in nodes THEN id ELSE None
    BY <2>1, FoundRight
  <2>3. IF id \in nodes \ {Root}
        THEN \E i \in DOMAIN kids[ParentId(id)] : kids[ParentId(id)][i] = id
        ELSE ParentId(id) = None
    BY <2>1, ParentRight
  <2>4. QED
    BY <2>2, <2>3
<1>2. QED
  BY <1>1, InvHolds, PTL

-----------------------------------------------------------------------------
(***************************************************************************)
(* The refinement.  The children of a node, the one on loan put back, are  *)
(* those of the abstract tree, so going down and up is invisible; an       *)
(* operation takes effect when by_id has arrived, or when it panics.       *)
(***************************************************************************)
LEMMA TreeInit == Init => Tree!StInit
<1> SUFFICES ASSUME Init PROVE Tree!StInit
  OBVIOUS
<1>1. [n \in Id |-> Children(n)] = [n \in Id |-> <<>>]
  BY InvInit
<1>2. QED
  BY <1>1 DEF Init, Tree!StInit

LEMMA Invisible ==
  ASSUME nodes' = nodes, state' = state, answer' = answer,
         \A n \in Id : Children(n)' = Children(n)
  PROVE  UNCHANGED Tree!stVars
<1>1. [n \in Id |-> Children(n)]' = [n \in Id |-> Children(n)]
  OBVIOUS
<1>2. QED
  BY <1>1 DEF Tree!stVars

LEMMA InsertMaps ==
  ASSUME Inv, ActInsert
  PROVE  Tree!StNext
<1> PICK x : x = op.id
  OBVIOUS
<1> PICK whole : whole = [n \in Id |-> Children(n)]
  OBVIOUS
<1>1. x \in Id /\ x \notin nodes /\ focus \in nodes /\ focus \in Id
  BY ActInsertStep DEF Inv, PathInv, TypeOK
<1>2. [n \in Id |-> Children(n)]' = [whole EXCEPT ![focus] = Append(whole[focus], x)]
  <2>1. \A n \in Id : Children(n)' = IF n = focus THEN Append(Children(n), x) ELSE Children(n)
    BY ActInsertStep
  <2>2. QED
    BY <1>1, <2>1
<1>3. state' = state
  <2>1. state[x] = New /\ state \in [Id -> State] /\ state' = [state EXCEPT ![x] = New]
    BY <1>1 DEF Inv, TreeInv, FreshInv, TypeOK, ActInsert
  <2>2. QED
    BY <2>1
<1>4. nodes' = nodes \cup {x} /\ answer' = answer
  BY DEF ActInsert
<1>5. Tree!StInsert(focus, x)
  BY <1>1, <1>2, <1>3, <1>4 DEF Tree!StInsert
<1>6. QED
  BY <1>1, <1>5 DEF Tree!StNext

LEMMA UpdateMaps ==
  ASSUME Inv, ActUpdate
  PROVE  Tree!StNext
<1>1. PICK to \in State : to = op.to
  BY DEF Inv, TypeOK, Op
<1>2. /\ focus \in nodes /\ focus \in Id /\ nodes' = nodes
      /\ state' = [state EXCEPT ![focus] = to]
      /\ answer' = IF op.kind = "update" THEN answer ELSE IF path = <<>> THEN None ELSE path[Len(path)].node
  BY <1>1 DEF ActUpdate, Inv, PathInv, TypeOK
<1>3. [n \in Id |-> Children(n)]' = [n \in Id |-> Children(n)]
  BY ActUpdateStep
<1>4. CASE op.kind = "update"
  <2>1. Tree!StUpdate(focus, to)
    BY <1>2, <1>3, <1>4 DEF Tree!StUpdate
  <2>2. QED
    BY <1>2, <2>1 DEF Tree!StNext
<1>5. CASE op.kind # "update"
  <2>1. \A p \in nodes : Tree!IsChild(focus, p) <=> IsKid(p, focus)
    BY DEF Tree!IsChild, IsKid, Inv, TypeOK
  <2>2. \/ \E p \in nodes : Tree!IsChild(focus, p) /\ answer' = p
        \/ (\A p \in nodes : ~Tree!IsChild(focus, p)) /\ answer' = None
    <3>1. CASE path = <<>>
      <4>1. focus = Root /\ answer' = None
        BY <1>2, <1>5, <3>1 DEF Inv, PathInv
      <4>2. \A p \in nodes : ~IsKid(p, focus)
        BY <4>1 DEF IsKid, Inv, TreeInv, KidsInv
      <4>3. QED
        BY <2>1, <4>1, <4>2
    <3>2. CASE path # <<>>
      <4>1. PICK p : p = path[Len(path)].node
        OBVIOUS
      <4>2. Len(path) \in DOMAIN path
        BY <3>2, PathFacts DEF Inv
      <4>3. p \in nodes
        BY <4>1, <4>2 DEF Inv, PathInv
      <4>4. IsKid(p, focus)
        <5>1. Held(Len(path)) = focus
          BY DEF Held
        <5>2. QED
          BY <4>1, <4>2, <5>1, HeldIsKid DEF Inv, IsKid
      <4>5. answer' = p
        BY <1>2, <1>5, <3>2, <4>1
      <4>6. QED
        BY <2>1, <4>3, <4>4, <4>5
    <3>3. QED
      BY <3>1, <3>2
  <2>3. Tree!StUpdateAnswer(focus, to)
    BY <1>2, <1>3, <2>2 DEF Tree!StUpdateAnswer
  <2>4. QED
    BY <1>2, <2>3 DEF Tree!StNext
<1>6. QED
  BY <1>4, <1>5

LEMMA PanicMaps ==
  ASSUME Inv, Panic
  PROVE  Tree!StNext
<1>1. op.at \in Id /\ op.at \notin nodes
  BY PanicStep DEF Inv, TypeOK, Op
<1>2. [n \in Id |-> Children(n)]' = [n \in Id |-> <<>>]
  BY PanicStep
<1>3. Tree!StPanic(op.at)
  BY <1>1, <1>2 DEF Panic, Tree!StPanic
<1>4. QED
  BY <1>1, <1>3 DEF Tree!StNext

LEMMA UpdateAllMaps ==
  ASSUME Inv, NEW to \in State, UpdateAll(to)
  PROVE  Tree!StNext
<1>1. [n \in Id |-> Children(n)]' = [n \in Id |-> Children(n)]
  BY UpdateAllStep
<1>2. Tree!StUpdateAll(to)
  BY <1>1 DEF UpdateAll, Tree!StUpdateAll
<1>3. QED
  BY <1>2 DEF Tree!StNext

LEMMA TreeStep == Inv /\ [Next]_vars => [Tree!StNext]_(Tree!stVars)
<1> SUFFICES ASSUME Inv, [Next]_vars PROVE [Tree!StNext]_(Tree!stVars)
  OBVIOUS
<1>1. ASSUME NEW kind \in {"insert", "update", "update_parent"}, NEW at \in Id, NEW id \in Id,
             NEW to \in State, Start(kind, at, id, to)
      PROVE  UNCHANGED Tree!stVars
  BY <1>1, StartStep, Invisible DEF Start, tree
<1>2. CASE \E at \in Id, id \in Id : Start("insert", at, id, New)
  BY <1>1, <1>2, ZipperAssumption
<1>3. CASE \E at \in Id, to \in State : Start("update", at, at, to)
  BY <1>1, <1>3
<1>4. CASE \E at \in Id, to \in State : Start("update_parent", at, at, to)
  BY <1>1, <1>4
<1>5. CASE \E to \in State : UpdateAll(to)
  BY <1>5, UpdateAllMaps
<1>6. CASE Down
  <2>1. nodes' = nodes /\ state' = state /\ answer' = answer
    BY <1>6 DEF Down
  <2>2. QED
    BY <1>6, <2>1, DownStep, Invisible
<1>7. CASE ActInsert
  BY <1>7, InsertMaps
<1>8. CASE ActUpdate
  BY <1>8, UpdateMaps
<1>9. CASE Panic
  BY <1>9, PanicMaps
<1>10. CASE Up
  <2>1. nodes' = nodes /\ state' = state /\ answer' = answer
    BY <1>10 DEF Up
  <2>2. QED
    BY <1>10, <2>1, UpStep, Invisible
<1>11. CASE Finish
  BY <1>11, FinishStep, Invisible DEF Finish, tree
<1>12. CASE UNCHANGED vars
  BY <1>12, StutterStep, Invisible DEF vars, tree
<1>13. QED
  BY <1>2, <1>3, <1>4, <1>5, <1>6, <1>7, <1>8, <1>9, <1>10, <1>11, <1>12 DEF Next

\* Operations that take the tree to pieces and put it together again are, for the users of
\* the tree, single steps that change what they name and keep children in their order.
THEOREM TreeCorrect == Spec => TreeSafety
  BY TreeInit, TreeStep, InvHolds, PTL DEF Spec, TreeSafety, Tree!StSpec
=============================================================================
