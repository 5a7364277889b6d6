------------------------------- MODULE StateForest -------------------------------
(***************************************************************************)
(* The StateStore of src/storage.rs as state machines see it through their *)
(* SmContext: hierarchies of states in which every operation is one step.  *)
(* There are no references and no locks.  An id is at home in one          *)
(* hierarchy, or in none; what is stored in a hierarchy is never lost,     *)
(* also when an id makes a new hierarchy its home.                         *)
(***************************************************************************)
CONSTANTS
  Id,         \* state ids
  Task,       \* the tasks that operate on the store
  State,      \* the states of a node
  Hierarchy,  \* hierarchies of states
  New,        \* Kind::new_state
  None        \* no id, no state, no hierarchy

VARIABLES
  home,     \* the hierarchy of each id, or None
  members,  \* the ids with a state in each hierarchy
  parent,   \* the parent of each member, or None
  state,    \* the state of each member
  seen      \* what each task was answered last

sfVars == <<home, members, parent, state, seen>>

SfInit ==
  /\ home = [id \in Id |-> None]
  /\ members = [h \in Hierarchy |-> {}]
  /\ parent = [h \in Hierarchy |-> [id \in Id |-> None]]
  /\ state = [h \in Hierarchy |-> [id \in Id |-> New]]
  /\ seen = [k \in Task |-> None]

\* A new hierarchy for id.
SfCreate(id, h) ==
  /\ members[h] = {}
  /\ home' = [home EXCEPT ![id] = h]
  /\ members' = [members EXCEPT ![h] = {id}]
  /\ parent' = [parent EXCEPT ![h][id] = None]
  /\ state' = [state EXCEPT ![h][id] = New]
  /\ UNCHANGED seen

\* A new child of p, at home where p is.
SfAdd(id, p) ==
  LET h == home[p]
  IN /\ h # None /\ id \notin members[h]
     /\ home' = [home EXCEPT ![id] = h]
     /\ members' = [members EXCEPT ![h] = @ \cup {id}]
     /\ parent' = [parent EXCEPT ![h][id] = p]
     /\ state' = [state EXCEPT ![h][id] = New]
     /\ UNCHANGED seen

SfRemove(id) ==
  /\ home' = [home EXCEPT ![id] = None]
  /\ UNCHANGED <<members, parent, state, seen>>

SfUpdate(id, s) ==
  /\ home[id] # None
  /\ state' = [state EXCEPT ![home[id]][id] = s]
  /\ UNCHANGED <<home, members, parent, seen>>

SfUpdateAll(id, s) ==
  LET h == home[id]
  IN /\ h # None
     /\ state' = [state EXCEPT ![h] = [n \in Id |-> IF n \in members[h] THEN s ELSE @[n]]]
     /\ UNCHANGED <<home, members, parent, seen>>

\* The state or the parent of id in a hierarchy that has it; None needs an id without a home.
SfGet(k, id) ==
  /\ \/ \E h \in Hierarchy :
          /\ id \in members[h]
          /\ \E x \in {state[h][id], parent[h][id]} : seen' = [seen EXCEPT ![k] = x]
     \/ home[id] = None /\ seen' = [seen EXCEPT ![k] = None]
  /\ UNCHANGED <<home, members, parent, state>>

SfNext ==
  \/ \E id \in Id, h \in Hierarchy : SfCreate(id, h)
  \/ \E id, p \in Id : SfAdd(id, p)
  \/ \E id \in Id : SfRemove(id)
  \/ \E id \in Id, s \in State : SfUpdate(id, s) \/ SfUpdateAll(id, s)
  \/ \E k \in Task, id \in Id : SfGet(k, id)

SfSpec == SfInit /\ [][SfNext]_sfVars
=============================================================================
