-------------------------------- MODULE StateTree --------------------------------
(***************************************************************************)
(* A hierarchy of states as the users of src/node.rs see it: every         *)
(* operation is one step, nothing but what it names changes, and the       *)
(* children of a node keep their order.  An operation on an id that is not *)
(* in the tree panics, and costs the tree everything below its root.       *)
(***************************************************************************)
EXTENDS Naturals, Sequences

CONSTANTS
  Id,     \* state ids
  Root,   \* the id of the root
  State,  \* the states of a node
  New,    \* Kind::new_state
  None    \* no id

VARIABLES
  present,   \* the ids in the tree
  children,  \* the children of each, in order
  state,     \* the state of each
  answer     \* the parent id that the last update returned

stVars == <<present, children, state, answer>>

IsChild(id, p) == \E i \in DOMAIN children[p] : children[p][i] = id

StInit ==
  /\ present = {Root}
  /\ children = [n \in Id |-> <<>>]
  /\ state = [n \in Id |-> New]
  /\ answer = None

StInsert(p, id) ==
  /\ p \in present /\ id \notin present
  /\ present' = present \cup {id}
  /\ children' = [children EXCEPT ![p] = Append(@, id)]
  /\ UNCHANGED <<state, answer>>

StUpdate(id, s) ==
  /\ id \in present
  /\ state' = [state EXCEPT ![id] = s]
  /\ UNCHANGED <<present, children, answer>>

\* The answer names the parent, if there is one.
StUpdateAnswer(id, s) ==
  /\ id \in present
  /\ state' = [state EXCEPT ![id] = s]
  /\ \/ \E p \in present : IsChild(id, p) /\ answer' = p
     \/ (\A p \in present : ~IsChild(id, p)) /\ answer' = None
  /\ UNCHANGED <<present, children>>

StUpdateAll(s) ==
  /\ state' = [n \in Id |-> IF n \in present THEN s ELSE state[n]]
  /\ UNCHANGED <<present, children, answer>>

StPanic(id) ==
  /\ id \notin present
  /\ present' = {Root}
  /\ children' = [n \in Id |-> <<>>]
  /\ state' = [n \in Id |-> New]
  /\ UNCHANGED answer

StNext ==
  \/ \E p \in Id, id \in Id : StInsert(p, id)
  \/ \E id \in Id, s \in State : StUpdate(id, s) \/ StUpdateAnswer(id, s)
  \/ \E s \in State : StUpdateAll(s)
  \/ \E id \in Id : StPanic(id)

StSpec == StInit /\ [][StNext]_stVars
=============================================================================
