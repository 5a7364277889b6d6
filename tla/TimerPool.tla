------------------------------- MODULE TimerPool -------------------------------
(***************************************************************************)
(* What is left of the TimeoutManager of src/timeout.rs for somebody who   *)
(* does not look at the clock: an id that set a timeout has one, until it  *)
(* goes off or is cancelled; an item handed over to be retained comes back *)
(* once; each of these pushes its signal to the front lane in that step.   *)
(* When, and in which order, is left open.                                 *)
(***************************************************************************)
EXTENDS Sequences

CONSTANTS
  Id,           \* state ids
  Item,         \* what is retained
  WhenExpired,  \* for each id, what may be pushed when its timer goes off
  WhenReturned  \* for each item, what is pushed when it comes back

VARIABLES
  armed,    \* the ids with a timer
  held,     \* the items retained
  signals   \* the front lane of the signal queue

tpVars == <<armed, held, signals>>

TpInit ==
  /\ armed = {}
  /\ held = {}
  /\ signals = <<>>

TpSet(id) ==
  /\ armed' = armed \cup {id}
  /\ UNCHANGED <<held, signals>>

TpCancel(id) ==
  /\ armed' = armed \ {id}
  /\ UNCHANGED <<held, signals>>

TpRetain(x) ==
  /\ held' = held \cup {x}
  /\ UNCHANGED <<armed, signals>>

TpExpire(id) ==
  /\ id \in armed
  /\ armed' = armed \ {id}
  /\ \E pushed \in WhenExpired[id] : signals' = signals \o pushed
  /\ UNCHANGED held

TpReturn(x) ==
  /\ x \in held
  /\ held' = held \ {x}
  /\ signals' = signals \o WhenReturned[x]
  /\ UNCHANGED armed

TpTake ==
  /\ signals # <<>>
  /\ signals' = Tail(signals)
  /\ UNCHANGED <<armed, held>>

TpNext ==
  \/ \E id \in Id : TpSet(id) \/ TpCancel(id) \/ TpExpire(id)
  \/ \E x \in Item : TpRetain(x) \/ TpReturn(x)
  \/ TpTake

TpSafety == TpInit /\ [][TpNext]_tpVars
=============================================================================
