------------------------------ MODULE TimerService ------------------------------
(***************************************************************************)
(* What a state machine may expect of the TimeoutManager of                *)
(* src/timeout.rs: one timer per state id, a renewed timer forgets its old *)
(* deadline, a cancelled one never goes off, none goes off early or twice, *)
(* the earliest goes off first; and every item handed over to be retained  *)
(* comes back once, after its instant.  There are no ticks, no indices and *)
(* no lock here.                                                           *)
(***************************************************************************)
EXTENDS Naturals, Sequences

CONSTANTS
  Id,          \* state ids
  Supporting,  \* those whose kind has an input for a timeout (Rex::timeout_input)
  Returning,   \* those whose kind has an input for an item (Timeout::return_item)
  Time,        \* the instants that requests name, natural numbers
  None         \* no timer

VARIABLES
  clock,     \* the time now
  armed,     \* the deadline of each id, or None
  held,      \* items retained, the stamp telling the order in which they were accepted
  accepted,  \* how many items were accepted so far
  signals    \* the front lane of the signal queue

tsVars == <<clock, armed, held, accepted, signals>>

TsInit ==
  /\ clock = 0
  /\ armed = [id \in Id |-> None]
  /\ held = {}
  /\ accepted = 0
  /\ signals = <<>>

TsAdvance ==
  /\ clock' = clock + 1
  /\ UNCHANGED <<armed, held, accepted, signals>>

TsSet(id, at) ==
  /\ armed' = [armed EXCEPT ![id] = at]
  /\ UNCHANGED <<clock, held, accepted, signals>>

TsCancel(id) ==
  /\ armed' = [armed EXCEPT ![id] = None]
  /\ UNCHANGED <<clock, held, accepted, signals>>

TsRetain(id, at) ==
  /\ held' = held \cup {[id |-> id, at |-> at, stamp |-> accepted + 1]}
  /\ accepted' = accepted + 1
  /\ UNCHANGED <<clock, armed, signals>>

\* The timer with the earliest deadline goes off, after its deadline, and is armed no more.
TsExpire(id) ==
  /\ armed[id] # None
  /\ \A j \in Id : armed[j] # None => armed[id] <= armed[j]
  /\ \E now \in 0..clock :
       /\ armed[id] < now
       /\ signals' = IF id \in Supporting
                     THEN Append(signals, [id |-> id, input |-> "timeout", of |-> now])
                     ELSE signals
  /\ armed' = [armed EXCEPT ![id] = None]
  /\ UNCHANGED <<clock, held, accepted>>

\* An item comes back after its instant and after the items accepted before it that were
\* not to be held for longer.
TsReturn(x) ==
  /\ x.at < clock
  /\ \A y \in held : y.stamp < x.stamp => y.at > x.at
  /\ held' = held \ {x}
  /\ signals' = IF x.id \in Returning
                THEN Append(signals, [id |-> x.id, input |-> "item", of |-> x.stamp])
                ELSE signals
  /\ UNCHANGED <<clock, armed, accepted>>

TsTake ==
  /\ signals # <<>>
  /\ signals' = Tail(signals)
  /\ UNCHANGED <<clock, armed, held, accepted>>

Request ==
  \E id \in Id :
    \/ TsCancel(id)
    \/ \E at \in Time : TsSet(id, at) \/ TsRetain(id, at)

TsNext ==
  \/ TsAdvance
  \/ Request
  \/ \E id \in Id : TsExpire(id)
  \/ \E x \in held : TsReturn(x)
  \/ TsTake

TsSafety == TsInit /\ [][TsNext]_tsVars
=============================================================================
