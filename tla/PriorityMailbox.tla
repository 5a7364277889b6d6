---------------------------- MODULE PriorityMailbox ----------------------------
(***************************************************************************)
(* What users of the deque in src/queue.rs rely on, with no wakers and no  *)
(* receivers in sight: a mailbox of two lanes.  Everything sent is taken   *)
(* exactly once, the front lane before the back lane and each lane in the  *)
(* order of sending, and as long as something waits something is taken.    *)
(***************************************************************************)
EXTENDS Naturals

VARIABLES
  waiting,   \* messages sent and not yet taken
  sent       \* how many messages were sent; the n-th one carries stamp n

mbVars == <<waiting, sent>>

Lane == {"front", "back"}
Message == [lane : Lane, stamp : Nat]

MbInit ==
  /\ waiting = {}
  /\ sent = 0

Send(lane) ==
  /\ sent' = sent + 1
  /\ waiting' = waiting \cup {[lane |-> lane, stamp |-> sent + 1]}

\* m precedes n: the front lane first, then the older message.
Before(m, n) ==
  \/ m.lane = "front" /\ n.lane = "back"
  \/ m.lane = n.lane /\ m.stamp < n.stamp

Take ==
  /\ \E m \in waiting :
       /\ \A n \in waiting \ {m} : Before(m, n)
       /\ waiting' = waiting \ {m}
  /\ UNCHANGED sent

MbNext ==
  \/ \E lane \in Lane : Send(lane)
  \/ Take

MbSafety == MbInit /\ [][MbNext]_mbVars
MbSpec == MbSafety /\ WF_mbVars(Take)
=============================================================================
