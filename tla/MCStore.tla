---------------------------------- MODULE MCStore ----------------------------------
(* Instances of StateStore: three ids in up to two hierarchies, two tasks. *)
EXTENDS StateStore, TLC

CONSTANTS menu, ping, pong, dispatcher, worker, fresh, done

Ids == {menu, ping, pong}
Tasks == {dispatcher, worker}
\* The dispatcher runs the machine of the menu, a task of their own those of the children.
Owners == (menu :> dispatcher) @@ (ping :> worker) @@ (pong :> worker)
States == {fresh, done}
=============================================================================
