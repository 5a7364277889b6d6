---------------------------------- MODULE MCGame ----------------------------------
(* Instances of GameRuntime: two menus, two plays, of two menus or of one. *)
EXTENDS GameRuntime, TLC

CONSTANTS first, second

Menus == {first, second}

\* Menus are alike: users begin with the first.  What they ask of the second one is a play of
\* which nobody holds the packet.
FirstThenSecond ==
  asked' > asked =>
    LET s == back'[Len(back')]
    IN s.to = first \/ (asked > 0 /\ s.input = "play" /\ s.who = None)
=============================================================================
