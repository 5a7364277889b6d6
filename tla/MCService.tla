--------------------------------- MODULE MCService ---------------------------------
(* An instance of RexService: a game, a packet that is good and two that are not. *)
EXTENDS RexService, TLC

CONSTANTS timeout, client, game, good, stray, garbled, logger, adapter, timer

Kinds == {game}
Packets == {good, stray, garbled}
KindsOf == (good :> game) @@ (stray :> None) @@ (garbled :> game)
IdsOf == [p \in Packets |-> game]
ConvertiblePackets == {good, stray}

Topics == {timeout, client}
Processors == {logger, adapter, timer}
LoggerTopics == logger :> Topics
Bodies == 0..MaxPackets
=============================================================================
