------------------------------ MODULE MCAgentTurn ------------------------------
(* Instances of AgentTurn for TLC: two turns, of the bridge, of terminal   *)
(* clients, or one of each, under the approval modes.                      *)
EXTENDS AgentTurn

Setup(first, second, approval, asks, plans) ==
  [kind |-> <<first, second>>, mode |-> approval, asks |-> asks, plans |-> plans]

Silent == {<<>>}

Busy == {<<>>, <<"change", "propose">>}

Curious == {<<>>, <<"look", "change">>}

(* The one that MCPlugins has where something else moves.                  *)
Resting == Setup("terminal", "terminal", "off", {"change", "propose"}, Curious)

SomeSetups == {Setup("channel", "channel", "prompt", {"propose"}, Busy),
               Setup("channel", "channel", "prompt", {"change"}, Silent),
               Setup("channel", "channel", "auto", {"look"}, Curious),
               Setup("channel", "terminal", "prompt", {"change"}, Silent),
               Resting}

Terminals == {Setup("terminal", "terminal", "auto", {"change"}, Silent)}
=============================================================================
