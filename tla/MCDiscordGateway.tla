---------------------------- MODULE MCDiscordGateway ----------------------------
(* Instances of DiscordGateway for TLC in which messages are skipped.       *)
EXTENDS DiscordGateway

(* An event that waits as the plugin ends, with a message behind it kept.   *)
Overtaken == {[sessions |-> 1, losses |-> 1, fails |-> 0, kills |-> 1]}

(* A new session as the plugin ends, with the number of the old one.        *)
Renumbered == {[sessions |-> 2, losses |-> 0, fails |-> 0, kills |-> 1]}
=============================================================================
