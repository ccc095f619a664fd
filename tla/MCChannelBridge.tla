---------------------------- MODULE MCChannelBridge ----------------------------
(* An instance of ChannelBridge for TLC, with all events of one chat.      *)
EXTENDS ChannelBridge

SameChat == [e \in Events |-> 1]
=============================================================================
