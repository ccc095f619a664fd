------------------------------- MODULE MCPlugins -------------------------------
(* Instances for TLC of the daemon and its plugins: the turns that call     *)
(* providers and tools, the commands that install and update plugins, the   *)
(* Discord plugin with the gateway it reads, and the inboxes of three other *)
(* messaging plugins.  They share nothing, so each behaviour is one of one  *)
(* of them, the others rest.                                                *)
EXTENDS MCAgentTurn, MCInboxes, PluginFiles, DiscordGateway

VARIABLE part      (* what moves                                            *)

(* What may go wrong at the Discord plugin: failing calls and killed        *)
(* processes, or second polls, or a second session.  With two of them       *)
(* messages may be skipped (MCDiscordGateway).                              *)
SomeTroubles ==
  {[sessions |-> 1, losses |-> 0, fails |-> 2, kills |-> 2],
   [sessions |-> 1, losses |-> 2, fails |-> 0, kills |-> 0],
   [sessions |-> 2, losses |-> 0, fails |-> 0, kills |-> 0]}

all == <<vars, plugin, discord, inboxes, part>>

PluginsInit ==
  /\ part \in {"turns", "files", "discord", "inboxes"}
  /\ Init /\ FilesInit /\ DiscordInit /\ InboxesInit
  /\ part # "turns" => setup = Resting
  /\ part # "files" => dir = Gone
  /\ part # "discord" => left.kills = 2
  /\ part # "inboxes" => moving = "signal"

PluginsNext ==
  /\ \/ part = "turns" /\ Next /\ UNCHANGED <<plugin, discord, inboxes>>
     \/ /\ part = "files" /\ FilesNext /\ UNCHANGED <<vars, discord, inboxes>>
        (* Two command lines; the one that begins first is called the first. *)
        /\ ops = 0 => cmd'["second"] = cmd["second"]
     \/ part = "discord" /\ DiscordNext /\ UNCHANGED <<vars, plugin, inboxes>>
     \/ part = "inboxes" /\ InboxesNext /\ UNCHANGED <<vars, plugin, discord>>
  /\ UNCHANGED part

PluginsSpec == PluginsInit /\ [][PluginsNext]_all
=============================================================================
