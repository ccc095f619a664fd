------------------------------- MODULE MCInboxes -------------------------------
(* The inboxes of three messaging plugins for TLC; moving says which of     *)
(* them moves.                                                              *)
EXTENDS SlackInbox, SignalInbox, WhatsAppInbox

VARIABLE moving

inboxes == <<slack, signal, whatsapp, moving>>

InboxesInit ==
  /\ moving \in {"slack", "signal", "whatsapp"}
  /\ SlackInit /\ SignalInit /\ WhatsAppInit
  /\ moving # "slack" => notices = {}

InboxesNext ==
  /\ \/ moving = "slack" /\ SlackNext /\ UNCHANGED <<signal, whatsapp>>
     \/ moving = "signal" /\ SignalNext /\ UNCHANGED <<slack, whatsapp>>
     \/ moving = "whatsapp" /\ WhatsAppNext /\ UNCHANGED <<slack, signal>>
  /\ UNCHANGED moving

InboxesSpec == InboxesInit /\ [][InboxesNext]_inboxes

(* What the inboxes promise, NothingLost, HandedOverOnce and QueuedOnce of  *)
(* their modules: a message that Slack or Meta has let go of, or that has   *)
(* reached the spool of Signal, is in the inbox, or can be read again, or   *)
(* was accepted, and an accepted one does not come a second time from a     *)
(* spool or from an early repetition.                                       *)
MessagesKept == NothingLost /\ HandedOverOnce /\ QueuedOnce
=============================================================================
