------------------------------ MODULE SignalInbox ------------------------------
(* The inbox of the Signal plugin, krabb-plugins/messaging/signal/src/       *)
(* main.rs.  signal-cli takes messages off the server for good, so what it   *)
(* prints is collected in a temporary file, saved as the receive spool, put  *)
(* from there into the inbox, and only then is the spool removed.  A spool   *)
(* that is there is taken to be readable: the code removes one that is not.  *)
EXTENDS Integers, FiniteSets

CONSTANTS
  Inbound,         (* the messages that may be sent to the account             *)
  ReceiveLimit,    (* RECEIVE_LIMIT                                            *)
  MaxFailures      (* bound: ends of the process and files that fail           *)

ASSUME SignalAssumption == {ReceiveLimit, MaxFailures} \subseteq Nat

VARIABLES
  server,          (* the messages Signal holds for the account                *)
  receiving,       (* those in the temporary file of a running signal-cli      *)
  spool,           (* signal-receive.jsonl: whether it is there, and its events*)
  staged,          (* signal-inbox.json, pending                               *)
  polling,         (* how far the call of poll has come                        *)
  handed,          (* what the last answer has given to the daemon             *)
  kept, done,      (* history: what reached the spool, what was acknowledged   *)
  failures

signal == <<server, receiving, spool, staged, polling, handed, kept, done, failures>>

NoSpool == [there |-> FALSE, events |-> {}]

SignalInit ==
  /\ server = Inbound /\ receiving = {} /\ spool = NoSpool
  /\ staged = {} /\ polling = "no" /\ handed = {} /\ kept = {} /\ done = {} /\ failures = 0

(* One of the files cannot be written or removed, and the call fails.       *)
CallFails == failures < MaxFailures /\ failures' = failures + 1

(* Mutant: only when there is nothing in it.                                *)
EmptyOnly == spool.there /\ spool.events = {}

(* clear_redundant_receive_spool: all its events are pending.               *)
Redundant == spool.there /\ spool.events \subseteq staged

(* poll begins: the spool of a call that was cut off goes if it is          *)
(* redundant.                                                               *)
ClearRedundant ==
  /\ polling = "no"
  /\ \/ /\ polling' = "cleared"
        /\ spool' = IF Redundant THEN NoSpool ELSE spool
        /\ UNCHANGED failures
     \/ Redundant /\ CallFails /\ UNCHANGED <<polling, spool>>
  /\ UNCHANGED <<server, receiving, staged, handed, kept, done>>

(* receive_to_spool: signal-cli takes at most so many.                      *)
Receive ==
  /\ polling = "cleared" /\ staged = {} /\ ~ spool.there
  /\ \E batch \in SUBSET server :
       /\ Cardinality(batch) <= ReceiveLimit
       /\ server' = server \ batch /\ receiving' = batch
  /\ polling' = "receiving"
  /\ UNCHANGED <<spool, staged, handed, kept, done, failures>>

(* It fails, takes too long or prints too much, or the spool cannot be      *)
(* saved: the temporary file is removed with all it holds.                  *)
Discard ==
  /\ polling = "receiving" /\ CallFails
  /\ polling' = "no" /\ receiving' = {}
  /\ UNCHANGED <<server, spool, staged, handed, kept, done>>

Spool ==
  /\ polling = "receiving"
  /\ spool' = [there |-> TRUE, events |-> receiving] /\ receiving' = {}
  /\ kept' = kept \union receiving
  /\ polling' = "cleared"
  /\ UNCHANGED <<server, staged, handed, done, failures>>

(* stage: what is not pending yet, saved or rolled back.                    *)
StageSpool ==
  /\ polling = "cleared" /\ staged = {} /\ spool.there
  /\ \/ staged' = staged \union spool.events /\ polling' = "staged" /\ UNCHANGED failures
     \/ CallFails /\ polling' = "no" /\ UNCHANGED staged
  /\ UNCHANGED <<server, receiving, spool, handed, kept, done>>

(* clear_receive_spool.                                                     *)
ClearSpool ==
  /\ polling = "staged"
  /\ \/ spool' = NoSpool /\ polling' = "answer" /\ UNCHANGED failures
     \/ CallFails /\ polling' = "no" /\ UNCHANGED spool
  /\ UNCHANGED <<server, receiving, staged, handed, kept, done>>

(* The answer: what is pending.                                             *)
AnswerPoll ==
  /\ polling = "answer" \/ (polling = "cleared" /\ staged # {})
  /\ polling' = "no" /\ handed' = staged
  /\ UNCHANGED <<server, receiving, spool, staged, kept, done, failures>>

(* acknowledge, under the lock that a poll holds; a refused save changes    *)
(* nothing.                                                                 *)
AcknowledgeMessage ==
  /\ polling = "no"
  /\ \E m \in handed \intersect staged : staged' = staged \ {m} /\ done' = done \union {m}
  /\ UNCHANGED <<server, receiving, spool, polling, handed, kept, failures>>

(* The process ends, and the bridge with it.                                *)
PluginEnds ==
  /\ CallFails
  /\ receiving' = {} /\ polling' = "no" /\ handed' = {}
  /\ UNCHANGED <<server, spool, staged, kept, done>>

SignalNext ==
  \/ ClearRedundant \/ Receive \/ Discard \/ Spool \/ StageSpool \/ ClearSpool
  \/ AnswerPoll \/ AcknowledgeMessage \/ PluginEnds

SignalSpec == SignalInit /\ [][SignalNext]_signal

-------------------------------------------------------------------------------
(* What reached the spool is in one of the two files until it is            *)
(* acknowledged, and an acknowledged message is in neither again, where it  *)
(* would be handed over a second time: whatever step of the hand-over fails *)
(* or is cut off.                                                           *)
HandedOverOnce ==
  /\ kept \subseteq spool.events \union staged \union done
  /\ done \intersect (spool.events \union staged) = {}
=============================================================================
