----------------------------- MODULE WhatsAppInbox -----------------------------
(* The inbox of the WhatsApp plugin, krabb-plugins/messaging/whatsapp/src/   *)
(* main.rs.  Meta posts messages to a webhook, several in one request and    *)
(* several requests at once, and posts again what was not answered with 200. *)
(* The inbox and the ledger of message ids are one file, saved before the    *)
(* answer.                                                                   *)
EXTENDS SequencesExt, Sorting

CONSTANTS
  Messages,        (* the messages, numbered as they are sent                  *)
  QueueLimit,      (* QUEUE_LIMIT                                              *)
  IdLimit,         (* MESSAGE_ID_LIMIT                                         *)
  BatchSize,       (* messages in one request                                  *)
  MaxRepeats       (* bound: requests whose answer Meta does not get           *)

ASSUME WhatsAppAssumption ==
  /\ {QueueLimit, IdLimit, BatchSize, MaxRepeats} \subseteq Nat
  /\ QueueLimit <= IdLimit

VARIABLES
  meta,            (* the messages Meta has still to deliver, as it thinks     *)
  queue,           (* Inbox, pending                                           *)
  ledger,          (* Inbox, message_ids, the oldest first                     *)
  order,           (* history: the messages put into the queue                 *)
  repeats

whatsapp == <<meta, queue, ledger, order, repeats>>

WhatsAppInit ==
  /\ meta = Messages /\ queue = <<>> /\ ledger = <<>> /\ order = <<>>
  /\ repeats = 0

(* What of a sequence is not in a set.                                      *)
Without(batch, known) ==
  LET new == {i \in DOMAIN batch : batch[i] \notin known}
  IN [k \in 1 .. Cardinality(new) |-> batch[Ascending(new)[k]]]

(* Mutant: only the queue is looked at.                                     *)
PendingOnly(batch) == Without(batch, ToSet(queue))

(* The events of a request that are neither in the ledger nor pending.      *)
Fresh(batch) == Without(batch, ToSet(ledger) \union ToSet(queue))

(* Mutant: the newest id that is not pending gives way.                     *)
ForgetNewest(ids, pending) ==
  LET free == {i \in DOMAIN ids : ids[i] \notin ToSet(pending)}
  IN IF Len(ids) < IdLimit \/ free = {} THEN ids
     ELSE RemoveAt(ids, CHOOSE i \in free : \A j \in free : j <= i)

(* At the limit the oldest id that is not pending gives way.                *)
ForgetOldest(ids, pending) ==
  LET free == {i \in DOMAIN ids : ids[i] \notin ToSet(pending)}
  IN IF Len(ids) < IdLimit \/ free = {} THEN ids
     ELSE RemoveAt(ids, CHOOSE i \in free : \A j \in free : i <= j)

(* remember_message_id, before the message is pending itself.               *)
Remember(state, m) ==
  LET ids == ForgetOldest(state.ledger, state.queue)
  IN [queue |-> Append(state.queue, m),
      ledger |-> IF Contains(state.ledger, m) THEN state.ledger
                 ELSE IF Len(ids) < IdLimit THEN Append(ids, m) ELSE ids]

(* The inbox with these messages staged one after the other.                *)
Staged(fresh) ==
  LET state[n \in 0 .. Len(fresh)] ==
        IF n = 0 THEN [queue |-> queue, ledger |-> ledger]
        ELSE Remember(state[n - 1], fresh[n])
  IN state[Len(fresh)]

(* A POST of the webhook, staged and saved: the answer may be lost.         *)
Deliver ==
  \E n \in 1 .. BatchSize : \E batch \in [1 .. n -> meta] :
    LET fresh == Fresh(batch)
    IN /\ IsInjective(batch)
       /\ Len(queue) + Len(fresh) <= QueueLimit
       /\ queue' = Staged(fresh).queue /\ ledger' = Staged(fresh).ledger
       /\ order' = order \o fresh
       /\ \/ meta' = meta \ ToSet(batch) /\ UNCHANGED repeats
          \/ repeats < MaxRepeats /\ repeats' = repeats + 1 /\ UNCHANGED meta

(* acknowledge, of any event that poll has handed over.                     *)
RemoveAcknowledged ==
  /\ \E i \in DOMAIN queue : queue' = RemoveAt(queue, i)
  /\ UNCHANGED <<meta, ledger, order, repeats>>

WhatsAppNext == Deliver \/ RemoveAcknowledged

WhatsAppSpec == WhatsAppInit /\ [][WhatsAppNext]_whatsapp

-------------------------------------------------------------------------------
(* What Meta was told is delivered has been queued, and what was queued is   *)
(* queued again only after more others than the ledger is larger than the   *)
(* queue: until then a late repetition of it changes nothing, also when the *)
(* daemon has long acknowledged it.                                         *)
QueuedOnce ==
  /\ Messages \ meta \subseteq ToSet(order)
  /\ \A i, j \in DOMAIN order :
       i < j /\ order[i] = order[j] => j - i - 1 > IdLimit - QueueLimit
=============================================================================
