------------------------------ MODULE SessionStore ------------------------------
(***************************************************************************)
(* The durable session store of the Krabb daemon (krabb-runtime/src/       *)
(* state.rs) as operators on its two tables: the session records and the   *)
(* delivery outbox.  Every public method that changes the tables runs      *)
(* under the store mutex and ends in Store::change, which saves the whole  *)
(* store or rolls it back; so each method is one operator from old to new  *)
(* value, and a method that can refuse has its condition beside it.  The   *)
(* modules that model the daemon's tasks call these operators, one call    *)
(* per lock region of the code.                                            *)
(*                                                                         *)
(* Abstractions: a message is its event id, so a transcript is the set of  *)
(* the user events it contains (compaction never removes the message of a  *)
(* running turn); roles, routes, timestamps and the model name are left    *)
(* out.  The clock is read only to tell whether the reservation of a       *)
(* working session has run out, so "lease" is its outcome: "live" or       *)
(* "expired" for a session with a reservation deadline; without one, where *)
(* the deadline counts from the last update, "none" or "lapsed".           *)
(*                                                                         *)
(* A definition marked "Mutant" is a plausible wrong form of the one that  *)
(* follows it; nothing uses it but the runs that show a property notices.  *)
(***************************************************************************)
EXTENDS Integers, Sequences, FiniteSets

CONSTANTS
  Sess,        (* session ids, numbered in the key order of the session map *)
  Events,      (* inbound channel events, numbered by their provider id     *)
  SessLimit,   (* LIMIT on the sessions of users                            *)
  ScheduledLimit,  (* SCHEDULE_SESSION_LIMIT on those of scheduled tasks    *)
  QueueLimit,  (* LIMIT on a session queue, the running turn included       *)
  OutLimit,    (* LIMIT on the outbox                                       *)
  DeferLimit   (* LIMIT on deferred events                                  *)

ASSUME StoreAssumption ==
  /\ Sess \subseteq Nat /\ Sess # {} /\ IsFiniteSet(Sess)
  /\ Events \subseteq Nat \ {0} /\ IsFiniteSet(Events)
  /\ {SessLimit, QueueLimit, OutLimit, DeferLimit} \subseteq Nat \ {0}
  /\ ScheduledLimit \in Nat

NoEvent == 0

Statuses == {"absent", "idle", "working", "cancelled", "interrupted"}

Session ==
  [status   : Statuses,
   inflight : Events \cup {NoEvent},
   queued   : Seq(Events),
   stream   : Events \cup {NoEvent},
   phase    : {"safe", "unsafe"},
   lease    : {"none", "live", "expired", "lapsed"},
   messages : SUBSET Events]

DeliveryStatuses == {"absent", "pending", "sending", "streaming", "uncertain"}

Texts == {"partial", "failure", "answer"}

(* A delivery is named by the event it answers; "edit" says that the       *)
(* provider's message id is known, so that a send becomes an edit.         *)
Delivery == [status : DeliveryStatuses, text : Texts, edit : BOOLEAN]

NoSession ==
  [status |-> "absent", inflight |-> NoEvent, queued |-> <<>>,
   stream |-> NoEvent, phase |-> "safe", lease |-> "none", messages |-> {}]

NoDelivery == [status |-> "absent", text |-> "answer", edit |-> FALSE]

-----------------------------------------------------------------------------
(* Sessions.                                                               *)

InQueue(r, e) == \E i \in 1..Len(r.queued) : r.queued[i] = e

Without(q, e) ==
  IF \E i \in 1..Len(q) : q[i] = e
  THEN LET i == CHOOSE i \in 1..Len(q) : q[i] = e /\ \A j \in 1..(i - 1) : q[j] # e
       IN  SubSeq(q, 1, i - 1) \o SubSeq(q, i + 1, Len(q))
  ELSE q

(* Mutant: a reservation never runs out.                                   *)
ReservedForever(r) == r.status = "working" /\ r.inflight = NoEvent

HasLiveReservation(r) ==
  r.status = "working" /\ r.inflight = NoEvent /\ r.lease \in {"none", "live"}

ReservationRanOut(r) ==
  r.status = "working" /\ r.inflight = NoEvent /\ r.lease \in {"expired", "lapsed"}

(* recover_reservations, which every dispatched client request runs first. *)
Recovered(r) ==
  IF ReservationRanOut(r) THEN [r EXCEPT !.status = "idle", !.lease = "none"] ELSE r

(* The sessions of Sess are those of users.  Only they count where one is  *)
(* created; whoever asks for the size of the map also counts the sessions  *)
(* of scheduled tasks, of which the scheduler keeps some number.           *)
UserSessions(ss) == Cardinality({s \in Sess : ss[s].status # "absent"})

SessionsFull(ss) == UserSessions(ss) >= SessLimit

MapFull(ss, scheduled) == UserSessions(ss) + scheduled >= SessLimit

(* create_session: the record every new session starts with.               *)
Ensure(r) == IF r.status = "absent" THEN [NoSession EXCEPT !.status = "idle"] ELSE r

(* Mutant: one message too many.                                           *)
QueueOverfull(r) == Len(r.queued) + (IF r.inflight = NoEvent THEN 0 ELSE 1) > QueueLimit

QueueFull(r) == Len(r.queued) + (IF r.inflight = NoEvent THEN 0 ELSE 1) >= QueueLimit

(* A message that is already queued is accepted and changes nothing;       *)
(* queueing reopens a cancelled session.                                   *)
QueueRefuses(r, e) == ~InQueue(r, e) /\ QueueFull(r)

Queue(r, e) ==
  IF InQueue(r, e) THEN r
  ELSE [r EXCEPT !.queued = Append(@, e),
                 !.status = IF @ = "cancelled" THEN "idle" ELSE @,
                 !.lease  = IF r.status = "cancelled" THEN "none" ELSE @]

BeginRefuses(r, e) ==
  \/ HasLiveReservation(r)
  \/ r.inflight # NoEvent
  \/ r.status = "working" /\ ~InQueue(r, e)

(* Mutant: the message stays in the queue.                                 *)
BeginLeavesQueued(r, e) ==
  [r EXCEPT !.messages = @ \cup {e}, !.inflight = e, !.stream = NoEvent,
            !.phase = "safe", !.status = "working", !.lease = "none"]

Begin(r, e) ==
  [r EXCEPT !.queued = Without(@, e), !.messages = @ \cup {e},
            !.inflight = e, !.stream = NoEvent, !.phase = "safe",
            !.status = "working", !.lease = "none"]

(* Mutant: the lease is left in place.                                     *)
ClearKeepsLease(r, status) ==
  [r EXCEPT !.stream = NoEvent, !.phase = "safe", !.status = status, !.lease = "none",
            !.queued = IF status = "cancelled" THEN <<>> ELSE @]

Clear(r, status) ==
  [r EXCEPT !.inflight = NoEvent, !.stream = NoEvent, !.phase = "safe",
            !.status = status, !.lease = "none",
            !.queued = IF status = "cancelled" THEN <<>> ELSE @]

(* A cancelled session that still holds a turn keeps its status until the  *)
(* turn is cleared.                                                        *)
SetStatus(r, status) ==
  IF r.status = "cancelled" /\ r.inflight # NoEvent /\ status # "cancelled" THEN r
  ELSE [r EXCEPT !.status = status,
                 !.queued = IF status = "cancelled" THEN <<>> ELSE @,
                 !.lease  = IF status = "working" THEN @ ELSE "none"]

Cancel(r) ==
  IF r.inflight # NoEvent THEN SetStatus(r, "cancelled") ELSE Clear(r, "cancelled")

(* Store::push, with which a turn stores a tool exchange, and              *)
(* Store::append, with which a client stores a message and resumes a       *)
(* cancelled session.                                                      *)
Push(r) ==
  IF r.status = "cancelled" THEN r ELSE [r EXCEPT !.status = "idle", !.lease = "none"]

AppendMessage(r) == [r EXCEPT !.status = "idle", !.lease = "none"]

ReplySession(r) ==
  [r EXCEPT !.status = "idle", !.lease = "none", !.inflight = NoEvent,
            !.stream = NoEvent, !.phase = "safe"]

ReserveRefuses(r) == r.inflight # NoEvent \/ r.status = "working"

Reserve(r) == [r EXCEPT !.status = "working", !.lease = "live"]

RemoveRefuses(r) == r.status = "working" \/ r.inflight # NoEvent

-----------------------------------------------------------------------------
(* The outbox.                                                             *)

OutboxFull(ob) == Cardinality({d \in Events : ob[d].status # "absent"}) >= OutLimit

ReplyRefuses(ob, d) == ob[d].status = "absent" /\ OutboxFull(ob)

(* Store::reply: the delivery of a stream that the turn r is completing    *)
(* gets the final text and is due for one more edit unless its last edit   *)
(* is in doubt; another delivery with this id stays as it is.              *)
(* Mutant: a stream whose last edit is in doubt is sent again.             *)
ReplyResends(d, r, text, old) ==
  IF old.status = "absent" THEN [status |-> "pending", text |-> text, edit |-> FALSE]
  ELSE IF r.stream # d THEN old
  ELSE [old EXCEPT !.text = text, !.status = "pending"]

(* Mutant: the text that was streamed stays.                               *)
ReplyKeepsText(d, r, text, old) ==
  IF old.status = "absent" THEN [status |-> "pending", text |-> text, edit |-> FALSE]
  ELSE IF r.stream # d THEN old
  ELSE [old EXCEPT !.status = IF @ \in {"sending", "uncertain"} THEN "uncertain" ELSE "pending"]

ReplyDelivery(d, r, text, old) ==
  IF old.status = "absent" THEN [status |-> "pending", text |-> text, edit |-> FALSE]
  ELSE IF r.stream # d THEN old
  ELSE [old EXCEPT !.text = text,
                   !.status = IF @ \in {"sending", "uncertain"} THEN "uncertain" ELSE "pending"]

StreamRefuses(r, ob, d) ==
  \/ r.inflight = NoEvent \/ r.stream # NoEvent
  \/ ob[d].status # "absent"
  \/ OutboxFull(ob)

StartStream(r, d) == [r EXCEPT !.phase = "unsafe", !.stream = d]

StreamDelivery == [status |-> "sending", text |-> "partial", edit |-> FALSE]

(* The delivery of a stream whose turn is cleared is left in doubt.        *)
ClearDelivery(ob, r) ==
  [d \in Events |->
     IF d = r.stream /\ ob[d].status \in {"sending", "streaming"}
     THEN [ob[d] EXCEPT !.status = "uncertain"] ELSE ob[d]]
=============================================================================
