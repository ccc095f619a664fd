----------------------------- MODULE ChannelBridge -----------------------------
(***************************************************************************)
(* The channel bridge of the daemon (bridge_with_media in krabb-runtime/   *)
(* src/lib.rs): one task that drains the delivery outbox, picks queued,    *)
(* deferred or freshly polled events, admits each to its session, runs the *)
(* model turn, streams its text to the channel and delivers the reply.     *)
(* Client requests (krabb-runtime/src/ipc.rs) change the same store        *)
(* between any two of its lock regions, and the daemon may stop or crash   *)
(* between any two of its steps.                                           *)
(*                                                                         *)
(* One action is one lock region of the code together with the control     *)
(* flow up to the next one; "pc" names the await or lock the task is at.   *)
(* The channel is one whose cursor is the event id (Telegram): events      *)
(* carry no gateway sequence.  The event at the head of "batch" is the one *)
(* being processed.                                                        *)
(***************************************************************************)
EXTENDS SessionStore

CONSTANTS
  Chat,        (* the session each event is addressed to                    *)
  Permitted,   (* events the channel policy allows                          *)
  Redeliver,   (* whether a poll may repeat events below the cursor         *)
  Streams,     (* whether the model streams text before it answers          *)
  MaxFails, MaxCancels, MaxCrashes, MaxClientOps, MaxReserves   (* bounds   *)

ASSUME BridgeAssumption ==
  /\ Events = 1..Cardinality(Events)
  /\ Chat \in [Events -> Sess] /\ Permitted \subseteq Events
  /\ {Redeliver, Streams} \subseteq BOOLEAN
  /\ {MaxFails, MaxCancels, MaxCrashes, MaxClientOps, MaxReserves} \subseteq Nat

VARIABLES
  sess, outbox, dead, deferred, seen, offset,  (* the store                 *)
  pc, batch, picked, cur, msgid, disabled,     (* the bridge task           *)
  token, asked,                                (* cancellations             *)
  arrived, fails, cancels, crashes, ops, reserves,  (* environment, bounds  *)
  told, posted, granted, turns, again, mutated, answered, closed  (* history *)

store == <<sess, outbox, dead, deferred, seen, offset>>
task == <<pc, batch, picked, cur, msgid, disabled>>
cancelling == <<token, asked>>
bounds == <<fails, cancels, crashes, ops, reserves>>
history == <<told, posted, granted, turns, again, mutated, answered, closed>>
vars == <<store, task, cancelling, arrived, bounds, history>>

PCs == {"down", "top", "sending", "admit", "defer", "commit", "retain", "begun",
        "turn", "pushed", "stream", "sidedefer", "sidecommit", "sideretain", "failing",
        "ack", "reply", "settle"}

Turning == {"begun", "turn", "pushed", "stream", "sidedefer", "sidecommit",
            "sideretain", "failing"}

TypeOK ==
  /\ sess \in [Sess -> Session] /\ outbox \in [Events -> Delivery]
  /\ dead \subseteq Events /\ deferred \in Seq(Events)
  /\ seen \subseteq Events /\ offset \in 0..(Cardinality(Events) + 1)
  /\ pc \in PCs /\ batch \in Seq(Events)
  /\ pc \notin {"down", "top", "sending"} => batch # <<>>
  /\ pc \in {"sending", "sidedefer", "sidecommit", "sideretain"} => cur # NoEvent
  /\ picked \in Events \cup {NoEvent} /\ cur \in Events \cup {NoEvent}
  /\ msgid \in BOOLEAN /\ disabled \in BOOLEAN
  /\ token \in [Sess -> {"absent", "fresh", "requested"}]
  /\ asked \in [Sess -> {"no", "marked", "waiting", "orphan"}]
  /\ arrived \in 0..Cardinality(Events)
  /\ {fails, cancels, crashes, ops, reserves} \subseteq Nat
  /\ posted \in [Events -> Nat] /\ granted \in [Events -> Nat]
  /\ turns \in [Events -> Nat] /\ again \in [Events -> Nat]
  /\ told \subseteq Events /\ mutated \subseteq Events
  /\ answered \subseteq Events /\ closed \subseteq Events

Init ==
  /\ sess = [s \in Sess |-> NoSession] /\ outbox = [d \in Events |-> NoDelivery]
  /\ dead = {} /\ deferred = <<>> /\ seen = {} /\ offset = 0
  /\ pc = "top" /\ batch = <<>> /\ picked = NoEvent /\ cur = NoEvent
  /\ msgid = FALSE /\ disabled = FALSE
  /\ token = [s \in Sess |-> "absent"] /\ asked = [s \in Sess |-> "no"]
  /\ arrived = 0
  /\ fails = 0 /\ cancels = 0 /\ crashes = 0 /\ ops = 0 /\ reserves = 0
  /\ posted = [e \in Events |-> 0] /\ granted = [e \in Events |-> 0]
  /\ turns = [e \in Events |-> 0] /\ again = [e \in Events |-> 0]
  /\ told = {} /\ mutated = {} /\ answered = {} /\ closed = {}

-----------------------------------------------------------------------------
(* The top of the loop.                                                    *)

Pending == {d \in Events : outbox[d].status = "pending"}

(* A dispatched request posts a new provider message unless it edits one.  *)
Dispatch(d, ob) ==
  /\ told' = IF ob[d].text = "answer" THEN told \cup {d} ELSE told
  /\ posted' = [posted EXCEPT ![d] = @ + (IF ob[d].edit THEN 0 ELSE 1)]

(* Any pending delivery may be the first of the outbox.                    *)
SendPending(d) ==
  /\ pc = "top" /\ d \in Pending
  /\ outbox' = [outbox EXCEPT ![d].status = "sending"]
  /\ Dispatch(d, outbox)
  /\ pc' = "sending" /\ cur' = d
  /\ UNCHANGED <<sess, dead, deferred, seen, offset, batch, picked, msgid, disabled,
                 cancelling, arrived, bounds, granted, turns, again, mutated, answered, closed>>

(* The delivery may have been dropped meanwhile: an acknowledgement is     *)
(* then a no-op, but marking it uncertain fails and ends the bridge.       *)
Stopped ==
  /\ pc' = "down" /\ batch' = <<>> /\ picked' = NoEvent /\ cur' = NoEvent
  /\ msgid' = FALSE /\ disabled' = FALSE
  /\ token' = [s \in Sess |-> "absent"] /\ asked' = [s \in Sess |-> "no"]

SendAccepted(d, next) ==
  /\ outbox' = [outbox EXCEPT ![d] = NoDelivery]
  /\ pc' = next /\ cur' = NoEvent
  /\ UNCHANGED <<batch, picked, msgid, disabled, cancelling>>

(* Mutant: a failed send is tried again.                                   *)
SendFailedRetries(d, next) ==
  /\ outbox' = [outbox EXCEPT ![d].status = IF @ = "absent" THEN @ ELSE "pending"]
  /\ pc' = next /\ cur' = NoEvent
  /\ UNCHANGED <<batch, picked, msgid, disabled, cancelling>>

SendFailed(d, next) ==
  \/ /\ outbox[d].status # "absent"
     /\ outbox' = [outbox EXCEPT ![d].status = "uncertain"]
     /\ pc' = next /\ cur' = NoEvent
     /\ UNCHANGED <<batch, picked, msgid, disabled, cancelling>>
  \/ /\ outbox[d].status = "absent" /\ UNCHANGED outbox
     /\ Stopped

PendingSent ==
  /\ pc = "sending"
  /\ SendAccepted(cur, "top") \/ SendFailed(cur, "top")
  /\ UNCHANGED <<sess, dead, deferred, seen, offset, arrived, bounds, history>>

Runnable(s) ==
  /\ sess[s].status \notin {"absent", "cancelled"}
  /\ ~HasLiveReservation(sess[s])
  /\ sess[s].queued # <<>>

PickQueued(s) ==
  /\ pc = "top" /\ Pending = {}
  /\ Runnable(s) /\ \A t \in Sess : t < s => ~Runnable(t)
  /\ batch' = <<Head(sess[s].queued)>> /\ picked' = Head(sess[s].queued)
  /\ pc' = "admit"
  /\ UNCHANGED <<store, cur, msgid, disabled, cancelling, arrived, bounds, history>>

PickDeferred ==
  /\ pc = "top" /\ Pending = {} /\ \A s \in Sess : ~Runnable(s)
  /\ deferred # <<>>
  /\ batch' = <<Head(deferred)>> /\ picked' = NoEvent
  /\ pc' = "admit"
  /\ UNCHANGED <<store, cur, msgid, disabled, cancelling, arrived, bounds, history>>

Cursor == IF offset = 0 THEN 1 ELSE offset

(* The provider returns every event from the cursor on; one that repeats   *)
(* updates may start further back.                                         *)
Poll(first) ==
  /\ pc = "top" /\ Pending = {} /\ \A s \in Sess : ~Runnable(s)
  /\ deferred = <<>>
  /\ first \in 1..arrived
  /\ first = Cursor \/ (Redeliver /\ first < Cursor)
  /\ batch' = [i \in 1..(arrived - first + 1) |-> first + i - 1]
  /\ picked' = NoEvent /\ pc' = "admit"
  /\ UNCHANGED <<store, cur, msgid, disabled, cancelling, arrived, bounds, history>>

-----------------------------------------------------------------------------
(* Admission of the event at the head of the batch.                        *)

Deferred(e) == \E i \in 1..Len(deferred) : deferred[i] = e

Known(e) == e \in seen /\ ~Deferred(e)

(* Events that are committed without a look at their session.              *)
Rejected(e) ==
  e # picked /\ (Known(e) \/ e \notin Permitted)

Goto(next) ==
  /\ pc' = next
  /\ UNCHANGED <<batch, picked, cur, msgid, disabled>>

NextEvent ==
  /\ batch' = Tail(batch)
  /\ pc' = IF Len(batch) = 1 THEN "top" ELSE "admit"
  /\ UNCHANGED <<picked, cur, msgid, disabled>>

BreakBatch ==
  /\ batch' = <<>> /\ pc' = "top"
  /\ UNCHANGED <<picked, cur, msgid, disabled>>

Reject ==
  /\ pc = "admit" /\ Rejected(Head(batch))
  /\ Goto("commit")
  /\ UNCHANGED <<store, cancelling, arrived, bounds, history>>

(* An event for a cancelled session is dropped.                            *)
Discard ==
  LET e == Head(batch) IN
  /\ pc = "admit" /\ ~Rejected(e) /\ sess[Chat[e]].status = "cancelled"
  /\ Goto("commit")
  /\ closed' = closed \cup {e}
  /\ UNCHANGED <<store, cancelling, arrived, bounds, told, posted, granted, turns, again, mutated, answered>>

(* The session that takes the event in, created if need be.                *)
Admitting(e) ==
  /\ pc = "admit" /\ ~Rejected(e)
  /\ sess[Chat[e]].status # "cancelled"
  /\ sess[Chat[e]].status = "absent" => ~SessionsFull(sess)

(* The turn's lease, with which it starts, is on disk.                     *)
BeginTurn(e, r) ==
  /\ sess' = [sess EXCEPT ![Chat[e]] = Begin(r, e)]
  /\ deferred' = IF e = picked THEN Without(deferred, e) ELSE deferred

(* An event whose session has no room in the map is deferred, once it has  *)
(* gone through the rest of its admission: where sessions of scheduled     *)
(* tasks take up the room, its session is created and its turn is begun.   *)
NoRoom ==
  LET e == Head(batch) IN
  /\ pc = "admit" /\ ~Rejected(e)
  /\ sess[Chat[e]].status = "absent"
  /\ \E scheduled \in 0..ScheduledLimit : MapFull(sess, scheduled)
  /\ IF SessionsFull(sess) THEN UNCHANGED <<sess, deferred>>
     ELSE BeginTurn(e, Ensure(NoSession))
  /\ Goto("defer")
  /\ UNCHANGED <<outbox, dead, seen, offset, cancelling, arrived, bounds, history>>

Duplicate(r, e) == e # picked /\ (e \in r.messages \/ InQueue(r, e))

AdmitDuplicate ==
  LET e == Head(batch)  r == sess[Chat[e]] IN
  /\ Admitting(e) /\ Duplicate(r, e)
  /\ Goto("commit")
  /\ UNCHANGED <<store, cancelling, arrived, bounds, history>>

AdmitQueue ==
  LET e == Head(batch)  r == sess[Chat[e]] IN
  /\ Admitting(e) /\ ~Duplicate(r, e) /\ e # picked /\ r.status = "working"
  /\ IF QueueRefuses(r, e)
     THEN UNCHANGED sess /\ Goto("defer")
     ELSE sess' = [sess EXCEPT ![Chat[e]] = Queue(r, e)] /\ Goto("commit")
  /\ UNCHANGED <<outbox, dead, deferred, seen, offset, cancelling, arrived, bounds, history>>

(* A session that cannot take the turn leaves the event and the rest of    *)
(* the batch uncommitted.                                                  *)
AdmitBegin ==
  LET e == Head(batch)  r == Ensure(sess[Chat[e]]) IN
  /\ Admitting(e) /\ ~Duplicate(r, e) /\ (e = picked \/ r.status # "working")
  /\ IF BeginRefuses(r, e)
     THEN /\ sess' = [sess EXCEPT ![Chat[e]] = r]
          /\ BreakBatch
          /\ UNCHANGED <<deferred, turns>>
     ELSE /\ BeginTurn(e, r)
          /\ turns' = [turns EXCEPT ![e] = @ + 1]
          /\ Goto("begun")
  /\ UNCHANGED <<outbox, dead, seen, offset, cancelling, arrived, bounds,
                 told, posted, granted, again, mutated, answered, closed>>

(* Deferring: an event that is already deferred waits for its next try.    *)
Defer ==
  LET e == Head(batch) IN
  /\ pc = "defer"
  /\ \/ Deferred(e) /\ NextEvent /\ UNCHANGED deferred
     \/ ~Deferred(e) /\ Len(deferred) >= DeferLimit /\ BreakBatch /\ UNCHANGED deferred
     \/ /\ ~Deferred(e) /\ Len(deferred) < DeferLimit
        /\ deferred' = Append(deferred, e) /\ Goto("retain")
  /\ UNCHANGED <<sess, outbox, dead, seen, offset, cancelling, arrived, bounds, history>>

(* Store::commit_event: the event is known, and the cursor moves past it.  *)
(* Mutants: a deferred event is forgotten with its commit; the cursor      *)
(* moves one event too far.                                                *)
CommitForgets(e, retained) ==
  /\ seen' = seen \cup {e}
  /\ offset' = IF e + 1 > offset THEN e + 1 ELSE offset
  /\ deferred' = Without(deferred, e)

CommitSkips(e, retained) ==
  /\ seen' = seen \cup {e}
  /\ offset' = IF e + 2 > offset THEN e + 2 ELSE offset
  /\ deferred' = IF retained THEN deferred ELSE Without(deferred, e)

CommitEvent(e, retained) ==
  /\ seen' = seen \cup {e}
  /\ offset' = IF e + 1 > offset THEN e + 1 ELSE offset
  /\ deferred' = IF retained THEN deferred ELSE Without(deferred, e)

Commit ==
  /\ pc \in {"commit", "retain"}
  /\ CommitEvent(Head(batch), pc = "retain")
  /\ NextEvent
  /\ UNCHANGED <<sess, outbox, dead, cancelling, arrived, bounds, history>>

(* A queued event was committed when it was queued.                        *)
StartTurn ==
  LET e == Head(batch) IN
  /\ pc = "begun"
  /\ IF e = picked THEN UNCHANGED <<seen, offset, deferred>> ELSE CommitEvent(e, FALSE)
  /\ token' = [token EXCEPT ![Chat[e]] = IF @ = "absent" THEN "fresh" ELSE @]
  /\ pc' = "turn" /\ msgid' = FALSE /\ disabled' = FALSE
  /\ UNCHANGED <<sess, outbox, dead, batch, picked, cur, asked, arrived, bounds, history>>

-----------------------------------------------------------------------------
(* The turn.                                                               *)

e0 == Head(batch)

Here == sess[Chat[e0]]

(* A mutating tool, once approved, makes the lease unsafe before it runs.  *)
MutatingTool ==
  /\ pc = "turn" /\ Here.phase = "safe"
  /\ sess' = [sess EXCEPT ![Chat[e0]].phase = "unsafe"]
  /\ mutated' = mutated \cup {e0}
  /\ UNCHANGED <<outbox, dead, deferred, seen, offset, task, cancelling, arrived, bounds,
                 told, posted, granted, turns, again, answered, closed>>

(* A tool exchange is pushed to the transcript, which makes the session    *)
(* idle; the status is put back under a second lock.                       *)
ToolPush ==
  /\ pc = "turn" /\ Here.status # "cancelled"
  /\ sess' = [sess EXCEPT ![Chat[e0]] = Push(Here)]
  /\ Goto("pushed")
  /\ UNCHANGED <<outbox, dead, deferred, seen, offset, cancelling, arrived, bounds, history>>

ToolPushed ==
  /\ pc = "pushed"
  /\ sess' = [sess EXCEPT ![Chat[e0]] = SetStatus(Here, "working")]
  /\ Goto("turn")
  /\ UNCHANGED <<outbox, dead, deferred, seen, offset, cancelling, arrived, bounds, history>>

(* flush_stream: the first flush posts a message, later ones edit it; a    *)
(* flush that cannot start or fails disables streaming for the turn.       *)
FlushFirst ==
  /\ Streams /\ pc = "turn" /\ ~disabled /\ ~msgid
  /\ IF StreamRefuses(Here, outbox, e0)
     THEN disabled' = TRUE /\ UNCHANGED <<pc, sess, outbox, told, posted, granted, mutated>>
     ELSE /\ sess' = [sess EXCEPT ![Chat[e0]] = StartStream(Here, e0)]
          /\ outbox' = [outbox EXCEPT ![e0] = StreamDelivery]
          /\ Dispatch(e0, outbox') /\ granted' = [granted EXCEPT ![e0] = @ + 1]
          /\ mutated' = mutated \cup {e0}
          /\ pc' = "stream" /\ UNCHANGED disabled
  /\ UNCHANGED <<dead, deferred, seen, offset, batch, picked, cur, msgid, cancelling,
                 arrived, bounds, turns, again, answered, closed>>

FlushEdit ==
  /\ Streams /\ pc = "turn" /\ ~disabled /\ msgid
  /\ IF outbox[e0].status = "absent"
     THEN disabled' = TRUE /\ UNCHANGED <<pc, outbox>>
     ELSE /\ outbox' = [outbox EXCEPT ![e0].status = "sending", ![e0].text = "partial"]
          /\ pc' = "stream" /\ UNCHANGED disabled
  /\ UNCHANGED <<sess, dead, deferred, seen, offset, batch, picked, cur, msgid, cancelling,
                 arrived, bounds, history>>

Flushed ==
  /\ pc = "stream" /\ pc' = "turn"
  /\ \/ /\ outbox[e0].status # "absent"
        /\ outbox' = [outbox EXCEPT ![e0].status = "streaming", ![e0].edit = TRUE]
        /\ msgid' = TRUE /\ UNCHANGED disabled
     \/ /\ outbox' = [outbox EXCEPT ![e0].status = IF @ = "absent" THEN @ ELSE "uncertain"]
        /\ disabled' = TRUE /\ UNCHANGED msgid
  /\ UNCHANGED <<sess, dead, deferred, seen, offset, batch, picked, cur, cancelling,
                 arrived, bounds, history>>

(* queue_during_turn: while the turn waits for an approval the bridge      *)
(* polls, and takes in the events it gets.                                 *)
SideEvent(e) ==
  LET r == Ensure(sess[Chat[e]]) IN
  /\ pc = "turn" /\ e \in 1..arrived
  /\ e = Cursor \/ (Redeliver /\ e < Cursor)
  /\ cur' = e
  /\ \/ /\ Known(e) \/ e \notin Permitted
        /\ pc' = "sidecommit" /\ UNCHANGED sess
     \/ /\ ~Known(e) /\ e \in Permitted
        /\ \/ /\ sess[Chat[e]].status = "absent"
              /\ \E scheduled \in 0..ScheduledLimit : MapFull(sess, scheduled)
              /\ pc' = "sidedefer" /\ UNCHANGED sess
           \/ /\ sess[Chat[e]].status = "absent" => ~SessionsFull(sess)
              /\ IF QueueRefuses(r, e)
                 THEN pc' = "sidedefer" /\ sess' = [sess EXCEPT ![Chat[e]] = r]
                 ELSE pc' = "sidecommit" /\ sess' = [sess EXCEPT ![Chat[e]] = Queue(r, e)]
  /\ UNCHANGED <<outbox, dead, deferred, seen, offset, batch, picked, msgid, disabled,
                 cancelling, arrived, bounds, history>>

BackToTurn ==
  /\ pc' = "turn" /\ cur' = NoEvent
  /\ UNCHANGED <<batch, picked, msgid, disabled>>

SideDefer ==
  /\ pc = "sidedefer"
  /\ IF Deferred(cur) \/ Len(deferred) >= DeferLimit
     THEN BackToTurn /\ UNCHANGED deferred
     ELSE /\ deferred' = Append(deferred, cur)
          /\ pc' = "sideretain" /\ UNCHANGED <<batch, picked, cur, msgid, disabled>>
  /\ UNCHANGED <<sess, outbox, dead, seen, offset, cancelling, arrived, bounds, history>>

SideCommit ==
  /\ pc \in {"sidecommit", "sideretain"}
  /\ CommitEvent(cur, pc = "sideretain")
  /\ BackToTurn
  /\ UNCHANGED <<sess, outbox, dead, cancelling, arrived, bounds, history>>

-----------------------------------------------------------------------------
(* How a turn ends.                                                        *)

QueuedEvents(r) == {r.queued[i] : i \in 1..Len(r.queued)}

(* The turn sees the cancellation, or the session's status when it ends.   *)
TurnCancelled ==
  /\ pc = "turn"
  /\ token[Chat[e0]] = "requested" \/ Here.status = "cancelled"
  /\ sess' = [sess EXCEPT ![Chat[e0]] = Clear(Here, "cancelled")]
  /\ outbox' = ClearDelivery(outbox, Here)
  /\ closed' = closed \cup {e0} \cup QueuedEvents(Here)
  /\ Goto("ack")
  /\ UNCHANGED <<dead, deferred, seen, offset, cancelling, arrived, bounds,
                 told, posted, granted, turns, again, mutated, answered>>

(* acknowledge: the waiting client gets its answer.                        *)
Acknowledge ==
  LET s == Chat[e0] IN
  /\ pc = "ack"
  /\ token' = [token EXCEPT ![s] = "absent"]
  /\ asked' = [asked EXCEPT ![s] = IF @ = "orphan" THEN @ ELSE "no"]
  /\ NextEvent
  /\ UNCHANGED <<store, arrived, bounds, history>>

(* The check for a cancellation and the handling of the failure are two    *)
(* lock regions.                                                           *)
TurnFails ==
  /\ pc = "turn" /\ fails < MaxFails /\ Here.status # "cancelled"
  /\ fails' = fails + 1
  /\ Goto("failing")
  /\ UNCHANGED <<store, cancelling, arrived, cancels, crashes, ops, reserves, history>>

(* Whether a failed turn is tried again: by the phase its lease had before *)
(* the failure r was recorded, in "after".                                 *)
(* Mutant: the phase is read too late.                                     *)
RetriesReset(r, after, e) == after.phase # "unsafe" /\ ~QueueRefuses(after, e)

Retries(r, after, e) == r.phase # "unsafe" /\ ~QueueRefuses(after, e)

TurnFailed ==
  LET refused == ReplyRefuses(outbox, e0)
      r == IF refused THEN Clear(Here, "interrupted") ELSE ReplySession(Here)
      requeue == Retries(Here, r, e0)
  IN
  /\ pc = "failing"
  /\ sess' = [sess EXCEPT ![Chat[e0]] = IF requeue THEN Queue(r, e0) ELSE r]
  /\ outbox' = IF refused THEN ClearDelivery(outbox, Here)
               ELSE [outbox EXCEPT ![e0] = ReplyDelivery(e0, Here, "failure", @)]
  /\ granted' = [granted EXCEPT ![e0] =
                   IF ~refused /\ outbox[e0].status = "absent" THEN @ + 1 ELSE @]
  /\ again' = [again EXCEPT ![e0] = IF requeue THEN @ + 1 ELSE @]
  /\ closed' = IF requeue THEN closed ELSE closed \cup {e0}
  /\ NextEvent
  /\ UNCHANGED <<dead, deferred, seen, offset, cancelling, arrived, bounds,
                 told, posted, turns, mutated, answered>>

(* The reply is stored with its delivery; a full outbox ends the bridge.   *)
TurnAnswers ==
  LET reply == ReplyDelivery(e0, Here, "answer", outbox[e0]) IN
  /\ pc = "turn" /\ Here.status # "cancelled"
  /\ IF ReplyRefuses(outbox, e0)
     THEN Stopped /\ UNCHANGED <<sess, outbox, told, posted, granted, answered, closed>>
     ELSE /\ sess' = [sess EXCEPT ![Chat[e0]] = ReplySession(Here)]
          /\ granted' = [granted EXCEPT ![e0] = @ + (IF outbox[e0].status = "absent" THEN 1 ELSE 0)]
          /\ answered' = answered \cup {e0} /\ closed' = closed \cup {e0}
          /\ IF reply.status = "uncertain"
             THEN /\ outbox' = [outbox EXCEPT ![e0] = reply]
                  /\ NextEvent /\ UNCHANGED <<told, posted>>
             ELSE /\ outbox' = [outbox EXCEPT ![e0] = [reply EXCEPT !.status = "sending"]]
                  /\ Dispatch(e0, outbox')
                  /\ Goto("reply")
          /\ UNCHANGED cancelling
  /\ UNCHANGED <<dead, deferred, seen, offset, arrived, bounds, turns, again, mutated>>

ReplySent ==
  /\ pc = "reply"
  /\ SendAccepted(e0, "settle") \/ SendFailed(e0, "settle")
  /\ UNCHANGED <<sess, dead, deferred, seen, offset, arrived, bounds, history>>

Settle ==
  /\ pc = "settle"
  /\ sess' = [sess EXCEPT ![Chat[e0]] = IF @.status = "absent" THEN @ ELSE SetStatus(@, "idle")]
  /\ NextEvent
  /\ UNCHANGED <<outbox, dead, deferred, seen, offset, cancelling, arrived, bounds, history>>

-----------------------------------------------------------------------------
(* Client requests.  Those that are dispatched first return sessions whose *)
(* reservation has run out to idle.                                        *)

Sessions == [s \in Sess |-> Recovered(sess[s])]

(* session.cancel: a working session's turn is asked to stop and the       *)
(* client waits for it; the request itself is raised outside the lock.     *)
CancelSession(s) ==
  LET r == sess[s]  active == r.inflight # NoEvent \/ r.status = "working" IN
  /\ pc # "down" /\ cancels < MaxCancels
  /\ r.status # "absent" /\ asked[s] = "no"
  /\ cancels' = cancels + 1
  /\ sess' = [sess EXCEPT ![s] = Cancel(r)]
  /\ outbox' = IF r.inflight = NoEvent THEN ClearDelivery(outbox, r) ELSE outbox
  /\ closed' = closed \cup QueuedEvents(r)
  /\ IF active
     THEN /\ asked' = [asked EXCEPT ![s] = "marked"]
          /\ token' = [token EXCEPT ![s] = IF @ = "absent" THEN "fresh" ELSE @]
     ELSE /\ token' = [token EXCEPT ![s] = "absent"] /\ UNCHANGED asked
  /\ UNCHANGED <<dead, deferred, seen, offset, task, arrived, fails, crashes, ops, reserves,
                 told, posted, granted, turns, again, mutated, answered>>

RequestCancel(s) ==
  /\ asked[s] = "marked"
  /\ asked' = [asked EXCEPT ![s] = "waiting"]
  /\ token' = [token EXCEPT ![s] = "requested"]
  /\ UNCHANGED <<store, task, arrived, bounds, history>>

TurnOf(s) == IF pc \in Turning \cup {"ack"} THEN Chat[e0] = s ELSE FALSE

(* CANCEL_WAIT is longer than a turn; the token stays in the map.          *)
CancelTimesOut(s) ==
  /\ asked[s] \in {"waiting", "orphan"}
  /\ asked[s] = "waiting" => ~TurnOf(s)
  /\ asked' = [asked EXCEPT ![s] = "no"]
  /\ UNCHANGED <<store, task, token, arrived, bounds, history>>

ClientOp ==
  /\ pc # "down" /\ ops < MaxClientOps /\ ops' = ops + 1
  /\ UNCHANGED <<seen, offset, task, arrived, fails, cancels, crashes, reserves>>

AppendByClient(s) ==
  /\ ClientOp /\ Sessions[s].status \in {"idle", "cancelled", "interrupted"}
  /\ Sessions[s].inflight = NoEvent
  /\ sess' = [Sessions EXCEPT ![s] = AppendMessage(@)]
  /\ UNCHANGED <<outbox, dead, deferred, cancelling, history>>

DeleteSession(s) ==
  /\ ClientOp /\ Sessions[s].status # "absent" /\ ~RemoveRefuses(Sessions[s])
  /\ sess' = [Sessions EXCEPT ![s] = NoSession]
  /\ token' = [token EXCEPT ![s] = "absent"]
  /\ asked' = [asked EXCEPT ![s] = IF @ = "no" THEN "no" ELSE "orphan"]
  /\ closed' = closed \cup QueuedEvents(sess[s])
  /\ UNCHANGED <<outbox, dead, deferred, told, posted, granted, turns, again, mutated, answered>>

(* delivery.retry and delivery.drop.                                       *)
RetryDelivery(d) ==
  /\ ClientOp /\ outbox[d].status = "uncertain"
  /\ outbox' = [outbox EXCEPT ![d].status = "pending"]
  /\ granted' = [granted EXCEPT ![d] = @ + (IF outbox[d].edit THEN 0 ELSE 1)]
  /\ sess' = Sessions
  /\ UNCHANGED <<dead, deferred, cancelling, told, posted, turns, again, mutated, answered, closed>>

DropDelivery(d) ==
  /\ ClientOp /\ outbox[d].status # "absent"
  /\ outbox' = [outbox EXCEPT ![d] = NoDelivery] /\ dead' = dead \cup {d}
  /\ sess' = Sessions
  /\ UNCHANGED <<deferred, cancelling, history>>

(* A TUI client holds a session between its own turns' requests.           *)
TuiReserve(s) ==
  /\ pc # "down" /\ reserves < MaxReserves /\ reserves' = reserves + 1
  /\ sess[s].status # "absent" /\ ~ReserveRefuses(Sessions[s])
  /\ sess' = [Sessions EXCEPT ![s] = Reserve(@)]
  /\ UNCHANGED <<outbox, dead, deferred, seen, offset, task, cancelling, arrived,
                 fails, cancels, crashes, ops, history>>

TuiRelease(s) ==
  /\ pc # "down" /\ HasLiveReservation(sess[s]) /\ sess[s].lease = "live"
  /\ sess' = [Sessions EXCEPT ![s] = SetStatus(@, "idle")]
  /\ UNCHANGED <<outbox, dead, deferred, seen, offset, task, cancelling, arrived, bounds, history>>

ReservationExpires(s) ==
  /\ HasLiveReservation(sess[s]) /\ sess[s].lease = "live"
  /\ sess' = [sess EXCEPT ![s].lease = "expired"]
  /\ UNCHANGED <<outbox, dead, deferred, seen, offset, task, cancelling, arrived, bounds, history>>

-----------------------------------------------------------------------------
(* The environment.                                                        *)

Arrive ==
  /\ arrived + 1 \in Events /\ arrived' = arrived + 1
  /\ UNCHANGED <<store, task, cancelling, bounds, history>>

(* A stop signal is seen at an await; a running turn, or its final send,   *)
(* records the interruption first.  A crash records nothing.               *)
Halt(signalled) ==
  /\ pc # "down" /\ crashes < MaxCrashes
  /\ sess' = IF signalled /\ pc \in {"turn", "reply"}
             THEN [sess EXCEPT ![Chat[e0]] = SetStatus(@, "interrupted")] ELSE sess
  /\ Stopped
  /\ UNCHANGED <<outbox, dead, deferred, seen, offset, arrived, bounds, history>>

(* The catalog the daemon serves from is read back as it was written.      *)
Restart ==
  /\ pc = "down" /\ crashes < MaxCrashes /\ crashes' = crashes + 1
  /\ pc' = "top"
  /\ UNCHANGED <<store, batch, picked, cur, msgid, disabled, cancelling, arrived,
                 fails, cancels, ops, reserves, history>>

Bridge ==
  \/ \E d \in Events : SendPending(d)
  \/ PendingSent
  \/ \E s \in Sess : PickQueued(s)
  \/ PickDeferred
  \/ \E first \in Events : Poll(first)
  \/ Reject \/ Discard \/ NoRoom \/ AdmitDuplicate \/ AdmitQueue \/ AdmitBegin
  \/ Defer \/ Commit \/ StartTurn
  \/ MutatingTool \/ ToolPush \/ ToolPushed
  \/ FlushFirst \/ FlushEdit \/ Flushed
  \/ \E e \in Events : SideEvent(e)
  \/ SideDefer \/ SideCommit
  \/ TurnCancelled \/ Acknowledge \/ TurnFails \/ TurnFailed \/ TurnAnswers
  \/ ReplySent \/ Settle

Clients ==
  \/ \E s \in Sess : \/ CancelSession(s) \/ RequestCancel(s) \/ CancelTimesOut(s)
                     \/ AppendByClient(s) \/ DeleteSession(s)
                     \/ TuiReserve(s) \/ TuiRelease(s)
  \/ \E d \in Events : RetryDelivery(d) \/ DropDelivery(d)

Environment ==
  \/ Arrive \/ Halt(TRUE) \/ Halt(FALSE) \/ Restart
  \/ \E s \in Sess : ReservationExpires(s)

Next == Bridge \/ Clients \/ Environment

Spec == Init /\ [][Next]_vars

(* What the daemon's scheduling justifies.  The bridge is one task that    *)
(* the runtime polls; every provider call has a timeout, and TURN_LIMIT    *)
(* ends a turn whatever the model and the tools do.  A reservation runs    *)
(* out with the clock.                                                     *)
TurnEnds == TurnCancelled \/ TurnFails \/ TurnAnswers

Fairness ==
  /\ WF_vars(Bridge) /\ SF_vars(TurnEnds)
  /\ WF_vars(Arrive)
  /\ \A s \in Sess : WF_vars(ReservationExpires(s))

FairSpec == Spec /\ Fairness

-----------------------------------------------------------------------------
(* Properties.                                                             *)

Waiting(e) ==
  LET r == sess[Chat[e]] IN InQueue(r, e) \/ r.inflight = e \/ Deferred(e)

(* An event the bridge has committed, or moved its cursor past, is held    *)
(* somewhere in the store until its turn is over, or was dropped on        *)
(* purpose: commit_event follows durable admission on every path.          *)
NoEventLost ==
  \A e \in Permitted : e \in seen \/ e < offset => Waiting(e) \/ e \in closed

(* Deduplication: a message is never queued twice in its session, nor      *)
(* queued behind its own running turn.                                     *)
NoSecondMessage ==
  \A s \in Sess : LET q == sess[s].queued IN
    /\ \A i, j \in 1..Len(q) : q[i] = q[j] => i = j
    /\ ~InQueue(sess[s], sess[s].inflight)

(* A message gets one turn, and one more for every failure or restart that *)
(* queued it again.                                                        *)
OneTurnPerMessage == \A e \in Events : turns[e] <= 1 + again[e]

(* A message whose turn ran a mutating tool, or streamed to the channel,   *)
(* never gets another turn, whether it failed or the daemon stopped.       *)
KeepsTurns == \A e \in mutated : turns'[e] = turns[e]

(* The same for one lease: when a turn that ran a mutating tool or         *)
(* streamed loses its lease, to a failure or to a restart, its message is  *)
(* not put back into the queue.                                            *)
RequeuesOnlySafe ==
  \A s \in Sess : LET r == sess[s] IN
    r.phase = "unsafe" /\ sess'[s].inflight # r.inflight /\ ~InQueue(r, r.inflight)
      => ~InQueue(sess'[s], r.inflight)

(* The channel is given a new message at most once for the creation of its *)
(* delivery and once for each retry an operator confirmed.                 *)
PostedOnce == \A d \in Events : posted[d] <= granted[d]

(* The same of what the code does: a stop of the daemon may leave a        *)
(* delivery marked as being sent, and a turn that is tried again then      *)
(* sends it once more.                                                     *)
Stops == crashes + (IF pc = "down" THEN 1 ELSE 0)

PostedOncePerStop == \A d \in Events : posted[d] <= granted[d] + Stops

(* The deliveries behave as the abstract outbox promises, to which one     *)
(* that is marked as being sent, though the bridge is not at it, was cut   *)
(* off by a stop.                                                          *)
SentNow(d) == \/ pc = "sending" /\ cur = d
              \/ pc \in {"stream", "reply"} /\ e0 = d

BoxState(d) ==
  LET status == outbox[d].status IN
  CASE status = "absent" -> "none" [] status = "pending" -> "due"
    [] status = "sending" -> IF SentNow(d) THEN "out" ELSE "cut"
    [] status = "streaming" -> "open" [] OTHER -> "doubt"

Box == [d \in Events |-> [state   |-> BoxState(d),
                          new     |-> IF outbox[d].edit THEN 0 ELSE 1,
                          posted  |-> posted[d],
                          granted |-> granted[d]]]

Promise == INSTANCE Outbox WITH Deliveries <- Events, box <- Box, stops <- Stops

OutboxPromise == Promise!Spec

(* A session queue stays within its limit.                                 *)
QueueBound == \A s \in Sess : Len(sess[s].queued) <= QueueLimit

(* A session that holds a turn lease is the one whose turn is running.     *)
InTurn(s) == pc \in Turning /\ sess[s].inflight = e0 /\ Chat[e0] = s

LeaseHasTurn == \A s \in Sess :
  sess[s].inflight # NoEvent /\ pc # "down" => InTurn(s)

(* A lease comes to be without its turn in two ways only: the daemon stops *)
(* during the turn, or the turn is begun though its event is deferred,     *)
(* because scheduled tasks take up the room in the map.                    *)
LeaseLost(s) == sess[s].inflight # NoEvent /\ ~InTurn(s)

LeasesLostTwoWays ==
  [][\A s \in Sess : LeaseLost(s)' /\ ~LeaseLost(s) =>
       pc' = "down" \/ (ScheduledLimit > 0 /\ NoRoom)]_vars

(* What the promise of the outbox rests on: the bridge knows the state of  *)
(* the delivery it is working on, an operator's drop aside, and only a     *)
(* session with a turn has a stream to leave in doubt.                     *)
SenderKnowsDelivery ==
  /\ \A d \in Events : /\ outbox[d].status = "absent" => ~outbox[d].edit
                       /\ outbox[d].status = "streaming" => outbox[d].edit
  /\ \A s \in Sess : sess[s].inflight = NoEvent => sess[s].stream = NoEvent
  /\ pc = "sending" => outbox[cur].status \in {"sending", "absent"}
  /\ pc \in {"stream", "reply"} => outbox[e0].status \in {"sending", "absent"}
  /\ pc \in Turning \ {"begun", "stream"} /\ msgid /\ ~disabled =>
       outbox[e0].status \in {"streaming", "absent"}

(* The text of a turn that completed at its first attempt reaches the      *)
(* channel, or is in the outbox to be sent, or an operator dropped it.     *)
(* After a failure the notice of it may be in its place.                   *)
AnswerNotLost == \A e \in answered :
  \/ again[e] > 0 \/ e \in told \cup dead
  \/ outbox[e].status # "absent" /\ outbox[e].text = "answer"

(* As long as the daemon has not been stopped and no lease has lost its    *)
(* turn, a message gets one turn, and one more for every failure that      *)
(* queued it again; its answer is stored or delivered; and no queue holds  *)
(* a message twice.  After a restart the provider may repeat an event that *)
(* was taken into the session but not committed, and a lease without its   *)
(* turn may be of an event that is still deferred: one that comes during   *)
(* an approval wait is not compared with them, and is queued again.        *)
Undisturbed == Stops = 0 /\ LeaseHasTurn

HandledOnce ==
  Undisturbed => OneTurnPerMessage /\ AnswerNotLost /\ NoSecondMessage

(* A turn that ran a mutating tool, or streamed, is over: neither a failure *)
(* nor a restart puts its message back into the queue, and as long as the   *)
(* daemon has not been stopped and no lease has lost its turn, its message  *)
(* never has another turn.                                                  *)
UnsafeNeverReplayed ==
  [][RequeuesOnlySafe /\ (Undisturbed => KeepsTurns)]_vars

(* The message of a cancelled turn does not get back into the queue.       *)
CancelledNotRequeued ==
  \A s \in Sess : LET r == sess[s] IN
    r.status = "cancelled" /\ r.inflight # NoEvent => ~InQueue(sess'[s], r.inflight)

CancelIsFinal == [][CancelledNotRequeued]_vars

(* A client that waits for a cancellation is told of success only when the *)
(* session holds no turn any more.                                         *)
CancelMeansStopped ==
  [][\A s \in Sess :
       asked[s] = "waiting" /\ asked'[s] = "no" /\ token'[s] # "requested" /\ pc' # "down"
         => sess'[s].inflight = NoEvent]_vars

(* Every message the channel policy allows is in the end answered,         *)
(* dropped by a cancellation or reported as failed.                        *)
EventuallyClosed == \A e \in Permitted : (arrived >= e) ~> (e \in closed)
=============================================================================
