--------------------------- MODULE ChannelOnce_proofs ---------------------------
(***************************************************************************)
(* Theorems about the channel bridge, for any number of sessions, events   *)
(* and faults: until the daemon stops or a lease loses its turn, a message *)
(* is handled once and a turn with effects is never repeated; a delivery   *)
(* is posted once, and once more at most for every stop of the daemon; a   *)
(* cancellation is undone by the failure path of the turn alone.           *)
(***************************************************************************)
EXTENDS ChannelBridge_proofs

-----------------------------------------------------------------------------
(* Sequences that hold nothing twice.                                      *)

Distinct(q) == \A i, j \in 1..Len(q) : q[i] = q[j] => i = j

LEMMA WithoutDistinct ==
  ASSUME NEW q \in Seq(Events), NEW e, Distinct(q)
  PROVE  Distinct(Without(q, e)) /\ ~Holds(Without(q, e), e)
<1>1. CASE Holds(q, e)
  <2> DEFINE w == Without(q, e)
  <2>0. Len(q) \in Nat
    BY LenProperties
  <2>1. PICK k \in 1..Len(q) :
          /\ q[k] = e /\ Len(w) = Len(q) - 1
          /\ \A i \in 1..(k - 1) : w[i] = q[i]
          /\ \A i \in k..(Len(q) - 1) : w[i] = q[i + 1]
    BY <1>1, WithoutShape
  <2> HIDE DEF w
  <2> DEFINE place(i) == IF i < k THEN i ELSE i + 1
  <2>2. \A i \in 1..Len(w) : /\ place(i) \in 1..Len(q) /\ place(i) # k
                             /\ w[i] = q[place(i)]
    BY <2>0, <2>1
  <2>3. \A i, j \in 1..Len(w) : place(i) = place(j) => i = j
    BY <2>0, <2>1
  <2> HIDE DEF place
  <2>4. Distinct(w)
    BY <2>2, <2>3 DEF Distinct
  <2>5. ~Holds(w, e)
    BY <2>1, <2>2 DEF Distinct, Holds
  <2> QED BY <2>4, <2>5 DEF w
<1>2. CASE ~Holds(q, e)
  BY <1>2 DEF Without, Holds
<1> QED BY <1>1, <1>2

LEMMA AppendDistinct ==
  ASSUME NEW q \in Seq(Events), NEW e \in Events, Distinct(q), ~Holds(q, e)
  PROVE  Distinct(Append(q, e))
<1>1. /\ Len(q) \in Nat /\ Len(Append(q, e)) = Len(q) + 1
      /\ \A i \in 1..Len(q) : Append(q, e)[i] = q[i]
      /\ Append(q, e)[Len(q) + 1] = e
  BY AppendProperties, LenProperties
<1>2. \A i \in 1..Len(Append(q, e)) : i \in 1..Len(q) \/ i = Len(q) + 1
  BY <1>1
<1> QED BY <1>1, <1>2 DEF Distinct, Holds

-----------------------------------------------------------------------------
(* The queue of a session, and what the operations of the store do to it.  *)

(* The queue of session s holds messages of its chat, none of them twice,  *)
(* and not the one whose turn is running.                                  *)
Sound(r, s) ==
  /\ Distinct(r.queued) /\ ~InQueue(r, r.inflight)
  /\ \A e \in Events : InQueue(r, e) => Chat[e] = s

(* r becomes r2 without taking a message in; the record of a turn that     *)
(* goes on keeps its stream, and stays unsafe.                             *)
Eases(r, r2) ==
  /\ r2.queued = r.queued \/ r2.queued = <<>>
  /\ r2.inflight = r.inflight \/ r2.inflight = NoEvent
  /\ GoneOwnsNothing(r2)
  /\ r2.inflight # NoEvent =>
       /\ r.phase = "unsafe" => r2.phase = "unsafe"
       /\ r.stream # NoEvent => r2.stream = r.stream

LEMMA EasingComposes ==
  ASSUME NEW r, NEW r1, NEW r2, Eases(r, r1), Eases(r1, r2)
  PROVE  Eases(r, r2)
  BY DEF Eases

LEMMA EasingOperations ==
  ASSUME NEW r \in Session, GoneOwnsNothing(r)
  PROVE  /\ Eases(r, r) /\ Eases(r, NoSession) /\ Eases(r, Ensure(r))
         /\ Eases(r, Recovered(r)) /\ Eases(r, Push(r)) /\ Eases(r, AppendMessage(r))
         /\ Eases(r, Reserve(r)) /\ Eases(r, Cancel(r)) /\ Eases(r, ReplySession(r))
         /\ Eases(r, [r EXCEPT !.phase = "unsafe"])
         /\ Eases(r, [r EXCEPT !.lease = "expired"])
         /\ \A status \in {"cancelled", "interrupted"} : Eases(r, Clear(r, status))
         /\ \A status \in {"idle", "working", "interrupted"} : Eases(r, SetStatus(r, status))
         /\ \A e \in Events : r.stream = NoEvent => Eases(r, StartStream(r, e))
<1> USE DEF Eases, GoneOwnsNothing
<1>1. Eases(r, r) /\ Eases(r, NoSession) /\ Eases(r, Recovered(r))
  BY DEF NoSession, Recovered, Session
<1>2. Eases(r, Ensure(r))
  BY DEF NoSession, Ensure, Session
<1>3. Eases(r, Push(r)) /\ Eases(r, AppendMessage(r)) /\ Eases(r, Reserve(r))
  BY DEF Push, AppendMessage, Reserve, Session
<1>4. Eases(r, Cancel(r))
  BY DEF Cancel, Clear, SetStatus, Session
<1>5. Eases(r, ReplySession(r))
  BY DEF ReplySession, Session
<1>6. Eases(r, [r EXCEPT !.phase = "unsafe"]) /\ Eases(r, [r EXCEPT !.lease = "expired"])
  BY DEF Session
<1>7. \A status \in {"cancelled", "interrupted"} : Eases(r, Clear(r, status))
  BY DEF Clear, Session
<1>8. \A status \in {"idle", "working", "interrupted"} : Eases(r, SetStatus(r, status))
  BY DEF SetStatus, Session
<1>9. \A e \in Events : r.stream = NoEvent => Eases(r, StartStream(r, e))
  BY DEF StartStream, Session
<1> HIDE DEF Eases, GoneOwnsNothing
<1> QED BY <1>1, <1>2, <1>3, <1>4, <1>5, <1>6, <1>7, <1>8, <1>9

LEMMA NothingInQueue ==
  ASSUME NEW r \in Session
  PROVE  /\ ~InQueue(r, NoEvent)
         /\ r.queued = <<>> => \A e : ~InQueue(r, e)
<1>1. \A i \in 1..Len(r.queued) : r.queued[i] \in Events
  BY ElementOfSeq DEF Session
<1> QED BY <1>1, Constants, EmptyOwnsNothing DEF InQueue

LEMMA EasingKeepsSound ==
  ASSUME NEW r \in Session, NEW r2 \in Session, NEW s, Sound(r, s), Eases(r, r2)
  PROVE  Sound(r2, s) /\ \A e : InQueue(r2, e) => InQueue(r, e)
<1>1. CASE r2.queued = <<>>
  <2>1. \A e : ~InQueue(r2, e)
    BY <1>1, EmptyOwnsNothing
  <2>2. Distinct(r2.queued)
    BY <1>1, EmptySeq DEF Distinct
  <2> QED BY <2>1, <2>2 DEF Sound
<1>2. CASE r2.queued = r.queued
  <2>1. \A e : InQueue(r2, e) <=> InQueue(r, e)
    BY <1>2 DEF InQueue
  <2>2. ~InQueue(r2, r2.inflight)
    BY <2>1, NothingInQueue DEF Eases, Sound
  <2> QED BY <1>2, <2>1, <2>2 DEF Sound
<1> QED BY <1>1, <1>2 DEF Eases

LEMMA QueueingKeepsSound ==
  ASSUME NEW r \in Session, NEW s, NEW e \in Events,
         Sound(r, s), Chat[e] = s, r.inflight # e
  PROVE  /\ Sound(Queue(r, e), s)
         /\ \A x : InQueue(Queue(r, e), x) <=> InQueue(r, x) \/ x = e
<1> DEFINE r2 == Queue(r, e)
<1>1. CASE InQueue(r, e)
  BY <1>1 DEF Queue
<1>2. CASE ~InQueue(r, e)
  <2>1. /\ r2.queued = Append(r.queued, e) /\ r2.inflight = r.inflight
        /\ r.queued \in Seq(Events) /\ ~Holds(r.queued, e)
    BY <1>2 DEF Queue, Session, InQueue, Holds
  <2> HIDE DEF r2
  <2>2. \A x : InQueue(r2, x) <=> InQueue(r, x) \/ x = e
    BY <2>1, AppendKeeps DEF InQueue, Holds
  <2>3. Distinct(r2.queued)
    BY <2>1, AppendDistinct DEF Sound
  <2>4. Sound(r2, s)
    BY <2>1, <2>2, <2>3 DEF Sound
  <2> QED BY <2>2, <2>4 DEF r2
<1> QED BY <1>1, <1>2

LEMMA BeginningKeepsSound ==
  ASSUME NEW r \in Session, NEW s, NEW e \in Events, Sound(r, s)
  PROVE  /\ Sound(Begin(r, e), s)
         /\ \A x : InQueue(Begin(r, e), x) => InQueue(r, x) /\ x # e
<1> DEFINE r2 == Begin(r, e)
           q == r.queued
<1>1. r2.queued = Without(q, e) /\ r2.inflight = e /\ q \in Seq(Events) /\ Distinct(q)
  BY DEF Begin, Session, Sound
<1> HIDE DEF r2
<1>2. Distinct(Without(q, e)) /\ ~Holds(Without(q, e), e)
  BY <1>1, WithoutDistinct
<1>3. \A x : Holds(Without(q, e), x) => Holds(q, x)
  BY <1>1, WithoutKeeps
<1>4. \A x : InQueue(r2, x) => InQueue(r, x) /\ x # e
  BY <1>1, <1>2, <1>3 DEF InQueue, Holds
<1>5. Sound(r2, s)
  BY <1>1, <1>2, <1>4 DEF Sound
<1> QED BY <1>4, <1>5 DEF r2

-----------------------------------------------------------------------------
(* How the steps of the daemon change the sessions.                        *)

AllEase == \A s \in Sess : Eases(sess[s], sess'[s])

(* Session c takes in the message e.                                       *)
TakesIn(c, e) ==
  \E r \in Session :
    /\ Eases(sess[c], r) /\ r.status # "absent"
    /\ sess' = [sess EXCEPT ![c] = Queue(r, e)]

(* Session c begins the turn of the message e.                             *)
Begins(c, e) ==
  \E r \in Session :
    /\ Eases(sess[c], r) /\ r.status # "absent"
    /\ sess' = [sess EXCEPT ![c] = Begin(r, e)]

LEMMA OneEases ==
  ASSUME TypeOK, Gone, NEW c \in Sess, NEW r, Eases(sess[c], r),
         sess' = [sess EXCEPT ![c] = r]
  PROVE  AllEase
<1> SUFFICES ASSUME NEW s \in Sess PROVE Eases(sess[s], sess'[s])
  BY DEF AllEase
<1>1. sess \in [Sess -> Session]
  BY DEF TypeOK
<1>2. CASE s = c
  BY <1>1, <1>2
<1>3. CASE s # c
  BY <1>1, <1>3, EasingOperations DEF Gone
<1> QED BY <1>2, <1>3

LEMMA SameEases ==
  ASSUME TypeOK, Gone, UNCHANGED sess
  PROVE  AllEase
  BY EasingOperations DEF AllEase, Gone, TypeOK

(* The steps of the bridge that change no session but that of the event in *)
(* hand, and take no message in.                                           *)
LEMMA TurnStepsEase ==
  ASSUME TypeOK, Gone,
         \/ MutatingTool \/ ToolPush \/ ToolPushed \/ FlushFirst \/ TurnCancelled
         \/ TurnAnswers \/ Settle
  PROVE  AllEase
<1>1. batch # <<>>
  BY DEF TypeOK, MutatingTool, ToolPush, ToolPushed, FlushFirst, TurnCancelled, TurnAnswers, Settle
<1>2. /\ Chat[e0] \in Sess /\ e0 \in Events /\ Here \in Session /\ Here = sess[Chat[e0]]
      /\ GoneOwnsNothing(Here)
  BY <1>1, HeadEvent DEF Here, Gone
<1> DEFINE turned == {[Here EXCEPT !.phase = "unsafe"], Push(Here), SetStatus(Here, "working"),
                      SetStatus(Here, "idle"), Clear(Here, "cancelled"), ReplySession(Here), Here}
<1>3. \A r \in turned : Eases(Here, r)
  <2>1. /\ Eases(Here, Here) /\ Eases(Here, [Here EXCEPT !.phase = "unsafe"])
        /\ Eases(Here, Push(Here)) /\ Eases(Here, ReplySession(Here))
    BY <1>2, EasingOperations
  <2>2. \A status \in {"idle", "working", "interrupted"} : Eases(Here, SetStatus(Here, status))
    BY <1>2, EasingOperations
  <2>3. \A status \in {"cancelled", "interrupted"} : Eases(Here, Clear(Here, status))
    BY <1>2, EasingOperations
  <2> QED BY <2>1, <2>2, <2>3
<1>4. \/ sess' = sess
      \/ \E r \in turned : sess' = [sess EXCEPT ![Chat[e0]] = r]
      \/ Here.stream = NoEvent /\ sess' = [sess EXCEPT ![Chat[e0]] = StartStream(Here, e0)]
  <2>1. CASE MutatingTool \/ ToolPush \/ ToolPushed \/ TurnCancelled \/ TurnAnswers
    BY <1>2, <2>1 DEF MutatingTool, ToolPush, ToolPushed, TurnCancelled, TurnAnswers
  <2>2. CASE FlushFirst
    BY <2>2 DEF FlushFirst, StreamRefuses
  <2>3. CASE Settle
    BY <1>2, <2>3 DEF Settle
  <2> QED BY <2>1, <2>2, <2>3
<1>5. Here.stream = NoEvent => Eases(Here, StartStream(Here, e0))
  BY <1>2, EasingOperations
<1> HIDE DEF turned
<1> QED BY <1>2, <1>3, <1>4, <1>5, OneEases, SameEases

LEMMA ClientsEase ==
  ASSUME TypeOK, Gone, Clients
  PROVE  AllEase
<1>0. sess \in [Sess -> Session]
  BY DEF TypeOK
<1>1. \A s \in Sess : /\ Sessions[s] \in Session /\ Eases(sess[s], Sessions[s])
                      /\ GoneOwnsNothing(Sessions[s])
  <2> TAKE s \in Sess
  <2> DEFINE r == sess[s]
  <2>1. Sessions[s] = Recovered(r) /\ r \in Session /\ GoneOwnsNothing(r)
    BY <1>0 DEF Sessions, Gone
  <2>2. Recovered(r) \in Session
    BY <2>1, RecoveredType
  <2>3. Eases(r, Recovered(r))
    BY <2>1, EasingOperations
  <2> QED BY <2>1, <2>2, <2>3 DEF Eases
<1>2. \/ sess' = sess \/ sess' = Sessions
      \/ \E s \in Sess : sess' = [sess EXCEPT ![s] = Cancel(sess[s])]
      \/ \E s \in Sess :
           \E r \in {AppendMessage(Sessions[s]), NoSession, Reserve(Sessions[s]),
                     SetStatus(Sessions[s], "idle")} :
             sess' = [Sessions EXCEPT ![s] = r]
  BY DEF Clients, CancelSession, RequestCancel, CancelTimesOut, AppendByClient,
         DeleteSession, TuiReserve, TuiRelease, RetryDelivery, DropDelivery, ClientOp,
         store, task, cancelling, bounds, history
<1>3. ASSUME NEW s \in Sess,
             NEW r \in {AppendMessage(Sessions[s]), NoSession, Reserve(Sessions[s]),
                        SetStatus(Sessions[s], "idle")},
             sess' = [Sessions EXCEPT ![s] = r]
      PROVE  AllEase
  <2>1. Eases(Sessions[s], r)
    BY <1>1, EasingOperations
  <2>2. Eases(sess[s], r)
    BY <1>1, <2>1, EasingComposes
  <2>3. \A t \in Sess : sess'[t] = IF t = s THEN r ELSE Sessions[t]
    BY <1>3 DEF Sessions
  <2> QED BY <1>1, <2>2, <2>3 DEF AllEase
<1>4. ASSUME NEW s \in Sess, sess' = [sess EXCEPT ![s] = Cancel(sess[s])]
      PROVE  AllEase
  BY <1>0, <1>4, EasingOperations, OneEases DEF Gone
<1>5. CASE sess' = Sessions
  BY <1>1, <1>5 DEF AllEase
<1> QED BY <1>2, <1>3, <1>4, <1>5, SameEases

(* What the environment does but for opening the store again.              *)
LEMMA EnvironmentEases ==
  ASSUME TypeOK, Gone,
         Arrive \/ Halt(TRUE) \/ Halt(FALSE) \/ \E s \in Sess : ReservationExpires(s)
  PROVE  AllEase
<1>0. sess \in [Sess -> Session]
  BY DEF TypeOK
<1>1. CASE Arrive
  BY <1>1, SameEases DEF Arrive, store
<1>2. ASSUME NEW s \in Sess, ReservationExpires(s)
      PROVE  AllEase
  <2> DEFINE r == [sess[s] EXCEPT !.lease = "expired"]
  <2>1. sess' = [sess EXCEPT ![s] = r] /\ Eases(sess[s], r)
    BY <1>0, <1>2, EasingOperations DEF ReservationExpires, Gone
  <2> HIDE DEF r
  <2> QED BY <2>1, OneEases
<1>3. ASSUME NEW signalled \in BOOLEAN, Halt(signalled)
      PROVE  AllEase
  <2>1. CASE sess' # sess
    <3>1. pc \in {"turn", "reply"} /\ sess' = [sess EXCEPT ![Chat[e0]] = SetStatus(Here, "interrupted")]
      BY <1>3, <2>1 DEF Halt, Here
    <3>2. batch # <<>>
      BY <3>1 DEF TypeOK
    <3>3. Chat[e0] \in Sess /\ Here \in Session /\ Here = sess[Chat[e0]]
      BY <3>2, HeadEvent DEF Here
    <3>4. Eases(Here, SetStatus(Here, "interrupted"))
      BY <3>3, EasingOperations DEF Gone
    <3> QED BY <3>1, <3>3, <3>4, OneEases
  <2> QED BY <2>1, SameEases
<1> QED BY <1>1, <1>2, <1>3

(* The steps of the bridge that leave every session alone.                 *)
LEMMA StillStepsEase ==
  ASSUME TypeOK, Gone,
         \/ \E d \in Events : SendPending(d)
         \/ PendingSent
         \/ \E s \in Sess : PickQueued(s)
         \/ PickDeferred
         \/ \E first \in Events : Poll(first)
         \/ Reject \/ Discard \/ AdmitDuplicate \/ Defer \/ Commit \/ StartTurn
         \/ FlushEdit \/ Flushed \/ SideDefer \/ SideCommit \/ Acknowledge \/ TurnFails
         \/ ReplySent \/ UNCHANGED vars
  PROVE  AllEase
<1>1. UNCHANGED sess
  BY DEF SendPending, PendingSent, PickQueued, PickDeferred, Poll, Reject, Discard,
         AdmitDuplicate, Defer, Commit, StartTurn, FlushEdit, Flushed, SideDefer, SideCommit,
         Acknowledge, TurnFails, ReplySent, vars, store
<1> QED BY <1>1, SameEases

(* The steps of the bridge that may take a message in, or begin its turn.  *)
LEMMA NoRoomBegins ==
  ASSUME TypeOK, Gone, NoRoom
  PROVE  \/ UNCHANGED <<sess, deferred>>
         \/ e0 \in Events /\ Begins(Chat[e0], e0)
<1> DEFINE r == Ensure(NoSession)
<1>1. batch # <<>> /\ Head(batch) = e0
  BY DEF TypeOK, NoRoom, e0
<1>2. /\ Here \in Session /\ Here = sess[Chat[e0]] /\ e0 \in Events
      /\ GoneOwnsNothing(Here) /\ Here.status = "absent"
  BY <1>1, HeadEvent DEF Here, Gone, NoRoom
<1>3. /\ r \in Session /\ r.status # "absent" /\ r.queued = <<>> /\ r.inflight = NoEvent
  <2>1. r.status # "absent" /\ r.queued = <<>> /\ r.inflight = NoEvent
    BY DEF Ensure, NoSession
  <2> QED BY <2>1, EnsureType, NoSessionType
<1>4. \/ UNCHANGED <<sess, deferred>>
      \/ sess' = [sess EXCEPT ![Chat[e0]] = Begin(r, e0)]
  BY <1>1 DEF NoRoom, BeginTurn
<1> HIDE DEF r
<1>5. Eases(Here, r)
  BY <1>3 DEF Eases, GoneOwnsNothing
<1> QED BY <1>2, <1>3, <1>4, <1>5 DEF Begins

(* Where every lease has its turn, the room was not taken by the sessions  *)
(* of scheduled tasks: no turn was begun for an event that is deferred.    *)
LEMMA NoRoomStill ==
  ASSUME TypeOK, Gone, NoRoom, LeaseHasTurn'
  PROVE  UNCHANGED <<sess, deferred>> /\ AllEase
<1>1. batch # <<>> /\ Head(batch) = e0 /\ pc' = "defer"
  BY DEF TypeOK, NoRoom, Goto, e0
<1>2. e0 \in Events /\ Chat[e0] \in Sess /\ sess \in [Sess -> Session]
  BY <1>1, HeadEvent DEF TypeOK
<1>3. \/ UNCHANGED <<sess, deferred>>
      \/ sess' = [sess EXCEPT ![Chat[e0]] = Begin(Ensure(NoSession), e0)]
  BY <1>1 DEF NoRoom, BeginTurn
<1>4. ASSUME sess' = [sess EXCEPT ![Chat[e0]] = Begin(Ensure(NoSession), e0)]
      PROVE  FALSE
  <2>1. sess'[Chat[e0]].inflight = e0
    BY <1>2, <1>4 DEF Begin, Ensure, NoSession
  <2>2. e0 # NoEvent
    BY <1>2, Constants
  <2> QED BY <1>1, <1>2, <2>1, <2>2 DEF LeaseHasTurn, InTurn, Turning
<1> QED BY <1>3, <1>4, SameEases

LEMMA AdmitQueueTakes ==
  ASSUME TypeOK, Gone, AdmitQueue
  PROVE  \/ AllEase /\ pc' = "defer"
         \/ TakesIn(Chat[e0], e0) /\ pc' = "commit"
<1>1. batch # <<>> /\ Head(batch) = e0
  BY DEF TypeOK, AdmitQueue, Admitting, e0
<1>2. Here \in Session /\ Here = sess[Chat[e0]] /\ Eases(Here, Here)
  BY <1>1, HeadEvent, EasingOperations DEF Here, Gone
<1>3. Here.status # "absent"
  BY <1>1, <1>2 DEF AdmitQueue
<1> QED BY <1>1, <1>2, <1>3, SameEases DEF AdmitQueue, TakesIn, Goto

LEMMA AdmitBeginBegins ==
  ASSUME TypeOK, Gone, AdmitBegin
  PROVE  \/ AllEase /\ BreakBatch /\ UNCHANGED <<deferred, turns>>
         \/ /\ Begins(Chat[e0], e0) /\ Goto("begun")
            /\ deferred' = IF e0 = picked THEN Without(deferred, e0) ELSE deferred
            /\ turns' = [turns EXCEPT ![e0] = @ + 1]
<1>1. batch # <<>> /\ Head(batch) = e0
  BY DEF TypeOK, AdmitBegin, Admitting, e0
<1>2. /\ Here \in Session /\ Here = sess[Chat[e0]] /\ Chat[e0] \in Sess
      /\ GoneOwnsNothing(Here)
  BY <1>1, HeadEvent DEF Here, Gone
<1> DEFINE r == Ensure(Here)
<1>3. r \in Session /\ Eases(Here, r) /\ r.status # "absent"
  BY <1>2, EnsureType, EnsureOwns, EasingOperations
<1>4. \/ /\ sess' = [sess EXCEPT ![Chat[e0]] = r]
         /\ BreakBatch /\ UNCHANGED <<deferred, turns>>
      \/ /\ sess' = [sess EXCEPT ![Chat[e0]] = Begin(r, e0)] /\ Goto("begun")
         /\ deferred' = IF e0 = picked THEN Without(deferred, e0) ELSE deferred
         /\ turns' = [turns EXCEPT ![e0] = @ + 1]
  BY <1>1, <1>2 DEF AdmitBegin, BeginTurn
<1> HIDE DEF r
<1> QED BY <1>2, <1>3, <1>4, OneEases DEF Begins

LEMMA SideEventTakes ==
  ASSUME TypeOK, Gone, NEW e \in Events, SideEvent(e)
  PROVE  \/ AllEase /\ pc' = "sidecommit" /\ (Known(e) \/ e \notin Permitted)
         \/ AllEase /\ pc' = "sidedefer" /\ ~Known(e) /\ ~InQueue(sess[Chat[e]], e)
         \/ TakesIn(Chat[e], e) /\ pc' = "sidecommit" /\ ~Known(e)
<1> DEFINE old == sess[Chat[e]]
           r == Ensure(old)
<1>1. Chat[e] \in Sess /\ old \in Session /\ GoneOwnsNothing(old)
  BY Constants DEF TypeOK, Gone
<1>2. r \in Session /\ Eases(old, r) /\ r.status # "absent" /\ r.queued = old.queued
  BY <1>1, EnsureType, EnsureOwns, EasingOperations
<1>3. old.status = "absent" => ~InQueue(old, e)
  BY <1>1, NothingInQueue DEF GoneOwnsNothing
<1>4. QueueRefuses(r, e) => ~InQueue(old, e)
  BY <1>2 DEF QueueRefuses, InQueue
<1>5. \/ UNCHANGED sess /\ pc' = "sidecommit" /\ (Known(e) \/ e \notin Permitted)
      \/ UNCHANGED sess /\ pc' = "sidedefer" /\ ~Known(e) /\ old.status = "absent"
      \/ /\ sess' = [sess EXCEPT ![Chat[e]] = r] /\ pc' = "sidedefer" /\ ~Known(e)
         /\ QueueRefuses(r, e)
      \/ sess' = [sess EXCEPT ![Chat[e]] = Queue(r, e)] /\ pc' = "sidecommit" /\ ~Known(e)
  BY DEF SideEvent
<1> HIDE DEF old, r
<1>6. ASSUME sess' = [sess EXCEPT ![Chat[e]] = r] PROVE AllEase
  BY <1>1, <1>2, <1>6, OneEases DEF old
<1>7. ASSUME sess' = [sess EXCEPT ![Chat[e]] = Queue(r, e)] PROVE TakesIn(Chat[e], e)
  BY <1>2, <1>7 DEF TakesIn, old
<1> QED BY <1>3, <1>4, <1>5, <1>6, <1>7, SameEases DEF old

LEMMA TurnFailedTakes ==
  ASSUME TypeOK, Gone, TurnFailed
  PROVE  \/ AllEase /\ UNCHANGED again
         \/ /\ \E r \in Session : /\ Eases(Here, r) /\ r.status # "absent" /\ r.inflight = NoEvent
                                  /\ sess' = [sess EXCEPT ![Chat[e0]] = Queue(r, e0)]
            /\ Here.phase # "unsafe" /\ again' = [again EXCEPT ![e0] = @ + 1]
<1>1. batch # <<>>
  BY DEF TypeOK, TurnFailed
<1>2. /\ Here \in Session /\ Here = sess[Chat[e0]] /\ Chat[e0] \in Sess /\ e0 \in Events
      /\ GoneOwnsNothing(Here)
  BY <1>1, HeadEvent DEF Here, Gone
<1> DEFINE r == IF ReplyRefuses(outbox, e0) THEN Clear(Here, "interrupted")
                                            ELSE ReplySession(Here)
           requeue == Retries(Here, r, e0)
<1>3. r \in Session /\ Eases(Here, r) /\ r.status # "absent" /\ r.inflight = NoEvent
  BY <1>2, EndOwns, EasingOperations
<1>4. /\ sess' = [sess EXCEPT ![Chat[e0]] = IF requeue THEN Queue(r, e0) ELSE r]
      /\ again' = [again EXCEPT ![e0] = IF requeue THEN @ + 1 ELSE @]
  BY DEF TurnFailed
<1>5. requeue => Here.phase # "unsafe"
  BY DEF Retries
<1>6. again \in [Events -> Nat]
  BY DEF TypeOK
<1> HIDE DEF r, requeue
<1>7. CASE requeue
  BY <1>2, <1>3, <1>4, <1>5, <1>7
<1>8. CASE ~requeue
  <2>1. sess' = [sess EXCEPT ![Chat[e0]] = r] /\ again' = again
    BY <1>2, <1>4, <1>6, <1>8
  <2> QED BY <1>2, <1>3, <2>1, OneEases
<1> QED BY <1>7, <1>8

-----------------------------------------------------------------------------
(* A message has one turn.  The invariant behind it, of a daemon that has  *)
(* not been restarted: an event that is queued, or that the bridge does    *)
(* not know yet, has a turn left; a queued event is known, or about to be; *)
(* and the one whose turn is running has none left.                        *)

QueuesSound == \A s \in Sess : Sound(sess[s], s)

Queued(e) == InQueue(sess[Chat[e]], e)

HasTurnLeft(e) == turns[e] <= again[e]

AboutToBeKnown(e) == (pc = "commit" /\ e = e0) \/ (pc = "sidecommit" /\ e = cur)

Accounts ==
  /\ Distinct(deferred)
  /\ \A e \in Events :
       /\ again[e] <= turns[e] /\ turns[e] <= 1 + again[e]
       /\ pc # "down" /\ Queued(e) => HasTurnLeft(e) /\ (Known(e) \/ AboutToBeKnown(e))
       /\ pc # "down" /\ ~Known(e) => HasTurnLeft(e) \/ (pc = "begun" /\ e = e0)

AtHand ==
  /\ pc \notin Resting /\ picked # NoEvent => e0 = picked
  /\ pc \in {"admit", "begun"} /\ e0 = picked => Known(e0)
  /\ pc = "admit" /\ e0 = picked => HasTurnLeft(e0)
  /\ pc \in {"defer", "retain"} => ~Queued(e0) /\ HasTurnLeft(e0)
  /\ pc \in Turning => ~HasTurnLeft(e0)
  /\ pc \in Turning \ {"begun"} => Known(e0)
  /\ pc = "sidedefer" => ~Known(cur)
  /\ pc \in {"sidedefer", "sideretain"} => ~Queued(cur)

Once == QueuesSound /\ Accounts /\ AtHand

LEMMA EasedQueues ==
  ASSUME TypeOK, TypeOK', QueuesSound, AllEase
  PROVE  QueuesSound' /\ \A e \in Events : Queued(e)' => Queued(e)
<1>1. \A s \in Sess : /\ Sound(sess'[s], s)
                      /\ \A e : InQueue(sess'[s], e) => InQueue(sess[s], e)
  BY EasingKeepsSound DEF TypeOK, QueuesSound, AllEase
<1> QED BY <1>1, Constants DEF QueuesSound, Queued

LEMMA TakenQueues ==
  ASSUME TypeOK, QueuesSound, NEW e \in Events, NEW r \in Session,
         Eases(sess[Chat[e]], r), r.inflight # e,
         sess' = [sess EXCEPT ![Chat[e]] = Queue(r, e)]
  PROVE  QueuesSound' /\ \A x \in Events : Queued(x)' => Queued(x) \/ x = e
<1> DEFINE c == Chat[e]
<1>1. c \in Sess /\ sess \in [Sess -> Session] /\ sess[c] \in Session /\ Sound(sess[c], c)
  BY Constants DEF TypeOK, QueuesSound
<1>2. Sound(r, c) /\ \A x : InQueue(r, x) => InQueue(sess[c], x)
  BY <1>1, EasingKeepsSound
<1>3. /\ Sound(Queue(r, e), c)
      /\ \A x : InQueue(Queue(r, e), x) <=> InQueue(r, x) \/ x = e
  BY <1>2, QueueingKeepsSound
<1>4. \A s \in Sess : sess'[s] = IF s = c THEN Queue(r, e) ELSE sess[s]
  BY <1>1
<1> HIDE DEF c
<1>5. QueuesSound'
  BY <1>3, <1>4 DEF QueuesSound
<1>6. ASSUME NEW x \in Events, Queued(x)' PROVE Queued(x) \/ x = e
  BY <1>2, <1>3, <1>4, <1>6, Constants DEF Queued
<1> QED BY <1>5, <1>6

LEMMA TakenIn ==
  ASSUME TypeOK, QueuesSound, NEW e \in Events, TakesIn(Chat[e], e),
         sess[Chat[e]].inflight # e
  PROVE  QueuesSound' /\ \A x \in Events : Queued(x)' => Queued(x) \/ x = e
<1>1. PICK r \in Session :
        Eases(sess[Chat[e]], r) /\ sess' = [sess EXCEPT ![Chat[e]] = Queue(r, e)]
  BY DEF TakesIn
<1>2. r.inflight # e
  BY <1>1, Constants DEF Eases
<1> QED BY <1>1, <1>2, TakenQueues

LEMMA BegunQueues ==
  ASSUME TypeOK, QueuesSound, NEW e \in Events, Begins(Chat[e], e)
  PROVE  QueuesSound' /\ \A x \in Events : Queued(x)' => Queued(x) /\ x # e
<1> DEFINE c == Chat[e]
<1>1. c \in Sess /\ sess \in [Sess -> Session] /\ sess[c] \in Session /\ Sound(sess[c], c)
  BY Constants DEF TypeOK, QueuesSound
<1>2. PICK r \in Session : Eases(sess[c], r) /\ sess' = [sess EXCEPT ![c] = Begin(r, e)]
  BY DEF Begins
<1>3. Sound(r, c) /\ \A x : InQueue(r, x) => InQueue(sess[c], x)
  BY <1>1, <1>2, EasingKeepsSound
<1>4. /\ Sound(Begin(r, e), c)
      /\ \A x : InQueue(Begin(r, e), x) => InQueue(r, x) /\ x # e
  BY <1>3, BeginningKeepsSound
<1>5. \A s \in Sess : sess'[s] = IF s = c THEN Begin(r, e) ELSE sess[s]
  BY <1>1, <1>2
<1>7. Chat[e] = c
  OBVIOUS
<1> HIDE DEF c
<1>6. QueuesSound'
  BY <1>4, <1>5 DEF QueuesSound
<1>8. ASSUME NEW x \in Events, Queued(x)' PROVE Queued(x) /\ x # e
  <2>1. CASE Chat[x] = c
    BY <1>3, <1>4, <1>5, <1>8, <2>1, Constants DEF Queued
  <2>2. CASE Chat[x] # c
    BY <1>5, <1>7, <1>8, <2>2, Constants DEF Queued
  <2> QED BY <2>1, <2>2
<1> QED BY <1>6, <1>8

(* What the bridge comes to know with a commit, and what it forgets as it  *)
(* defers an event.                                                        *)
LEMMA SameKnown ==
  ASSUME UNCHANGED <<seen, deferred>>
  PROVE  \A e : (Known(e)' <=> Known(e)) /\ (Deferred(e)' <=> Deferred(e))
  BY DEF Known, Deferred

LEMMA CommitKnows ==
  ASSUME TypeOK, Distinct(deferred), NEW e \in Events, CommitEvent(e, FALSE)
  PROVE  Distinct(deferred') /\ \A x : Known(x)' <=> Known(x) \/ x = e
<1> DEFINE w == Without(deferred, e)
<1>1. deferred \in Seq(Events) /\ deferred' = w /\ seen' = seen \cup {e}
  BY DEF TypeOK, CommitEvent
<1>2. Distinct(w) /\ ~Holds(w, e)
  BY <1>1, WithoutDistinct
<1>3. \A x : /\ x # e /\ Holds(deferred, x) => Holds(w, x)
             /\ Holds(w, x) => Holds(deferred, x)
  BY <1>1, WithoutKeeps
<1> HIDE DEF w
<1>4. \A x : Deferred(x)' <=> Holds(w, x)
  BY <1>1 DEF Deferred, Holds
<1>5. \A x : Deferred(x) <=> Holds(deferred, x)
  BY DEF Deferred, Holds
<1> QED BY <1>1, <1>2, <1>3, <1>4, <1>5 DEF Known

LEMMA CommitRetains ==
  ASSUME TypeOK, NEW e \in Events, CommitEvent(e, TRUE), Deferred(e)
  PROVE  deferred' = deferred /\ \A x : Known(x)' <=> Known(x)
<1>1. deferred' = deferred /\ seen' = seen \cup {e}
  BY DEF CommitEvent
<1> QED BY <1>1 DEF Known, Deferred

LEMMA DeferForgets ==
  ASSUME TypeOK, Distinct(deferred), NEW e \in Events, ~Deferred(e),
         deferred' = Append(deferred, e), UNCHANGED seen
  PROVE  Distinct(deferred') /\ \A x : Known(x)' <=> Known(x) /\ x # e
<1>1. deferred \in Seq(Events) /\ ~Holds(deferred, e)
  BY DEF TypeOK, Deferred, Holds
<1>2. Distinct(deferred')
  BY <1>1, AppendDistinct
<1>3. \A x : Holds(deferred', x) <=> x = e \/ Holds(deferred, x)
  BY <1>1, AppendKeeps
<1>4. \A x : (Deferred(x)' <=> Holds(deferred', x)) /\ (Deferred(x) <=> Holds(deferred, x))
  BY DEF Deferred, Holds
<1> QED BY <1>2, <1>3, <1>4 DEF Known

(* A step after which the sessions hold no message more, and the bridge    *)
(* knows what it knew.                                                     *)
Quiet ==
  /\ QueuesSound' /\ \A e \in Events : Queued(e)' => Queued(e)
  /\ UNCHANGED <<seen, deferred, turns, again>>

LEMMA EasedQuiet ==
  ASSUME TypeOK, TypeOK', Once, AllEase, UNCHANGED <<seen, deferred, turns, again>>
  PROVE  Quiet
  BY EasedQueues DEF Once, Quiet

LEMMA AccountsStay ==
  ASSUME Once, Quiet, pc \notin {"commit", "sidecommit", "begun", "down"}
  PROVE  Accounts'
<1>1. Distinct(deferred')
  BY DEF Once, Accounts, Quiet
<1>2. \A e \in Events : /\ (Known(e)' <=> Known(e)) /\ (HasTurnLeft(e)' <=> HasTurnLeft(e))
                        /\ again'[e] <= turns'[e] /\ turns'[e] <= 1 + again'[e]
                        /\ Queued(e)' => HasTurnLeft(e) /\ Known(e)
                        /\ ~Known(e) => HasTurnLeft(e)
  BY SameKnown DEF Once, Accounts, Quiet, HasTurnLeft, AboutToBeKnown
<1> QED BY <1>1, <1>2 DEF Accounts

(* The bridge goes on with the event in hand.                              *)
LEMMA QuietKeeps ==
  ASSUME TypeOK, Once, Quiet, UNCHANGED <<batch, picked>>,
         \/ pc' = pc /\ cur' = cur
         \/ pc \in Plain /\ pc' \in Plain /\ (pc' \in Turning => pc \in Turning)
  PROVE  Once'
<1>1. e0' = e0 /\ \A e : (Known(e)' <=> Known(e)) /\ (HasTurnLeft(e)' <=> HasTurnLeft(e))
  BY SameKnown DEF e0, Quiet, HasTurnLeft
<1>2. CASE pc' = pc /\ cur' = cur
  <2>1. Accounts'
    BY <1>1, <1>2 DEF Once, Accounts, Quiet, AboutToBeKnown
  <2>2. AtHand'
    <3>1. ASSUME pc \in {"defer", "retain"} PROVE ~Queued(e0)'
      <4>1. e0 \in Events /\ ~Queued(e0)
        BY <3>1, HeadEvent DEF TypeOK, Once, AtHand
      <4> QED BY <1>1, <4>1 DEF Quiet, Queued
    <3>2. ASSUME pc \in {"sidedefer", "sideretain"} PROVE ~Queued(cur)'
      <4>1. cur \in Events /\ ~Queued(cur)
        BY <3>2 DEF TypeOK, Once, AtHand
      <4> QED BY <1>2, <4>1 DEF Quiet, Queued
    <3> QED BY <1>1, <1>2, <3>1, <3>2 DEF Once, AtHand
  <2> QED BY <2>1, <2>2 DEF Once, Quiet
<1>3. CASE pc \in Plain /\ pc' \in Plain /\ (pc' \in Turning => pc \in Turning)
  <2>1. Accounts'
    BY <1>3, AccountsStay DEF Plain
  <2>2. AtHand'
    BY <1>1, <1>3 DEF Once, AtHand, Plain, Turning, Resting
  <2> QED BY <2>1, <2>2 DEF Once, Quiet
<1> QED BY <1>2, <1>3

(* The bridge goes on to another event, or to the top of its loop.         *)
LEMMA MovesOn ==
  ASSUME TypeOK', IInv, QueuesSound', Accounts',
         pc' \in Resting \/ (pc \notin Resting /\ NextEvent)
  PROVE  Once'
<1>1. CASE pc' \in Resting
  <2>1. AtHand'
    BY <1>1 DEF AtHand, Resting, Turning
  <2> QED BY <2>1 DEF Once
<1>2. CASE pc' \notin Resting /\ pc \notin Resting /\ NextEvent
  <2>1. pc' = "admit" /\ picked' = NoEvent
    BY <1>2 DEF NextEvent, IInv, InOrder, Resting
  <2>2. batch' \in Seq(Events) /\ batch' # <<>>
    BY <2>1 DEF TypeOK
  <2>3. e0' \in Events
    BY <2>2, HeadTailProperties DEF e0
  <2>4. AtHand'
    BY <2>1, <2>3, Constants DEF AtHand, Turning
  <2> QED BY <2>4 DEF Once
<1> QED BY <1>1, <1>2

LEMMA TopOnce ==
  ASSUME TypeOK, TypeOK', IInv, Once,
         \/ \E d \in Events : SendPending(d)
         \/ PendingSent
         \/ \E s \in Sess : PickQueued(s)
         \/ PickDeferred
         \/ \E first \in Events : Poll(first)
  PROVE  Once'
<1>1. Quiet /\ Accounts'
  <2>1. AllEase /\ UNCHANGED <<seen, deferred, turns, again>> /\ pc \in {"top", "sending"}
    BY StillStepsEase DEF SendPending, PendingSent, PickQueued, PickDeferred, Poll, store, history,
                          IInv, StoreInv
  <2> QED BY <2>1, EasedQuiet, AccountsStay
<1>2. CASE \/ \E d \in Events : SendPending(d)
           \/ PendingSent
  <2>1. pc' \in Resting
    BY <1>2 DEF SendPending, PendingSent, SendAccepted, SendFailed, Stopped, Resting
  <2> QED BY <1>1, <2>1, MovesOn DEF Quiet
<1>3. e0' \in Events \/ pc' # "admit"
  <2> SUFFICES ASSUME pc' = "admit" PROVE e0' \in Events
    OBVIOUS
  <2>1. batch' \in Seq(Events) /\ batch' # <<>>
    BY DEF TypeOK
  <2> QED BY <2>1, HeadTailProperties DEF e0
<1>4. CASE \/ PickDeferred
           \/ \E first \in Events : Poll(first)
  <2>1. pc' = "admit" /\ picked' = NoEvent
    BY <1>4 DEF PickDeferred, Poll
  <2>2. AtHand'
    BY <1>3, <2>1, Constants DEF AtHand, Turning
  <2> QED BY <1>1, <2>2 DEF Once, Quiet
<1>5. ASSUME NEW s \in Sess, PickQueued(s)
      PROVE  Once'
  <2> DEFINE e == Head(sess[s].queued)
  <2>1. /\ sess[s].queued \in Seq(Events) /\ sess[s].queued # <<>>
        /\ batch' = <<e>> /\ picked' = e /\ pc' = "admit" /\ pc = "top"
    BY <1>5 DEF TypeOK, Session, PickQueued, Runnable
  <2>2. e \in Events /\ e = sess[s].queued[1] /\ 1 \in 1..Len(sess[s].queued)
    BY <2>1, HeadTailProperties, HeadIsFirst, EmptySeq
  <2>3. InQueue(sess[s], e)
    BY <2>2 DEF InQueue
  <2>4. Queued(e)
    BY <2>2, <2>3 DEF Queued, Once, QueuesSound, Sound
  <2>5. Known(e) /\ HasTurnLeft(e)
    BY <2>1, <2>2, <2>4 DEF Once, Accounts, AboutToBeKnown
  <2>6. e0' = e
    BY <2>1 DEF e0
  <2> HIDE DEF e
  <2>7. Known(e0)' /\ HasTurnLeft(e0)'
    BY <1>1, <2>5, <2>6 DEF Quiet, Known, Deferred, HasTurnLeft
  <2>8. AtHand'
    BY <2>1, <2>6, <2>7 DEF AtHand, Turning
  <2> QED BY <1>1, <2>8 DEF Once, Quiet
<1> QED BY <1>2, <1>4, <1>5

(* An event that is let through the admission has a turn left.             *)
LEMMA AdmittedHasTurnLeft ==
  ASSUME TypeOK, Once, pc = "admit", ~Rejected(e0)
  PROVE  HasTurnLeft(e0)
<1>1. e0 \in Events
  BY HeadEvent DEF TypeOK
<1> QED BY <1>1 DEF Once, Accounts, AtHand, Rejected

LEMMA AdmissionOnce ==
  ASSUME TypeOK, TypeOK', IInv, LeaseHasTurn, LeaseHasTurn', Once,
         Reject \/ Discard \/ NoRoom \/ AdmitDuplicate \/ AdmitQueue \/ AdmitBegin
  PROVE  Once'
<1>0. /\ pc = "admit" /\ batch # <<>> /\ e0 = Head(batch) /\ Gone
      /\ e0 \in Events /\ Chat[e0] \in Sess /\ Here \in Session /\ Here = sess[Chat[e0]]
      /\ Here.inflight = NoEvent /\ sess \in [Sess -> Session]
  <2>1. pc = "admit" /\ batch # <<>>
    BY DEF Reject, Discard, NoRoom, AdmitDuplicate, AdmitQueue, AdmitBegin, Admitting, TypeOK
  <2>2. e0 \in Events /\ Chat[e0] \in Sess /\ Here \in Session
    BY <2>1, HeadEvent
  <2>3. sess[Chat[e0]].inflight = NoEvent
    BY <2>1, <2>2 DEF LeaseHasTurn, InTurn, Turning
  <2> QED BY <2>1, <2>2, <2>3 DEF e0, Here, IInv, StoreInv, TypeOK
<1>1. UNCHANGED <<seen, again>> /\ (~AdmitBegin => UNCHANGED <<deferred, turns>>)
  BY <1>0, NoRoomStill
     DEF Reject, Discard, NoRoom, AdmitDuplicate, AdmitQueue, AdmitBegin, store, history
<1>2. ~Rejected(e0) => HasTurnLeft(e0)
  BY <1>0, AdmittedHasTurnLeft
<1>3. ASSUME AllEase, UNCHANGED <<deferred, turns>>, Goto("commit")
      PROVE  Once'
  <2>1. Quiet /\ Accounts'
    BY <1>0, <1>1, <1>3, EasedQuiet, AccountsStay
  <2>2. AtHand'
    BY <1>0, <1>3 DEF Goto, e0, Once, AtHand, Turning, Resting
  <2> QED BY <2>1, <2>2 DEF Once, Quiet
<1>4. ASSUME AllEase, UNCHANGED <<deferred, turns>>, Goto("defer"),
             ~InQueue(Here, e0), ~Rejected(e0)
      PROVE  Once'
  <2>1. Quiet /\ Accounts'
    BY <1>0, <1>1, <1>4, EasedQuiet, AccountsStay
  <2>2. e0' = e0 /\ picked' = picked /\ pc' = "defer"
    BY <1>4 DEF Goto, e0
  <2>3. ~Queued(e0)' /\ HasTurnLeft(e0)'
    BY <1>0, <1>1, <1>2, <1>4, <2>1, <2>2 DEF Queued, Quiet, HasTurnLeft
  <2>4. AtHand'
    BY <1>0, <2>2, <2>3 DEF Once, AtHand, Turning, Resting
  <2> QED BY <2>1, <2>4 DEF Once, Quiet
<1>5. CASE Reject \/ Discard \/ AdmitDuplicate
  <2>1. AllEase /\ Goto("commit") /\ UNCHANGED <<deferred, turns>>
    BY <1>0, <1>5, StillStepsEase DEF Reject, Discard, AdmitDuplicate, store, history
  <2> QED BY <1>3, <2>1
<1>6. CASE NoRoom
  <2>1. AllEase /\ Goto("defer") /\ UNCHANGED <<deferred, turns>>
    BY <1>0, <1>6, NoRoomStill DEF NoRoom, history
  <2>2. ~Rejected(e0) /\ Here.status = "absent"
    BY <1>0, <1>6 DEF NoRoom
  <2>3. ~InQueue(Here, e0)
    BY <1>0, <2>2, NothingInQueue DEF Gone, GoneOwnsNothing
  <2> QED BY <1>4, <2>1, <2>2, <2>3
<1>7. CASE AdmitQueue
  <2>0. ~Rejected(e0) /\ e0 # picked /\ ~Duplicate(Here, e0)
    BY <1>0, <1>7 DEF AdmitQueue, Admitting
  <2>a. UNCHANGED <<deferred, turns>>
    BY <1>7 DEF AdmitQueue, history
  <2>b. Goto("defer") \/ Goto("commit")
    BY <1>7 DEF AdmitQueue
  <2>1. /\ ~Rejected(e0) /\ ~InQueue(Here, e0) /\ UNCHANGED <<deferred, turns>>
        /\ Goto("defer") \/ Goto("commit")
    BY <2>0, <2>a, <2>b DEF Duplicate
  <2>2. CASE AllEase /\ pc' = "defer"
    BY <1>4, <2>1, <2>2 DEF Goto
  <2>3. CASE TakesIn(Chat[e0], e0) /\ pc' = "commit"
    <3>1. QueuesSound' /\ \A x \in Events : Queued(x)' => Queued(x) \/ x = e0
      BY <1>0, <2>3, TakenIn, Constants DEF Once
    <3>2. Goto("commit")
      BY <2>1, <2>3 DEF Goto
    <3>3. e0' = e0 /\ picked' = picked /\ pc' = "commit"
      BY <3>2 DEF Goto, e0
    <3>4. \A e : (Known(e)' <=> Known(e)) /\ (HasTurnLeft(e)' <=> HasTurnLeft(e))
      BY <1>1, <2>1, SameKnown DEF HasTurnLeft
    <3>5. Accounts'
      BY <1>0, <1>1, <1>2, <2>1, <3>1, <3>3, <3>4 DEF Once, Accounts, AboutToBeKnown
    <3>6. AtHand'
      BY <1>0, <3>3 DEF Once, AtHand, Turning, Resting
    <3> QED BY <3>1, <3>5, <3>6 DEF Once
  <2> QED BY <1>0, <1>7, <2>2, <2>3, AdmitQueueTakes
<1>8. CASE AdmitBegin
  <2>1. ~Rejected(e0)
    BY <1>0, <1>8 DEF AdmitBegin, Admitting
  <2>2. CASE AllEase /\ BreakBatch /\ UNCHANGED <<deferred, turns>>
    <3>1. Quiet /\ Accounts'
      BY <1>0, <1>1, <2>2, EasedQuiet, AccountsStay
    <3> QED BY <2>2, <3>1, MovesOn DEF BreakBatch, Resting, Quiet
  <2>3. CASE /\ Begins(Chat[e0], e0) /\ Goto("begun")
             /\ deferred' = IF e0 = picked THEN Without(deferred, e0) ELSE deferred
             /\ turns' = [turns EXCEPT ![e0] = @ + 1]
    <3>1. QueuesSound' /\ \A x \in Events : Queued(x)' => Queued(x) /\ x # e0
      BY <1>0, <2>3, BegunQueues DEF Once
    <3>2. e0' = e0 /\ picked' = picked /\ pc' = "begun"
      BY <2>3 DEF Goto, e0
    <3>3. deferred' = deferred
      <4>1. e0 = picked => ~Deferred(e0)
        BY <1>0 DEF Once, AtHand, Known
      <4> QED BY <2>3, <4>1 DEF Without, Deferred
    <3>4. \A e : Known(e)' <=> Known(e)
      BY <1>1, <3>3, SameKnown
    <3>5. /\ turns \in [Events -> Nat] /\ again \in [Events -> Nat]
          /\ turns'[e0] = turns[e0] + 1 /\ \A e \in Events : e # e0 => turns'[e] = turns[e]
      BY <1>0, <2>3 DEF TypeOK
    <3>6. /\ again'[e0] <= turns'[e0] /\ turns'[e0] <= 1 + again'[e0] /\ ~HasTurnLeft(e0)'
          /\ \A e \in Events : e # e0 => (HasTurnLeft(e)' <=> HasTurnLeft(e))
      <4>1. turns[e0] <= again[e0] /\ turns[e0] \in Nat /\ again[e0] \in Nat /\ again' = again
        BY <1>0, <1>1, <1>2, <2>1, <3>5 DEF HasTurnLeft
      <4>2. again[e0] <= turns[e0] /\ again'[e0] = again[e0]
        BY <1>0, <4>1 DEF Once, Accounts
      <4>3. again'[e0] <= turns'[e0] /\ turns'[e0] <= 1 + again'[e0] /\ ~(turns'[e0] <= again'[e0])
        BY <3>5, <4>1, <4>2
      <4> QED BY <3>2, <3>5, <4>1, <4>3 DEF HasTurnLeft
    <3>7. Accounts'
      <4>1. Distinct(deferred')
        BY <3>3 DEF Once, Accounts
      <4>2. ASSUME NEW e \in Events
            PROVE  /\ again'[e] <= turns'[e] /\ turns'[e] <= 1 + again'[e]
                   /\ Queued(e)' => HasTurnLeft(e)' /\ Known(e)'
                   /\ ~Known(e)' => HasTurnLeft(e)' \/ e = e0
        BY <1>0, <1>1, <3>1, <3>4, <3>5, <3>6 DEF Once, Accounts, AboutToBeKnown
      <4> QED BY <3>2, <4>1, <4>2 DEF Accounts
    <3>8. AtHand'
      BY <1>0, <3>2, <3>4, <3>6 DEF Once, AtHand, Turning, Resting
    <3> QED BY <3>1, <3>7, <3>8 DEF Once
  <2> QED BY <1>0, <1>8, <2>2, <2>3, AdmitBeginBegins
<1> QED BY <1>5, <1>6, <1>7, <1>8

(* What the bridge knows once it has committed the event e, and what not   *)
(* when it is about to defer it.                                           *)
LEMMA CommitAccounts ==
  ASSUME TypeOK, Once, NEW e \in Events, CommitEvent(e, FALSE),
         QueuesSound', \A x \in Events : Queued(x)' => Queued(x),
         UNCHANGED <<turns, again>>, pc # "down",
         \A x \in Events : AboutToBeKnown(x) \/ (pc = "begun" /\ x = e0) => x = e
  PROVE  Accounts'
<1>1. Distinct(deferred') /\ \A x : Known(x)' <=> Known(x) \/ x = e
  BY CommitKnows DEF Once, Accounts
<1>2. \A x : HasTurnLeft(x)' <=> HasTurnLeft(x)
  BY DEF HasTurnLeft
<1> QED BY <1>1, <1>2 DEF Once, Accounts

LEMMA DeferAccounts ==
  ASSUME TypeOK, Once, NEW e \in Events, ~Deferred(e), ~Queued(e), HasTurnLeft(e),
         deferred' = Append(deferred, e), UNCHANGED <<seen, sess, turns, again>>,
         pc \in {"defer", "sidedefer"}
  PROVE  QueuesSound' /\ Accounts' /\ \A x : Known(x)' <=> Known(x) /\ x # e
<1>1. Distinct(deferred') /\ \A x : Known(x)' <=> Known(x) /\ x # e
  BY DeferForgets DEF Once, Accounts
<1>2. \A x : (HasTurnLeft(x)' <=> HasTurnLeft(x)) /\ (Queued(x)' <=> Queued(x))
  BY DEF HasTurnLeft, Queued
<1>3. QueuesSound'
  BY DEF Once, QueuesSound
<1>4. Accounts'
  BY <1>1, <1>2 DEF Once, Accounts, AboutToBeKnown
<1> QED BY <1>1, <1>3, <1>4

LEMMA CommitOnce ==
  ASSUME TypeOK, TypeOK', IInv, Once, Defer \/ Commit \/ StartTurn
  PROVE  Once'
<1>0. /\ pc \in {"defer", "commit", "retain", "begun"} /\ batch # <<>>
      /\ e0 = Head(batch) /\ e0 \in Events /\ Gone
  <2>1. pc \in {"defer", "commit", "retain", "begun"} /\ batch # <<>>
    BY DEF Defer, Commit, StartTurn, TypeOK
  <2> QED BY <2>1, HeadEvent DEF e0, IInv, StoreInv
<1>1. UNCHANGED <<sess, turns, again>> /\ AllEase
  BY <1>0, StillStepsEase DEF Defer, Commit, StartTurn, history
<1>2. QueuesSound' /\ \A x \in Events : Queued(x)' => Queued(x)
  BY <1>1, EasedQueues DEF Once
<1>3. CASE Defer
  <2>1. pc = "defer" /\ UNCHANGED seen /\ ~Queued(e0) /\ HasTurnLeft(e0)
    BY <1>3 DEF Defer, Once, AtHand
  <2>2. CASE UNCHANGED deferred /\ (NextEvent \/ BreakBatch)
    <3>1. Quiet /\ Accounts'
      BY <1>0, <1>1, <2>1, <2>2, EasedQuiet, AccountsStay
    <3> QED BY <2>1, <2>2, <3>1, MovesOn DEF Quiet, Resting, BreakBatch
  <2>3. CASE ~Deferred(e0) /\ deferred' = Append(deferred, e0) /\ Goto("retain")
    <3>1. Accounts'
      BY <1>0, <1>1, <2>1, <2>3, DeferAccounts
    <3>2. e0' = e0 /\ picked' = picked /\ pc' = "retain"
      BY <2>3 DEF Goto, e0
    <3>3. ~Queued(e0)' /\ HasTurnLeft(e0)'
      BY <1>1, <2>1, <3>2 DEF Queued, HasTurnLeft
    <3>4. AtHand'
      BY <2>1, <3>2, <3>3 DEF Once, AtHand, Turning, Resting
    <3> QED BY <1>2, <3>1, <3>4 DEF Once
  <2> QED BY <1>0, <1>3, <2>2, <2>3 DEF Defer
<1>4. CASE Commit
  <2>1. pc \in {"commit", "retain"} /\ pc \notin Resting /\ CommitEvent(e0, pc = "retain") /\ NextEvent
    BY <1>0, <1>4 DEF Commit, Resting
  <2>2. CASE pc = "commit"
    <3>1. CommitEvent(e0, FALSE)
      BY <2>1, <2>2 DEF CommitEvent
    <3>2. \A x \in Events : AboutToBeKnown(x) \/ (pc = "begun" /\ x = e0) => x = e0
      BY <2>2 DEF AboutToBeKnown
    <3>3. Accounts'
      BY <1>0, <1>1, <1>2, <3>1, <3>2, CommitAccounts
    <3> QED BY <1>2, <2>1, <3>3, MovesOn
  <2>3. CASE pc = "retain"
    <3>1. CommitEvent(e0, TRUE) /\ Deferred(e0)
      BY <2>1, <2>3 DEF CommitEvent, IInv, InHand
    <3>2. deferred' = deferred /\ \A x : Known(x)' <=> Known(x)
      BY <1>0, <3>1, CommitRetains
    <3>3. \A x : HasTurnLeft(x)' <=> HasTurnLeft(x)
      BY <1>1 DEF HasTurnLeft
    <3>4. Accounts'
      BY <1>1, <1>2, <2>3, <3>2, <3>3 DEF Once, Accounts, AboutToBeKnown
    <3> QED BY <1>2, <2>1, <3>4, MovesOn
  <2> QED BY <2>1, <2>2, <2>3
<1>5. CASE StartTurn
  <2>1. /\ pc = "begun" /\ pc' = "turn" /\ picked' = picked /\ e0' = e0
        /\ IF e0 = picked THEN UNCHANGED <<seen, deferred>> ELSE CommitEvent(e0, FALSE)
    BY <1>0, <1>5 DEF StartTurn, e0
  <2>2. ~HasTurnLeft(e0) /\ \A x : HasTurnLeft(x)' <=> HasTurnLeft(x)
    BY <1>1, <2>1 DEF Once, AtHand, Turning, HasTurnLeft
  <2>3. Accounts' /\ Known(e0)'
    <3>1. CASE e0 = picked
      <4>1. \A x : (Known(x)' <=> Known(x))
        BY <2>1, <3>1, SameKnown
      <4>2. Known(e0)
        BY <2>1, <3>1 DEF Once, AtHand
      <4>3. Known(e0)'
        BY <2>1, <4>1, <4>2 DEF Known, Deferred
      <4>4. Accounts'
        BY <1>1, <1>2, <2>1, <2>2, <3>1, <4>1, <4>2 DEF Once, Accounts, AboutToBeKnown
      <4> QED BY <4>3, <4>4
    <3>2. CASE e0 # picked
      <4>1. \A x \in Events : AboutToBeKnown(x) \/ (pc = "begun" /\ x = e0) => x = e0
        BY <2>1 DEF AboutToBeKnown
      <4>2. Accounts'
        BY <1>0, <1>1, <1>2, <2>1, <3>2, <4>1, CommitAccounts
      <4>3. \A x : Known(x)' <=> Known(x) \/ x = e0
        BY <1>0, <2>1, <3>2, CommitKnows DEF Once, Accounts
      <4> QED BY <2>1, <4>2, <4>3 DEF Known, Deferred
    <3> QED BY <3>1, <3>2
  <2>4. AtHand'
    BY <2>1, <2>2, <2>3 DEF Once, AtHand, Turning, Resting, HasTurnLeft
  <2> QED BY <1>2, <2>3, <2>4 DEF Once
<1> QED BY <1>3, <1>4, <1>5

LEMMA TurnOnce ==
  ASSUME TypeOK, TypeOK', IInv, LeaseHasTurn, Once,
         \/ MutatingTool \/ ToolPush \/ ToolPushed \/ FlushFirst \/ FlushEdit \/ Flushed
         \/ \E e \in Events : SideEvent(e)
         \/ SideDefer \/ SideCommit \/ TurnFails
  PROVE  Once'
<1>0. /\ pc \in Turning \ {"begun"} /\ batch # <<>> /\ Gone /\ pc \notin Resting
      /\ UNCHANGED <<batch, picked, turns, again>>
  <2>1. pc \in Turning \ {"begun"}
    BY DEF MutatingTool, ToolPush, ToolPushed, FlushFirst, FlushEdit, Flushed, SideEvent,
           SideDefer, SideCommit, TurnFails, Turning
  <2>2. UNCHANGED <<batch, picked, turns, again>>
    BY DEF MutatingTool, ToolPush, ToolPushed, FlushFirst, FlushEdit, Flushed, SideEvent,
           SideDefer, SideCommit, TurnFails, Goto, BackToTurn, task, history
  <2>3. batch # <<>> /\ pc \notin Resting
    BY <2>1 DEF TypeOK, Turning, Resting
  <2> QED BY <2>1, <2>2, <2>3 DEF IInv, StoreInv
<1>a. e0' = e0 /\ e0 \in Events /\ Known(e0) /\ ~HasTurnLeft(e0)
  BY <1>0, HeadEvent DEF e0, Once, AtHand
<1>b. \A x : HasTurnLeft(x)' <=> HasTurnLeft(x)
  BY <1>0 DEF HasTurnLeft
<1>1. CASE MutatingTool \/ ToolPush \/ ToolPushed \/ FlushFirst \/ FlushEdit \/ Flushed \/ TurnFails
  <2>1. AllEase
    BY <1>0, <1>1, TurnStepsEase, StillStepsEase
  <2>2. UNCHANGED <<seen, deferred>>
    BY <1>1 DEF MutatingTool, ToolPush, ToolPushed, FlushFirst, FlushEdit, Flushed, TurnFails, store
  <2>3. (pc' = pc /\ cur' = cur) \/ (pc \in Plain /\ pc' \in Plain /\ pc \in Turning)
    BY <1>0, <1>1 DEF MutatingTool, ToolPush, ToolPushed, FlushFirst, FlushEdit, Flushed, TurnFails,
                      Goto, task, Plain
  <2> QED BY <1>0, <2>1, <2>2, <2>3, EasedQuiet, QuietKeeps
<1>2. ASSUME NEW e \in Events, SideEvent(e)
      PROVE  Once'
  <2>1. pc = "turn" /\ cur' = e /\ UNCHANGED <<seen, deferred>>
    BY <1>2 DEF SideEvent
  <2>2. \A x : (Known(x)' <=> Known(x))
    BY <2>1, SameKnown
  <2>3. Known(e0)' /\ ~HasTurnLeft(e0)'
    BY <1>a, <1>b, <2>1 DEF Known, Deferred, HasTurnLeft
  <2>4. ~Known(e) => e # e0 /\ HasTurnLeft(e)
    BY <1>a, <2>1 DEF Once, Accounts
  <2>5. CASE AllEase /\ pc' = "sidecommit" /\ (Known(e) \/ e \notin Permitted)
    <3>1. Quiet /\ Accounts'
      BY <1>0, <2>1, <2>5, EasedQuiet, AccountsStay
    <3>2. AtHand'
      BY <1>0, <1>a, <2>3, <2>5 DEF Once, AtHand, Turning, Resting
    <3> QED BY <3>1, <3>2 DEF Once, Quiet
  <2>6. CASE AllEase /\ pc' = "sidedefer" /\ ~Known(e) /\ ~InQueue(sess[Chat[e]], e)
    <3>1. Quiet /\ Accounts'
      BY <1>0, <2>1, <2>6, EasedQuiet, AccountsStay
    <3>2. ~Queued(cur)' /\ ~Known(cur)'
      <4>1. ~Queued(e)
        BY <2>6 DEF Queued
      <4> QED BY <2>1, <2>6, <3>1, <4>1 DEF Quiet, Queued, Known, Deferred
    <3>3. AtHand'
      BY <1>0, <1>a, <2>3, <2>6, <3>2 DEF Once, AtHand, Turning, Resting
    <3> QED BY <3>1, <3>3 DEF Once, Quiet
  <2>7. CASE TakesIn(Chat[e], e) /\ pc' = "sidecommit" /\ ~Known(e)
    <3>1. sess[Chat[e]].inflight # e
      BY <2>1, <2>4, <2>7, Constants DEF LeaseHasTurn, InTurn
    <3>2. QueuesSound' /\ \A x \in Events : Queued(x)' => Queued(x) \/ x = e
      BY <2>7, <3>1, TakenIn DEF Once
    <3>3. Accounts'
      BY <1>0, <1>b, <2>1, <2>2, <2>4, <2>7, <3>2 DEF Once, Accounts, AboutToBeKnown
    <3>4. AtHand'
      BY <1>0, <1>a, <2>3, <2>7 DEF Once, AtHand, Turning, Resting
    <3> QED BY <3>2, <3>3, <3>4 DEF Once
  <2> QED BY <1>0, <1>2, <2>5, <2>6, <2>7, SideEventTakes
<1>3. CASE SideDefer
  <2>1. /\ pc = "sidedefer" /\ cur \in Events /\ UNCHANGED <<sess, seen>>
        /\ ~Known(cur) /\ ~Queued(cur) /\ cur # e0
    BY <1>3, <1>a DEF SideDefer, TypeOK, Once, AtHand
  <2>2. HasTurnLeft(cur)
    BY <2>1 DEF Once, Accounts
  <2>3. CASE BackToTurn /\ UNCHANGED deferred
    <3>1. AllEase
      BY <1>0, <2>1, SameEases
    <3>2. Quiet /\ Accounts'
      BY <1>0, <2>1, <2>3, <3>1, EasedQuiet, AccountsStay
    <3>3. Known(e0)' /\ ~HasTurnLeft(e0)'
      BY <1>a, <1>b, <2>1, <2>3 DEF Known, Deferred, HasTurnLeft
    <3>4. AtHand'
      BY <1>0, <1>a, <2>3, <3>3 DEF Once, AtHand, Turning, Resting, BackToTurn
    <3> QED BY <3>2, <3>4 DEF Once, Quiet
  <2>4. CASE ~Deferred(cur) /\ deferred' = Append(deferred, cur) /\ pc' = "sideretain" /\ cur' = cur
    <3>1. QueuesSound' /\ Accounts' /\ \A x : Known(x)' <=> Known(x) /\ x # cur
      BY <1>0, <2>1, <2>2, <2>4, DeferAccounts
    <3>2. Known(e0)' /\ ~HasTurnLeft(e0)' /\ ~Queued(cur)'
      <4>1. Known(e0)' <=> Known(e0) /\ e0 # cur
        BY <3>1, <1>a DEF Known, Deferred
      <4> QED BY <1>0, <1>a, <1>b, <2>1, <2>4, <4>1 DEF HasTurnLeft, Queued
    <3>3. AtHand'
      BY <1>0, <1>a, <2>4, <3>2 DEF Once, AtHand, Turning, Resting
    <3> QED BY <3>1, <3>3 DEF Once
  <2> QED BY <1>3, <2>3, <2>4 DEF SideDefer
<1>4. CASE SideCommit
  <2>1. /\ pc \in {"sidecommit", "sideretain"} /\ cur \in Events /\ UNCHANGED sess
        /\ CommitEvent(cur, pc = "sideretain") /\ pc' = "turn"
    BY <1>4 DEF SideCommit, TypeOK, BackToTurn
  <2>2. QueuesSound' /\ \A x \in Events : Queued(x)' => Queued(x)
    <3>1. AllEase
      BY <1>0, <2>1, SameEases
    <3> QED BY <3>1, EasedQueues DEF Once
  <2>3. Accounts' /\ Known(e0)'
    <3>1. CASE pc = "sidecommit"
      <4>1. CommitEvent(cur, FALSE)
        BY <2>1, <3>1 DEF CommitEvent
      <4>2. \A x \in Events : AboutToBeKnown(x) \/ (pc = "begun" /\ x = e0) => x = cur
        BY <3>1 DEF AboutToBeKnown
      <4>3. Accounts'
        BY <1>0, <2>1, <2>2, <4>1, <4>2, CommitAccounts
      <4>4. \A x : Known(x)' <=> Known(x) \/ x = cur
        BY <2>1, <4>1, CommitKnows DEF Once, Accounts
      <4>5. Known(e0)' <=> Known(e0) \/ e0 = cur
        BY <1>a, <4>4 DEF Known, Deferred
      <4> QED BY <1>a, <4>3, <4>5
    <3>2. CASE pc = "sideretain"
      <4>1. CommitEvent(cur, TRUE) /\ Deferred(cur)
        BY <2>1, <3>2 DEF CommitEvent, IInv, InHand
      <4>2. deferred' = deferred /\ \A x : Known(x)' <=> Known(x)
        BY <2>1, <4>1, CommitRetains
      <4>3. Accounts'
        BY <1>0, <1>b, <2>1, <2>2, <3>2, <4>2 DEF Once, Accounts, AboutToBeKnown
      <4>4. Known(e0)' <=> Known(e0)
        BY <1>a, <4>2 DEF Known, Deferred
      <4> QED BY <1>a, <4>3, <4>4
    <3> QED BY <2>1, <3>1, <3>2
  <2>4. AtHand'
    <3>1. ~HasTurnLeft(e0)'
      BY <1>0, <1>a DEF HasTurnLeft
    <3> QED BY <1>0, <1>a, <2>1, <2>3, <3>1 DEF Once, AtHand, Turning, Resting
  <2> QED BY <2>2, <2>3, <2>4 DEF Once
<1> QED BY <1>1, <1>2, <1>3, <1>4

LEMMA EndOnce ==
  ASSUME TypeOK, TypeOK', IInv, LeaseHasTurn, Once,
         TurnCancelled \/ Acknowledge \/ TurnFailed \/ TurnAnswers \/ ReplySent \/ Settle
  PROVE  Once'
<1>0. pc \in Plain /\ pc \notin Resting /\ Gone /\ UNCHANGED <<seen, deferred, turns>>
  BY DEF TurnCancelled, Acknowledge, TurnFailed, TurnAnswers, ReplySent, Settle, Plain, Resting,
         IInv, StoreInv, store, history
<1>1. CASE TurnCancelled \/ Acknowledge \/ TurnAnswers \/ ReplySent \/ Settle
  <2>1. AllEase /\ UNCHANGED again
    BY <1>0, <1>1, TurnStepsEase, StillStepsEase
       DEF TurnCancelled, Acknowledge, TurnAnswers, ReplySent, Settle, history
  <2>2. Quiet /\ Accounts'
    BY <1>0, <2>1, EasedQuiet, AccountsStay DEF Plain
  <2>3. CASE TurnCancelled
    BY <1>0, <2>2, <2>3, QuietKeeps DEF TurnCancelled, Goto, Plain, Turning
  <2>4. CASE Acknowledge \/ Settle
    BY <1>0, <2>2, <2>4, MovesOn DEF Acknowledge, Settle, Quiet
  <2>5. CASE TurnAnswers
    <3>1. Stopped \/ NextEvent \/ Goto("reply")
      BY <2>5 DEF TurnAnswers
    <3>2. CASE Stopped \/ NextEvent
      BY <1>0, <2>2, <3>2, MovesOn DEF Stopped, Resting, Quiet
    <3>3. CASE Goto("reply")
      BY <1>0, <2>2, <3>3, QuietKeeps DEF Goto, Plain, Turning
    <3> QED BY <3>1, <3>2, <3>3
  <2>6. CASE ReplySent
    <3>1. Stopped \/ (pc' = "settle" /\ UNCHANGED <<batch, picked>>)
      BY <2>6 DEF ReplySent, SendAccepted, SendFailed
    <3>2. CASE Stopped
      BY <2>2, <3>2, MovesOn DEF Stopped, Resting, Quiet
    <3>3. CASE pc' = "settle" /\ UNCHANGED <<batch, picked>>
      BY <1>0, <2>2, <3>3, QuietKeeps DEF Plain, Turning
    <3> QED BY <3>1, <3>2, <3>3
  <2> QED BY <1>1, <2>3, <2>4, <2>5, <2>6
<1>2. CASE TurnFailed
  <2>1. /\ pc = "failing" /\ NextEvent /\ batch # <<>>
    BY <1>2 DEF TurnFailed, TypeOK
  <2>2. /\ e0 \in Events /\ Here = sess[Chat[e0]] /\ Known(e0) /\ ~HasTurnLeft(e0)
    BY <2>1, HeadEvent DEF Here, Once, AtHand, Turning
  <2>3. CASE AllEase /\ UNCHANGED again
    <3>1. Quiet /\ Accounts'
      BY <1>0, <2>3, EasedQuiet, AccountsStay DEF Plain
    <3> QED BY <1>0, <2>1, <3>1, MovesOn DEF Quiet
  <2>4. CASE /\ \E r \in Session : /\ Eases(Here, r) /\ r.status # "absent" /\ r.inflight = NoEvent
                                   /\ sess' = [sess EXCEPT ![Chat[e0]] = Queue(r, e0)]
             /\ Here.phase # "unsafe" /\ again' = [again EXCEPT ![e0] = @ + 1]
    <3>1. QueuesSound' /\ \A x \in Events : Queued(x)' => Queued(x) \/ x = e0
      BY <2>2, <2>4, TakenQueues, Constants DEF Once
    <3>2. /\ again \in [Events -> Nat] /\ turns \in [Events -> Nat] /\ turns' = turns
          /\ again'[e0] = again[e0] + 1 /\ \A e \in Events : e # e0 => again'[e] = again[e]
      BY <1>0, <2>2, <2>4 DEF TypeOK
    <3>3. again'[e0] <= turns'[e0] /\ turns'[e0] <= 1 + again'[e0] /\ turns'[e0] <= again'[e0]
      <4>1. ~(turns[e0] <= again[e0]) /\ turns[e0] <= 1 + again[e0]
        BY <2>2 DEF HasTurnLeft, Once, Accounts
      <4> QED BY <2>2, <3>2, <4>1
    <3>4. \A e : Known(e)' <=> Known(e)
      BY <1>0, SameKnown
    <3>5. Accounts'
      <4>1. Distinct(deferred')
        BY <1>0 DEF Once, Accounts
      <4>2. ASSUME NEW e \in Events
            PROVE  /\ again'[e] <= turns'[e] /\ turns'[e] <= 1 + again'[e]
                   /\ Queued(e)' => turns'[e] <= again'[e] /\ Known(e)'
                   /\ ~Known(e)' => turns'[e] <= again'[e]
        <5>1. CASE e = e0
          BY <2>2, <3>3, <3>4, <5>1
        <5>2. CASE e # e0
          BY <2>1, <3>1, <3>2, <3>4, <5>2 DEF Once, Accounts, AboutToBeKnown, HasTurnLeft
        <5> QED BY <5>1, <5>2
      <4> QED BY <4>1, <4>2 DEF Accounts, HasTurnLeft
    <3> QED BY <1>0, <2>1, <3>1, <3>5, MovesOn
  <2> QED BY <1>0, <1>2, <2>3, <2>4, TurnFailedTakes
<1> QED BY <1>1, <1>2

(* What the bridge does not do itself.                                     *)
LEMMA OthersOnce ==
  ASSUME TypeOK, TypeOK', IInv, Once, crashes' = 0, Clients \/ Environment \/ UNCHANGED vars
  PROVE  Once'
<1>0. Gone
  BY DEF IInv, StoreInv
<1>1. ~Restart
  BY DEF Restart, TypeOK
<1>2. AllEase
  BY <1>0, <1>1, ClientsEase, EnvironmentEases, StillStepsEase DEF Environment
<1>3. UNCHANGED <<seen, deferred, turns, again>>
  BY <1>1 DEF Clients, CancelSession, RequestCancel, CancelTimesOut, AppendByClient,
         DeleteSession, TuiReserve, TuiRelease, RetryDelivery, DropDelivery, ClientOp,
         Environment, Arrive, Halt, ReservationExpires, vars, store, history
<1>4. Quiet
  BY <1>2, <1>3, EasedQuiet
<1>5. CASE Halt(TRUE) \/ Halt(FALSE)
  <2>1. Stopped /\ pc' \in Resting
    BY <1>5 DEF Halt, Stopped, Resting
  <2>2. Accounts'
    BY <1>4, <2>1 DEF Once, Accounts, Quiet, Stopped
  <2> QED BY <1>4, <2>1, <2>2, MovesOn DEF Quiet
<1>6. CASE ~(Halt(TRUE) \/ Halt(FALSE))
  <2>1. UNCHANGED <<pc, cur, batch, picked>>
    BY <1>1, <1>6 DEF Clients, CancelSession, RequestCancel, CancelTimesOut, AppendByClient,
           DeleteSession, TuiReserve, TuiRelease, RetryDelivery, DropDelivery, ClientOp,
           Environment, Arrive, ReservationExpires, vars, task
  <2> QED BY <1>4, <2>1, QuietKeeps
<1> QED BY <1>5, <1>6

LEMMA InitOnce == Init => Once
<1> SUFFICES ASSUME Init PROVE Once
  OBVIOUS
<1>1. /\ \A s \in Sess : sess[s] = NoSession
      /\ deferred = <<>> /\ pc = "top" /\ picked = NoEvent
      /\ \A e \in Events : turns[e] = 0 /\ again[e] = 0
  BY DEF Init
<1>2. NoSession.queued = <<>> /\ \A e : ~InQueue(NoSession, e)
  BY EmptyOwnsNothing DEF NoSession
<1>3. Distinct(<<>>)
  BY EmptySeq DEF Distinct
<1>4. QueuesSound
  BY <1>1, <1>2, <1>3 DEF QueuesSound, Sound
<1>5. \A e \in Events : ~Queued(e) /\ HasTurnLeft(e)
  BY <1>1, <1>2, Constants DEF Queued, HasTurnLeft
<1>6. Accounts
  BY <1>1, <1>3, <1>5 DEF Accounts
<1>7. AtHand
  BY <1>1 DEF AtHand, Resting, Turning
<1> QED BY <1>4, <1>6, <1>7 DEF Once

LEMMA NextOnce ==
  ASSUME TypeOK, TypeOK', IInv, LeaseHasTurn, LeaseHasTurn', Once, crashes' = 0, [Next]_vars
  PROVE  Once'
<1>1. CASE Bridge
  BY <1>1, TopOnce, AdmissionOnce, CommitOnce, TurnOnce, EndOnce DEF Bridge
<1>2. CASE ~Bridge
  BY <1>2, OthersOnce DEF Next
<1> QED BY <1>1, <1>2

-----------------------------------------------------------------------------
(* A turn with effects is not repeated.                                    *)

(* What the steps other than the beginning of a turn do.                   *)
LEMMA StepsKeepTurns ==
  ASSUME TypeOK, crashes' = 0, [Next]_vars, ~AdmitBegin
  PROVE  /\ UNCHANGED turns
         /\ pc' \in Turning => pc \in Turning /\ UNCHANGED batch
         /\ ~TurnFailed => UNCHANGED again
         /\ ~MutatingTool /\ ~FlushFirst => UNCHANGED mutated
<1> USE DEF store, task, cancelling, history
<1>1. CASE \/ \E d \in Events : SendPending(d)
           \/ PendingSent
           \/ \E s \in Sess : PickQueued(s)
           \/ PickDeferred
           \/ \E first \in Events : Poll(first)
  <2>1. UNCHANGED <<turns, again, mutated>>
    BY <1>1 DEF SendPending, PendingSent, PickQueued, PickDeferred, Poll
  <2>2. pc' \notin Turning
    BY <1>1 DEF SendPending, PendingSent, SendAccepted, SendFailed, Stopped, PickQueued,
                PickDeferred, Poll, Turning
  <2> QED BY <2>1, <2>2
<1>2. CASE Reject \/ Discard \/ NoRoom \/ AdmitDuplicate \/ AdmitQueue \/ Defer \/ Commit
  <2>1. UNCHANGED <<turns, again, mutated>>
    BY <1>2 DEF Reject, Discard, NoRoom, AdmitDuplicate, AdmitQueue, Defer, Commit
  <2>2. pc' \notin Turning
    BY <1>2 DEF Reject, Discard, NoRoom, AdmitDuplicate, AdmitQueue, Defer, Commit, Goto,
                NextEvent, BreakBatch, Turning
  <2> QED BY <2>1, <2>2
<1>3. CASE \/ StartTurn \/ MutatingTool \/ ToolPush \/ ToolPushed \/ FlushFirst \/ FlushEdit
           \/ Flushed \/ TurnFails \/ SideDefer \/ SideCommit
           \/ \E e \in Events : SideEvent(e)
  <2>1. pc \in Turning /\ UNCHANGED batch
    BY <1>3 DEF StartTurn, MutatingTool, ToolPush, ToolPushed, FlushFirst, FlushEdit, Flushed,
                TurnFails, SideDefer, SideCommit, SideEvent, BackToTurn, Goto, Turning
  <2>2. UNCHANGED <<turns, again>> /\ (~MutatingTool /\ ~FlushFirst => UNCHANGED mutated)
    BY <1>3 DEF StartTurn, MutatingTool, ToolPush, ToolPushed, FlushFirst, FlushEdit, Flushed,
                TurnFails, SideDefer, SideCommit, SideEvent
  <2> QED BY <2>1, <2>2
<1>4. CASE TurnCancelled \/ Acknowledge \/ TurnFailed \/ TurnAnswers \/ ReplySent \/ Settle
  <2>1. UNCHANGED <<turns, mutated>> /\ (~TurnFailed => UNCHANGED again)
    BY <1>4 DEF TurnCancelled, Acknowledge, TurnFailed, TurnAnswers, ReplySent, Settle
  <2>2. pc' \notin Turning
    BY <1>4 DEF TurnCancelled, Acknowledge, TurnFailed, TurnAnswers, ReplySent, Settle,
                SendAccepted, SendFailed, Stopped, Goto, NextEvent, Turning
  <2> QED BY <2>1, <2>2
<1>5. CASE Clients \/ UNCHANGED vars
  BY <1>5 DEF Clients, CancelSession, RequestCancel, CancelTimesOut, AppendByClient,
              DeleteSession, TuiReserve, TuiRelease, RetryDelivery, DropDelivery, ClientOp, vars
<1>6. CASE Environment
  <2>1. ~Restart
    BY DEF Restart, TypeOK
  <2>2. UNCHANGED <<turns, again, mutated>>
    BY <1>6, <2>1 DEF Environment, Arrive, Halt, ReservationExpires
  <2>3. pc' \in Turning => UNCHANGED <<pc, batch>>
    BY <1>6, <2>1 DEF Environment, Arrive, Halt, Stopped, ReservationExpires, Turning
  <2> QED BY <2>2, <2>3
<1> QED BY <1>1, <1>2, <1>3, <1>4, <1>5, <1>6 DEF Next, Bridge

(* While a turn goes on, the record of it keeps its stream and stays       *)
(* unsafe.                                                                 *)
LEMMA RecordStays ==
  ASSUME TypeOK, TypeOK', IInv, IInv', crashes' = 0, [Next]_vars,
         pc \in Turning, pc' \in Turning
  PROVE  /\ e0' = e0 /\ e0 \in Events /\ Here' = sess'[Chat[e0]]
         /\ Here.phase = "unsafe" => sess'[Chat[e0]].phase = "unsafe"
         /\ Here.stream # NoEvent => sess'[Chat[e0]].stream = Here.stream
<1>0. batch # <<>> /\ Gone /\ sess \in [Sess -> Session]
  BY DEF TypeOK, Turning, IInv, StoreInv
<1>1. e0 \in Events /\ Chat[e0] \in Sess /\ Here \in Session /\ Here = sess[Chat[e0]]
  BY <1>0, HeadEvent DEF Here
<1>2. UNCHANGED batch
  <2>1. ~AdmitBegin
    BY DEF AdmitBegin, Admitting, Turning
  <2> QED BY <2>1, StepsKeepTurns
<1>3. e0' = e0 /\ Here' = sess'[Chat[e0]]
  BY <1>2 DEF e0, Here
<1>4. sess'[Chat[e0]].inflight = e0 /\ e0 # NoEvent
  BY <1>1, <1>3, Constants DEF IInv, InHand
<1>5. CASE AllEase
  BY <1>1, <1>3, <1>4, <1>5 DEF AllEase, Eases
<1>6. ASSUME NEW e \in Events, TakesIn(Chat[e], e)
      PROVE  /\ Here.phase = "unsafe" => sess'[Chat[e0]].phase = "unsafe"
             /\ Here.stream # NoEvent => sess'[Chat[e0]].stream = Here.stream
  <2>1. PICK r \in Session :
          Eases(sess[Chat[e]], r) /\ sess' = [sess EXCEPT ![Chat[e]] = Queue(r, e)]
    BY <1>6 DEF TakesIn
  <2>2. /\ Queue(r, e).inflight = r.inflight /\ Queue(r, e).phase = r.phase
        /\ Queue(r, e).stream = r.stream
    BY DEF Queue, Session
  <2>3. CASE Chat[e] = Chat[e0]
    <3>1. sess'[Chat[e0]] = Queue(r, e)
      BY <1>0, <1>1, <2>1, <2>3
    <3> QED BY <1>1, <1>4, <2>1, <2>2, <2>3, <3>1 DEF Eases
  <2>4. CASE Chat[e] # Chat[e0]
    BY <1>0, <1>1, <2>1, <2>4
  <2> QED BY <2>3, <2>4
<1>7. AllEase \/ \E e \in Events : TakesIn(Chat[e], e)
  <2>1. CASE \/ StartTurn \/ MutatingTool \/ ToolPush \/ ToolPushed \/ FlushFirst \/ FlushEdit
             \/ Flushed \/ TurnFails \/ SideDefer \/ SideCommit \/ UNCHANGED vars \/ Clients
    BY <1>0, <2>1, TurnStepsEase, StillStepsEase, ClientsEase
  <2>2. CASE Environment
    BY <1>0, <2>2, EnvironmentEases DEF Environment, Restart, Turning
  <2>3. ASSUME NEW e \in Events, SideEvent(e)
        PROVE  AllEase \/ TakesIn(Chat[e], e)
    BY <1>0, <2>3, SideEventTakes
  <2>4. CASE \/ \E d \in Events : SendPending(d)
             \/ PendingSent
             \/ \E s \in Sess : PickQueued(s)
             \/ PickDeferred
             \/ \E first \in Events : Poll(first)
             \/ Reject \/ Discard \/ NoRoom \/ AdmitDuplicate \/ AdmitQueue \/ AdmitBegin
             \/ Defer \/ Commit \/ Acknowledge \/ ReplySent \/ Settle
    BY <2>4 DEF SendPending, PendingSent, PickQueued, PickDeferred, Poll, Reject, Discard, NoRoom,
                AdmitDuplicate, AdmitQueue, AdmitBegin, Admitting, Defer, Commit, Acknowledge,
                ReplySent, Settle, Turning
  <2>5. CASE TurnCancelled \/ TurnFailed \/ TurnAnswers
    BY <2>5 DEF TurnCancelled, TurnFailed, TurnAnswers, Stopped, Goto, NextEvent, Turning
  <2> QED BY <2>1, <2>2, <2>3, <2>4, <2>5 DEF Next, Bridge
<1> QED BY <1>1, <1>3, <1>5, <1>6, <1>7

(* A message whose turn had effects has no turn left, and while its turn   *)
(* goes on its lease says so.                                              *)
Spent ==
  \A e \in mutated : ~HasTurnLeft(e) /\ (pc \in Turning /\ e = e0 => Here.phase = "unsafe")

LEMMA NextSpent ==
  ASSUME TypeOK, TypeOK', IInv, IInv', Once, Spent, crashes' = 0, [Next]_vars
  PROVE  Spent' /\ KeepsTurns
<1>0. mutated \subseteq Events /\ Gone /\ turns \in [Events -> Nat] /\ again \in [Events -> Nat]
  BY DEF TypeOK, IInv, StoreInv
<1>1. CASE AdmitBegin
  <2>1. pc = "admit" /\ batch # <<>> /\ Head(batch) = e0 /\ UNCHANGED <<again, mutated>>
    BY <1>1 DEF AdmitBegin, Admitting, TypeOK, e0
  <2>2. e0 \in Events /\ e0 \notin mutated
    <3>1. ~Rejected(e0)
      BY <1>1, <2>1 DEF AdmitBegin, Admitting
    <3> QED BY <2>1, <3>1, HeadEvent, AdmittedHasTurnLeft DEF Spent
  <2>3. /\ \A e \in mutated : turns'[e] = turns[e]
        /\ pc' \notin Turning \/ e0' = e0
    <3>1. CASE BreakBatch /\ UNCHANGED <<deferred, turns>>
      BY <3>1 DEF BreakBatch, Turning
    <3>2. CASE Goto("begun") /\ turns' = [turns EXCEPT ![e0] = @ + 1]
      BY <1>0, <2>2, <3>2 DEF Goto, e0
    <3> QED BY <1>0, <1>1, <3>1, <3>2, AdmitBeginBegins
  <2> QED BY <2>1, <2>2, <2>3 DEF Spent, HasTurnLeft, KeepsTurns
<1>2. CASE TurnFailed
  <2>1. /\ UNCHANGED <<turns, mutated>> /\ pc' \notin Turning /\ pc = "failing"
        /\ batch # <<>>
    BY <1>2 DEF TurnFailed, NextEvent, Turning, TypeOK
  <2>2. e0 \in Events
    BY <2>1, HeadEvent
  <2>3. \A e \in mutated : again'[e] = again[e]
    <3>1. CASE Here.phase # "unsafe" /\ again' = [again EXCEPT ![e0] = @ + 1]
      <4>1. e0 \notin mutated
        BY <2>1, <3>1 DEF Spent, Turning
      <4> QED BY <1>0, <3>1, <4>1
    <3> QED BY <1>0, <1>2, <3>1, TurnFailedTakes
  <2> QED BY <2>1, <2>3 DEF Spent, HasTurnLeft, KeepsTurns
<1>3. CASE ~AdmitBegin /\ ~TurnFailed
  <2>1. UNCHANGED <<turns, again>> /\ (pc' \in Turning => pc \in Turning /\ UNCHANGED batch)
    BY <1>3, StepsKeepTurns
  <2>2. ASSUME NEW e \in mutated, e \in mutated'
        PROVE  ~HasTurnLeft(e)' /\ (pc' \in Turning /\ e = e0' => Here'.phase = "unsafe")
    <3>1. ~HasTurnLeft(e)'
      BY <2>1 DEF Spent, HasTurnLeft
    <3>2. ASSUME pc' \in Turning, e = e0' PROVE Here'.phase = "unsafe"
      <4>1. pc \in Turning /\ e0' = e0
        BY <2>1, <3>2 DEF e0
      <4>2. Here.phase = "unsafe"
        BY <3>2, <4>1 DEF Spent
      <4> QED BY <3>2, <4>1, <4>2, RecordStays
    <3> QED BY <3>1, <3>2
  <2>3. ASSUME mutated' # mutated
        PROVE  /\ mutated' = mutated \cup {e0} /\ ~HasTurnLeft(e0)'
               /\ e0' = e0 /\ Here'.phase = "unsafe"
    <3>1. MutatingTool \/ FlushFirst
      BY <1>3, <2>3, StepsKeepTurns
    <3>2. pc \in Turning /\ batch # <<>> /\ UNCHANGED batch
      BY <3>1 DEF MutatingTool, FlushFirst, Turning, TypeOK, task
    <3>3. /\ e0 \in Events /\ Chat[e0] \in Sess /\ Here \in Session /\ Here = sess[Chat[e0]]
          /\ e0' = e0 /\ Here' = sess'[Chat[e0]] /\ sess \in [Sess -> Session]
      BY <3>2, HeadEvent DEF Here, e0, TypeOK
    <3>4. /\ mutated' = mutated \cup {e0}
          /\ \/ sess' = [sess EXCEPT ![Chat[e0]].phase = "unsafe"]
             \/ sess' = [sess EXCEPT ![Chat[e0]] = StartStream(Here, e0)]
      BY <2>3, <3>1 DEF MutatingTool, FlushFirst
    <3>5. sess'[Chat[e0]].phase = "unsafe"
      <4>1. StartStream(Here, e0).phase = "unsafe"
        BY <3>3 DEF StartStream, Session
      <4>2. [Here EXCEPT !.phase = "unsafe"].phase = "unsafe"
        BY <3>3 DEF Session
      <4>3. sess'[Chat[e0]] \in {StartStream(Here, e0), [Here EXCEPT !.phase = "unsafe"]}
        BY <3>3, <3>4
      <4> QED BY <4>1, <4>2, <4>3
    <3>6. ~HasTurnLeft(e0)'
      BY <2>1, <3>2, <3>3 DEF Once, AtHand, HasTurnLeft
    <3> QED BY <3>3, <3>4, <3>5, <3>6
  <2>4. Spent'
    <3>1. CASE mutated' = mutated
      BY <2>2, <3>1 DEF Spent
    <3>2. CASE mutated' # mutated
      <4>1. ASSUME NEW e \in mutated'
            PROVE  ~HasTurnLeft(e)' /\ (pc' \in Turning /\ e = e0' => Here'.phase = "unsafe")
        <5>1. CASE e = e0
          <6>1. ~HasTurnLeft(e)'
            BY <2>3, <3>2, <5>1 DEF HasTurnLeft
          <6> QED BY <2>3, <3>2, <6>1
        <5>2. CASE e # e0
          BY <2>2, <2>3, <3>2, <5>2
        <5> QED BY <5>1, <5>2
      <4> QED BY <4>1 DEF Spent
    <3> QED BY <3>1, <3>2
  <2> QED BY <2>1, <2>4 DEF KeepsTurns
<1> QED BY <1>1, <1>2, <1>3

-----------------------------------------------------------------------------
(* The answer of a turn.  The invariant behind it: a message whose turn     *)
(* did not begin has no delivery; one whose first turn is running has none  *)
(* but the stream of that turn; and what is being sent as an answer counts  *)
(* as delivered.                                                            *)

Excused(e) == again[e] > 0 \/ e \in told \cup dead

Present(e) == outbox[e].status # "absent"

Settled(e) == Excused(e) \/ (Present(e) /\ outbox[e].text = "answer")

FirstTurn == \/ again[e0] > 0
             \/ e0 \notin answered /\ (Present(e0) => Here.stream = e0)

Answers ==
  /\ \A e \in Events : turns[e] = 0 => ~Present(e) /\ e \notin answered
  /\ pc \in Turning => FirstTurn
  /\ pc = "sending" /\ cur \in answered => Excused(cur)
  /\ pc = "reply" => Excused(e0)
  /\ \A e \in answered : Settled(e)

LEMMA AnswersKept == Answers => AnswerNotLost
BY DEF Answers, AnswerNotLost, Settled, Excused, Present

(* The history only grows.                                                 *)
LEMMA HistoryGrows ==
  ASSUME TypeOK, crashes' = 0, [Next]_vars
  PROVE  /\ told \subseteq told' /\ dead \subseteq dead'
         /\ \A e \in Events : turns'[e] = 0 => turns[e] = 0
         /\ \A e \in Events : again[e] > 0 => again'[e] > 0
         /\ ~TurnAnswers => UNCHANGED answered
<1>0. turns \in [Events -> Nat] /\ again \in [Events -> Nat]
  BY DEF TypeOK
<1>1. \A d, ob : Dispatch(d, ob) => told \subseteq told'
  BY DEF Dispatch
<1>2. CASE \/ \E d \in Events : SendPending(d)
           \/ FlushFirst \/ TurnAnswers
  <2>1. UNCHANGED <<dead, turns, again>> /\ (~TurnAnswers => UNCHANGED answered)
    BY <1>2 DEF SendPending, FlushFirst, TurnAnswers
  <2>2. told' = told \/ \E d, ob : Dispatch(d, ob)
    BY <1>2 DEF SendPending, FlushFirst, TurnAnswers
  <2> QED BY <1>1, <2>1, <2>2
<1>3. CASE AdmitBegin
  <2>1. UNCHANGED <<told, dead, again, answered>>
    BY <1>3 DEF AdmitBegin
  <2>2. turns' = turns \/ \E e : turns' = [turns EXCEPT ![e] = @ + 1]
    BY <1>3 DEF AdmitBegin
  <2> QED BY <1>0, <2>1, <2>2
<1>4. CASE TurnFailed
  <2>1. UNCHANGED <<told, dead, turns, answered>>
    BY <1>4 DEF TurnFailed
  <2>2. \E x : again' = [again EXCEPT ![e0] = IF x THEN @ + 1 ELSE @]
    BY <1>4 DEF TurnFailed
  <2> QED BY <1>0, <2>1, <2>2
<1>5. CASE Clients \/ UNCHANGED vars
  <2>1. UNCHANGED <<told, turns, again, answered>>
    BY <1>5 DEF Clients, CancelSession, RequestCancel, CancelTimesOut, AppendByClient,
           DeleteSession, TuiReserve, TuiRelease, RetryDelivery, DropDelivery, ClientOp,
           vars, history
  <2>2. dead \subseteq dead'
    BY <1>5 DEF Clients, CancelSession, RequestCancel, CancelTimesOut, AppendByClient,
           DeleteSession, TuiReserve, TuiRelease, RetryDelivery, DropDelivery, ClientOp,
           vars, store
  <2> QED BY <2>1, <2>2
<1>6. CASE Environment
  <2>1. ~Restart
    BY DEF Restart, TypeOK
  <2> QED BY <1>6, <2>1 DEF Environment, Arrive, Halt, ReservationExpires, history, store
<1>7. CASE \/ PendingSent
           \/ \E s \in Sess : PickQueued(s)
           \/ PickDeferred
           \/ \E first \in Events : Poll(first)
           \/ Reject \/ Discard \/ NoRoom \/ AdmitDuplicate \/ AdmitQueue
           \/ Defer \/ Commit \/ StartTurn
  <2>1. UNCHANGED <<told, dead, turns, again, answered>>
    BY <1>7 DEF PendingSent, PickQueued, PickDeferred, Poll, Reject, Discard, NoRoom,
                AdmitDuplicate, AdmitQueue, Defer, Commit, StartTurn, store, history
  <2> QED BY <2>1
<1>8. CASE \/ MutatingTool \/ ToolPush \/ ToolPushed \/ FlushEdit \/ Flushed
           \/ \E e \in Events : SideEvent(e)
           \/ SideDefer \/ SideCommit
           \/ TurnCancelled \/ Acknowledge \/ TurnFails \/ ReplySent \/ Settle
  <2>1. UNCHANGED <<told, dead, turns, again, answered>>
    BY <1>8 DEF MutatingTool, ToolPush, ToolPushed, FlushEdit, Flushed, SideEvent, SideDefer,
                SideCommit, TurnCancelled, Acknowledge, TurnFails, ReplySent, Settle, store, history
  <2> QED BY <2>1
<1> QED BY <1>2, <1>3, <1>4, <1>5, <1>6, <1>7, <1>8 DEF Next, Bridge

(* The step leaves every delivery in the outbox, with its text.            *)
TextStays(d) ==
  (Present(d)' <=> Present(d)) /\ (Present(d) => outbox'[d].text = outbox[d].text)

TextsStay == \A d \in Events : TextStays(d)

LEMMA StatusKeepsTexts ==
  ASSUME outbox \in [Events -> Delivery], NEW d \in Events, NEW status, Present(d),
         status # "absent", outbox' = [outbox EXCEPT ![d].status = status]
  PROVE  TextsStay
BY DEF TextsStay, TextStays, Present, Delivery

LEMMA ClearingKeepsTexts ==
  ASSUME outbox \in [Events -> Delivery], NEW r, outbox' = ClearDelivery(outbox, r)
  PROVE  TextsStay
BY DEF TextsStay, TextStays, Present, Delivery, ClearDelivery

LEMMA SameTexts ==
  ASSUME UNCHANGED outbox
  PROVE  TextsStay
BY DEF TextsStay, TextStays, Present

LEMMA MostKeepTexts ==
  ASSUME TypeOK, [Next]_vars, crashes' = 0,
         ~PendingSent, ~FlushFirst, ~FlushEdit, ~TurnFailed, ~TurnAnswers, ~ReplySent,
         \A d \in Events : ~DropDelivery(d)
  PROVE  TextsStay
<1>0. outbox \in [Events -> Delivery]
  BY DEF TypeOK
<1>1. ASSUME NEW d \in Events, SendPending(d) \/ RetryDelivery(d)
      PROVE  TextsStay
  <2>1. Present(d) /\ \E status \in {"sending", "pending"} :
          outbox' = [outbox EXCEPT ![d].status = status]
    BY <1>1 DEF SendPending, Pending, RetryDelivery, Present
  <2> QED BY <1>0, <2>1, StatusKeepsTexts
<1>2. CASE Flushed
  <2>1. e0 \in Events
    BY <1>2, HeadEvent DEF Flushed, TypeOK
  <2>2. CASE Present(e0) /\ outbox' = [outbox EXCEPT ![e0].status = "streaming", ![e0].edit = TRUE]
    BY <1>0, <2>1, <2>2 DEF TextsStay, TextStays, Present, Delivery
  <2>3. CASE outbox' = [outbox EXCEPT ![e0].status = IF @ = "absent" THEN @ ELSE "uncertain"]
    BY <1>0, <2>1, <2>3 DEF TextsStay, TextStays, Present, Delivery
  <2> QED BY <1>2, <2>2, <2>3 DEF Flushed, Present
<1>3. CASE TurnCancelled
  BY <1>0, <1>3, ClearingKeepsTexts DEF TurnCancelled
<1>4. ASSUME NEW s \in Sess, CancelSession(s)
      PROVE  TextsStay
  BY <1>0, <1>4, ClearingKeepsTexts, SameTexts DEF CancelSession
<1>5. CASE Environment
  <2>1. ~Restart
    BY DEF Restart, TypeOK
  <2> QED BY <1>5, <2>1, SameTexts DEF Environment, Arrive, Halt, ReservationExpires, store
<1>6. CASE \/ \E s \in Sess : \/ RequestCancel(s) \/ CancelTimesOut(s) \/ AppendByClient(s)
                              \/ DeleteSession(s) \/ TuiReserve(s) \/ TuiRelease(s)
           \/ UNCHANGED vars
  BY <1>6, SameTexts DEF RequestCancel, CancelTimesOut, AppendByClient, DeleteSession,
     TuiReserve, TuiRelease, vars, store
<1>7. CASE \/ \E s \in Sess : PickQueued(s)
           \/ PickDeferred
           \/ \E first \in Events : Poll(first)
           \/ Reject \/ Discard \/ NoRoom \/ AdmitDuplicate \/ AdmitQueue \/ AdmitBegin
           \/ Defer \/ Commit \/ StartTurn
  BY <1>7, SameTexts DEF PickQueued, PickDeferred, Poll, Reject, Discard, NoRoom,
     AdmitDuplicate, AdmitQueue, AdmitBegin, Defer, Commit, StartTurn, store
<1>8. CASE \/ MutatingTool \/ ToolPush \/ ToolPushed
           \/ \E e \in Events : SideEvent(e)
           \/ SideDefer \/ SideCommit \/ Acknowledge \/ TurnFails \/ Settle
  BY <1>8, SameTexts DEF MutatingTool, ToolPush, ToolPushed, SideEvent, SideDefer, SideCommit,
     Acknowledge, TurnFails, Settle, store
<1> QED BY <1>1, <1>2, <1>3, <1>4, <1>5, <1>6, <1>7, <1>8 DEF Next, Bridge, Clients

(* What a step has to show of the messages, of the turn that goes on after *)
(* it and of what it sends.                                                *)
MessageStays(e) ==
  \/ TextStays(e) /\ (e \in answered' => e \in answered)
  \/ turns'[e] # 0 /\ (e \in answered' => Settled(e)')

SendsStay ==
  /\ pc' = "sending" /\ cur' \in answered' => Excused(cur)'
  /\ pc' = "reply" => Excused(e0)'

LEMMA AnswersFollow ==
  ASSUME TypeOK, TypeOK', crashes' = 0, [Next]_vars, Answers,
         \A e \in Events : MessageStays(e),
         pc' \in Turning => FirstTurn', SendsStay
  PROVE  Answers'
<1>1. \A e \in Events : Excused(e) => Excused(e)'
  BY HistoryGrows DEF Excused
<1>2. ASSUME NEW e \in Events
      PROVE  /\ turns'[e] = 0 => ~Present(e)' /\ e \notin answered'
             /\ e \in answered' => Settled(e)'
  <2>1. CASE turns'[e] # 0 /\ (e \in answered' => Settled(e)')
    BY <2>1
  <2>2. CASE TextStays(e) /\ (e \in answered' => e \in answered)
    <3>1. turns'[e] = 0 => turns[e] = 0
      BY HistoryGrows
    <3>2. Settled(e) => Settled(e)'
      BY <1>1, <2>2 DEF Settled, TextStays
    <3> QED BY <2>2, <3>1, <3>2 DEF Answers, TextStays
  <2> QED BY <2>1, <2>2 DEF MessageStays
<1>3. answered' \subseteq Events
  BY DEF TypeOK
<1> QED BY <1>2, <1>3 DEF Answers, SendsStay

LEMMA TurnGoesOn ==
  ASSUME TypeOK, TypeOK', IInv, IInv', crashes' = 0, [Next]_vars, Answers,
         pc' \in Turning, ~AdmitBegin, Present(e0)' => Present(e0),
         UNCHANGED answered
  PROVE  FirstTurn'
<1>1. pc \in Turning
  BY StepsKeepTurns
<1>2. /\ e0' = e0 /\ e0 \in Events /\ Here' = sess'[Chat[e0]]
      /\ Here.stream # NoEvent => sess'[Chat[e0]].stream = Here.stream
  BY <1>1, RecordStays
<1>3. again[e0] > 0 => again'[e0] > 0
  BY <1>2, HistoryGrows
<1>4. e0 # NoEvent
  BY <1>2, Constants
<1>5. FirstTurn
  BY <1>1 DEF Answers
<1>6. CASE again[e0] > 0
  BY <1>2, <1>3, <1>6 DEF FirstTurn
<1>7. CASE e0 \notin answered /\ (Present(e0) => Here.stream = e0)
  <2>1. Present(e0') <=> Present(e0)
    BY <1>2
  <2>2. Present(e0)' => Here'.stream = e0
    BY <1>2, <1>4, <1>7
  <2> QED BY <1>2, <1>7, <2>2 DEF FirstTurn, Present
<1> QED BY <1>5, <1>6, <1>7 DEF FirstTurn

(* Which steps begin to send.                                              *)
LEMMA SendsBegin ==
  ASSUME TypeOK, crashes' = 0, [Next]_vars,
         ~TurnAnswers, \A d \in Events : ~SendPending(d)
  PROVE  /\ pc' = "sending" => pc = "sending" /\ cur' = cur
         /\ pc' = "reply" => pc = "reply" /\ UNCHANGED batch
<1> USE DEF task
<1>1. CASE \/ PendingSent
           \/ \E s \in Sess : PickQueued(s)
           \/ PickDeferred
           \/ \E first \in Events : Poll(first)
  BY <1>1 DEF PendingSent, SendAccepted, SendFailed, Stopped, PickQueued, PickDeferred, Poll
<1>2. CASE Reject \/ Discard \/ NoRoom \/ AdmitDuplicate \/ AdmitQueue \/ AdmitBegin \/ Defer
           \/ Commit
  BY <1>2 DEF Reject, Discard, NoRoom, AdmitDuplicate, AdmitQueue, AdmitBegin, Defer, Commit,
              Goto, NextEvent, BreakBatch
<1>3. CASE \/ StartTurn \/ MutatingTool \/ ToolPush \/ ToolPushed \/ FlushFirst \/ FlushEdit
           \/ Flushed \/ TurnFails \/ SideDefer \/ SideCommit
           \/ \E e \in Events : SideEvent(e)
  BY <1>3 DEF StartTurn, MutatingTool, ToolPush, ToolPushed, FlushFirst, FlushEdit, Flushed,
              TurnFails, SideDefer, SideCommit, SideEvent, BackToTurn, Goto
<1>4. CASE TurnCancelled \/ Acknowledge \/ TurnFailed \/ ReplySent \/ Settle
  BY <1>4 DEF TurnCancelled, Acknowledge, TurnFailed, ReplySent, Settle, SendAccepted,
              SendFailed, Stopped, Goto, NextEvent
<1>5. CASE Clients \/ UNCHANGED vars
  BY <1>5 DEF Clients, CancelSession, RequestCancel, CancelTimesOut, AppendByClient,
              DeleteSession, TuiReserve, TuiRelease, RetryDelivery, DropDelivery, ClientOp, vars
<1>6. CASE Environment
  <2>1. ~Restart
    BY DEF Restart, TypeOK
  <2> QED BY <1>6, <2>1 DEF Environment, Arrive, Halt, Stopped, ReservationExpires
<1> QED BY <1>1, <1>2, <1>3, <1>4, <1>5, <1>6 DEF Next, Bridge

(* The steps that leave the texts of the outbox alone.                     *)
LEMMA CalmAnswers ==
  ASSUME TypeOK, TypeOK', IInv, IInv', crashes' = 0, [Next]_vars, Answers,
         TextsStay, UNCHANGED answered, ~AdmitBegin,
         ~TurnAnswers, \A d \in Events : ~SendPending(d)
  PROVE  Answers'
<1>1. \A e \in Events : MessageStays(e)
  BY DEF TextsStay, MessageStays
<1>2. ASSUME pc' \in Turning PROVE FirstTurn'
  <2>1. pc \in Turning
    BY <1>2, StepsKeepTurns
  <2>2. e0 \in Events /\ e0' = e0
    BY <1>2, <2>1, RecordStays
  <2>3. Present(e0)' => Present(e0)
    BY <2>2 DEF TextsStay, TextStays, Present
  <2> QED BY <1>2, <2>3, TurnGoesOn
<1>3. SendsStay
  <2>2. ASSUME pc' = "sending", cur' \in answered' PROVE Excused(cur)'
    <3>1. pc = "sending" /\ cur' = cur
      BY <2>2, SendsBegin
    <3>2. cur \in Events /\ Excused(cur)
      BY <2>2, <3>1 DEF TypeOK, Answers
    <3> QED BY <3>1, <3>2, HistoryGrows DEF Excused
  <2>3. ASSUME pc' = "reply" PROVE Excused(e0)'
    <3>1. pc = "reply" /\ UNCHANGED batch
      BY <2>3, SendsBegin
    <3>2. e0 \in Events /\ Excused(e0) /\ e0' = e0
      BY <3>1, HeadEvent DEF TypeOK, Answers, e0
    <3> QED BY <3>2, HistoryGrows DEF Excused
  <2> QED BY <2>2, <2>3 DEF SendsStay
<1> QED BY <1>1, <1>2, <1>3, AnswersFollow

(* A pending delivery is sent: an answer counts as delivered.              *)
LEMMA SendingAnswers ==
  ASSUME TypeOK, TypeOK', IInv, IInv', crashes' = 0, [Next]_vars, Answers,
         NEW d \in Events, SendPending(d)
  PROVE  Answers'
<1>1. UNCHANGED answered /\ pc' = "sending" /\ cur' = d /\ Present(d) /\ UNCHANGED again
      /\ outbox' = [outbox EXCEPT ![d].status = "sending"]
      /\ told' = IF outbox[d].text = "answer" THEN told \cup {d} ELSE told
  BY DEF SendPending, Pending, Present, Dispatch
<1>2. TextsStay
  BY <1>1, StatusKeepsTexts DEF TypeOK
<1>3. \A e \in Events : MessageStays(e)
  BY <1>1, <1>2 DEF TextsStay, MessageStays
<1>4. d \in answered => Settled(d)
  BY DEF Answers
<1>5. d \in answered => again'[d] > 0 \/ d \in told' \cup dead'
  BY <1>1, <1>4, HistoryGrows DEF Settled, Excused
<1>6. SendsStay
  BY <1>1, <1>5 DEF SendsStay, Excused
<1> QED BY <1>1, <1>3, <1>6, AnswersFollow DEF Turning

(* The answer is over when it was sent, or is kept as uncertain.           *)
LEMMA SentAnswers ==
  ASSUME TypeOK, TypeOK', crashes' = 0, [Next]_vars, Answers, PendingSent \/ ReplySent
  PROVE  Answers'
<1>0. outbox \in [Events -> Delivery]
  BY DEF TypeOK
<1>1. PICK d \in Events : /\ d = IF pc = "sending" THEN cur ELSE e0
                          /\ d \in answered => Excused(d)
  BY HeadEvent DEF PendingSent, ReplySent, TypeOK, Answers
<1>2. /\ pc' \in {"top", "settle", "down"} /\ UNCHANGED answered
      /\ \/ outbox' = [outbox EXCEPT ![d] = NoDelivery]
         \/ outbox[d].status # "absent" /\ outbox' = [outbox EXCEPT ![d].status = "uncertain"]
         \/ UNCHANGED outbox
  BY <1>1 DEF PendingSent, ReplySent, SendAccepted, SendFailed, Stopped, history
<1>3. Excused(d) => Excused(d)'
  BY <1>1, HistoryGrows DEF Excused
<1>4. CASE TextsStay
  BY <1>2, <1>4, AnswersFollow DEF TextsStay, MessageStays, Turning, SendsStay
<1>5. CASE outbox' = [outbox EXCEPT ![d] = NoDelivery]
  <2>1. ASSUME NEW e \in Events PROVE MessageStays(e)
    <3>1. CASE e # d
      <4>1. TextStays(e)
        BY <1>0, <1>5, <3>1 DEF TextStays, Present
      <4> QED BY <1>2, <4>1 DEF MessageStays
    <3>2. CASE e = d /\ turns'[d] # 0
      BY <1>1, <1>2, <1>3, <3>2 DEF MessageStays, Settled
    <3>3. CASE e = d /\ turns'[d] = 0
      <4>1. ~Present(d)
        BY <3>3, HistoryGrows DEF Answers
      <4>2. ~Present(d)'
        BY <1>0, <1>5 DEF Present, NoDelivery
      <4> QED BY <1>2, <3>3, <4>1, <4>2 DEF MessageStays, TextStays
    <3> QED BY <3>1, <3>2, <3>3
  <2> QED BY <1>2, <2>1, AnswersFollow DEF Turning, SendsStay
<1>6. TextsStay \/ outbox' = [outbox EXCEPT ![d] = NoDelivery]
  BY <1>0, <1>1, <1>2, StatusKeepsTexts, SameTexts DEF Present
<1> QED BY <1>4, <1>5, <1>6

(* A first turn begins without a delivery.                                 *)
LEMMA BeginningAnswers ==
  ASSUME TypeOK, TypeOK', IInv, Once, crashes' = 0, [Next]_vars, Answers, AdmitBegin
  PROVE  Answers'
<1>0. turns \in [Events -> Nat] /\ again \in [Events -> Nat]
  BY DEF TypeOK
<1>1. /\ pc = "admit" /\ batch # <<>> /\ Head(batch) = e0 /\ ~Rejected(e0)
      /\ UNCHANGED <<outbox, answered, again>>
  BY DEF AdmitBegin, Admitting, TypeOK, e0
<1>2. e0 \in Events /\ HasTurnLeft(e0)
  BY <1>1, HeadEvent, AdmittedHasTurnLeft
<1>3. pc' \in {"begun", "top"} /\ (pc' = "begun" => UNCHANGED batch)
  BY DEF AdmitBegin, BreakBatch, Goto
<1>4. ASSUME pc' \in Turning PROVE FirstTurn'
  <2>1. e0' = e0
    BY <1>3, <1>4 DEF e0, Turning
  <2>2. again[e0] > 0 \/ turns[e0] = 0
    BY <1>0, <1>2 DEF HasTurnLeft
  <2>3. turns[e0] = 0 => ~Present(e0) /\ e0 \notin answered
    BY <1>2 DEF Answers
  <2> QED BY <1>1, <2>1, <2>2, <2>3 DEF FirstTurn, Present
<1>5. \A e \in Events : MessageStays(e)
  BY <1>1 DEF MessageStays, TextStays, Present
<1> QED BY <1>3, <1>4, <1>5, AnswersFollow DEF SendsStay

(* The event whose turn is running, and what it may have answered.         *)
LEMMA TurnsEvent ==
  ASSUME TypeOK, Once, Answers, pc \in Turning
  PROVE  /\ e0 \in Events /\ turns[e0] # 0 /\ outbox \in [Events -> Delivery]
         /\ e0 \in answered => again[e0] > 0
         /\ again[e0] > 0 \/ (Present(e0) => Here.stream = e0)
<1>1. e0 \in Events
  BY HeadEvent DEF TypeOK, Turning
<1>2. turns[e0] # 0
  BY <1>1 DEF Once, AtHand, HasTurnLeft, TypeOK
<1> QED BY <1>1, <1>2 DEF Answers, FirstTurn, TypeOK

(* Another event keeps its delivery.                                       *)
LEMMA OthersStay ==
  ASSUME outbox \in [Events -> Delivery], NEW e \in Events, NEW x,
         outbox' = [outbox EXCEPT ![e] = x], answered' \subseteq answered \cup {e},
         MessageStays(e)
  PROVE  \A d \in Events : MessageStays(d)
BY DEF MessageStays, TextStays, Present

LEMMA FlushAnswers ==
  ASSUME TypeOK, TypeOK', IInv, IInv', Once, crashes' = 0, [Next]_vars, Answers,
         FlushFirst \/ FlushEdit
  PROVE  Answers'
<1>1. pc \in Turning /\ UNCHANGED <<batch, answered>> /\ pc' \notin {"sending", "reply"}
  BY DEF FlushFirst, FlushEdit, Turning, history
<1>2. /\ e0 \in Events /\ turns[e0] # 0 /\ outbox \in [Events -> Delivery]
      /\ e0 \in answered => again[e0] > 0
      /\ again[e0] > 0 \/ (Present(e0) => Here.stream = e0)
  BY <1>1, TurnsEvent
<1>3. PICK e \in Events : e = e0
  BY <1>2
<1>4. turns'[e] # 0 /\ (e \in answered => Settled(e)')
  BY <1>2, <1>3, HistoryGrows DEF Settled, Excused
<1>5. \A d \in Events : MessageStays(d)
  <2>1. UNCHANGED outbox \/ \E x : outbox' = [outbox EXCEPT ![e] = x]
    BY <1>3 DEF FlushFirst, FlushEdit
  <2>2. CASE UNCHANGED outbox
    BY <1>1, <2>2 DEF MessageStays, TextStays, Present
  <2>3. MessageStays(e)
    BY <1>1, <1>4 DEF MessageStays
  <2> QED BY <1>1, <1>2, <2>1, <2>2, <2>3, OthersStay
<1>6. SendsStay
  BY <1>1 DEF SendsStay
<1>7. e0' = e0
  BY <1>1 DEF e0
<1>8. CASE Present(e0) \/ UNCHANGED outbox
  <2>1. Present(e0)' => Present(e0)
    BY <1>7, <1>8 DEF Present
  <2>2. ~AdmitBegin
    BY DEF FlushFirst, FlushEdit, AdmitBegin, Admitting
  <2> QED BY <1>1, <1>5, <1>6, <2>1, <2>2, TurnGoesOn, AnswersFollow
<1>9. CASE ~Present(e0) /\ outbox' # outbox
  <2>1. FlushFirst /\ sess' = [sess EXCEPT ![Chat[e0]] = StartStream(Here, e0)]
    BY <1>9 DEF FlushFirst, FlushEdit, Present
  <2>2. Here' = StartStream(Here, e0)
    BY <1>2, <1>7, <2>1, Constants DEF Here, TypeOK
  <2>3. Here'.stream = e0
    BY <1>2, <2>2, Constants DEF StartStream, Here, TypeOK, Session
  <2>4. FirstTurn'
    BY <1>1, <1>2, <1>7, <2>3, HistoryGrows DEF FirstTurn
  <2> QED BY <1>5, <1>6, <2>4, AnswersFollow
<1> QED BY <1>8, <1>9

LEMMA FailureAnswers ==
  ASSUME TypeOK, TypeOK', Once, crashes' = 0, [Next]_vars, Answers, TurnFailed
  PROVE  Answers'
<1>1. pc \in Turning /\ UNCHANGED answered /\ pc' \in {"top", "admit"}
  BY DEF TurnFailed, NextEvent, Turning
<1>2. PICK e \in Events : e = e0
  BY <1>1, TurnsEvent
<1>3. turns'[e] # 0 /\ (e \in answered => Settled(e)') /\ outbox \in [Events -> Delivery]
  BY <1>1, <1>2, TurnsEvent, HistoryGrows DEF Settled, Excused
<1>4. \/ outbox' = ClearDelivery(outbox, Here)
      \/ \E x : outbox' = [outbox EXCEPT ![e] = x]
  BY <1>2 DEF TurnFailed
<1>5. MessageStays(e)
  BY <1>1, <1>3 DEF MessageStays
<1>6. \A d \in Events : MessageStays(d)
  <2>1. CASE outbox' = ClearDelivery(outbox, Here)
    BY <1>1, <1>3, <2>1, ClearingKeepsTexts DEF MessageStays, TextsStay
  <2> QED BY <1>1, <1>3, <1>4, <1>5, <2>1, OthersStay
<1> QED BY <1>1, <1>6, AnswersFollow DEF SendsStay, Turning

(* The reply of a first turn is stored with its text.                      *)
LEMMA ReplyHasAnswer ==
  ASSUME NEW ob \in [Events -> Delivery], NEW e \in Events, NEW r,
         ob[e].status # "absent" => r.stream = e
  PROVE  /\ ReplyDelivery(e, r, "answer", ob[e]).status # "absent"
         /\ ReplyDelivery(e, r, "answer", ob[e]).text = "answer"
         /\ [ReplyDelivery(e, r, "answer", ob[e]) EXCEPT !.status = "sending"].text = "answer"
<1>1. ob[e] \in Delivery
  OBVIOUS
<1>2. CASE ob[e].status = "absent"
  BY <1>2 DEF ReplyDelivery
<1>3. CASE ob[e].status # "absent"
  BY <1>1, <1>3 DEF ReplyDelivery, Delivery
<1> QED BY <1>2, <1>3

LEMMA AnsweringAnswers ==
  ASSUME TypeOK, TypeOK', Once, crashes' = 0, [Next]_vars, Answers, TurnAnswers
  PROVE  Answers'
<1>1. pc \in Turning
  BY DEF TurnAnswers, Turning
<1>2. PICK e \in Events : e = e0
  BY <1>1, TurnsEvent
<1>3. /\ turns[e] # 0 /\ outbox \in [Events -> Delivery]
      /\ again[e] > 0 \/ (Present(e) => Here.stream = e)
  BY <1>1, <1>2, TurnsEvent
<1>4. CASE Stopped /\ UNCHANGED <<outbox, answered>>
  BY <1>4, AnswersFollow DEF Stopped, MessageStays, TextStays, Present, SendsStay, Turning
<1>5. CASE ~(Stopped /\ UNCHANGED <<outbox, answered>>)
  <2> DEFINE reply == ReplyDelivery(e, Here, "answer", outbox[e])
             sending == [reply EXCEPT !.status = "sending"]
  <2>1. /\ answered' = answered \cup {e} /\ UNCHANGED again
        /\ \/ outbox' = [outbox EXCEPT ![e] = reply] /\ NextEvent
           \/ /\ outbox' = [outbox EXCEPT ![e] = sending]
              /\ Dispatch(e, outbox') /\ Goto("reply")
    BY <1>2, <1>5 DEF TurnAnswers
  <2>2. again[e] > 0 \/ /\ reply.status # "absent" /\ reply.text = "answer"
                        /\ sending.text = "answer"
    BY <1>3, ReplyHasAnswer DEF Present
  <2> HIDE DEF reply, sending
  <2>3. turns'[e] # 0
    BY <1>3, HistoryGrows
  <2>4. CASE outbox' = [outbox EXCEPT ![e] = reply] /\ NextEvent
    <3>1. Settled(e)'
      BY <1>3, <2>1, <2>2, <2>4 DEF Settled, Excused, Present
    <3>2. \A d \in Events : MessageStays(d)
      BY <1>3, <2>1, <2>3, <2>4, <3>1, OthersStay DEF MessageStays
    <3>3. pc' \in {"top", "admit"}
      BY <2>4 DEF NextEvent
    <3> QED BY <3>2, <3>3, AnswersFollow DEF SendsStay, Turning
  <2>5. CASE /\ outbox' = [outbox EXCEPT ![e] = sending]
             /\ Dispatch(e, outbox') /\ Goto("reply")
    <3>1. Excused(e)'
      BY <1>3, <2>1, <2>2, <2>5 DEF Excused, Dispatch
    <3>2. \A d \in Events : MessageStays(d)
      BY <1>3, <2>1, <2>3, <2>5, <3>1, OthersStay DEF MessageStays, Settled
    <3>3. pc' = "reply" /\ e0' = e
      BY <1>2, <2>5 DEF Goto, e0
    <3>4. Excused(e0)'
      BY <3>1, <3>3 DEF Excused
    <3> QED BY <3>2, <3>3, <3>4, AnswersFollow DEF SendsStay, Turning
  <2> QED BY <2>1, <2>4, <2>5
<1> QED BY <1>4, <1>5

(* An operator drops a delivery, and is told so.                           *)
LEMMA DroppingAnswers ==
  ASSUME TypeOK, TypeOK', IInv, IInv', crashes' = 0, [Next]_vars, Answers,
         NEW d \in Events, DropDelivery(d)
  PROVE  Answers'
<1>1. /\ Present(d) /\ UNCHANGED <<answered, task>> /\ d \in dead'
      /\ outbox' = [outbox EXCEPT ![d] = NoDelivery] /\ outbox \in [Events -> Delivery]
  BY DEF DropDelivery, ClientOp, Present, TypeOK, history
<1>2. UNCHANGED <<pc, cur, batch, answered>> /\ e0' = e0
  BY <1>1 DEF task, e0
<1>3. turns'[d] # 0
  BY <1>1, HistoryGrows DEF Answers
<1>4. Excused(d)'
  BY <1>1 DEF Excused
<1>5. \A e \in Events : MessageStays(e)
  BY <1>1, <1>3, <1>4, OthersStay DEF MessageStays, Settled
<1>6. SendsStay
  <2>1. ASSUME pc' = "sending", cur' \in answered' PROVE Excused(cur)'
    <3>1. cur \in Events /\ Excused(cur)
      BY <1>2, <2>1 DEF TypeOK, Answers
    <3> QED BY <1>2, <3>1, HistoryGrows DEF Excused
  <2>2. ASSUME pc' = "reply" PROVE Excused(e0)'
    <3>1. e0 \in Events /\ Excused(e0)
      BY <1>2, <2>2, HeadEvent DEF TypeOK, Answers
    <3> QED BY <1>2, <3>1, HistoryGrows DEF Excused
  <2> QED BY <2>1, <2>2 DEF SendsStay
<1>7. ASSUME pc' \in Turning PROVE FirstTurn'
  <2>1. Present(e0)' => Present(e0)
    BY <1>1, <1>2 DEF Present, NoDelivery
  <2>2. ~AdmitBegin
    BY <1>2, <1>7 DEF AdmitBegin, Admitting, Turning
  <2> QED BY <1>2, <1>7, <2>1, <2>2, TurnGoesOn
<1> QED BY <1>5, <1>6, <1>7, AnswersFollow

LEMMA InitAnswers == Init => Answers
BY DEF Init, Answers, Present, NoDelivery, Turning

LEMMA NextAnswers ==
  ASSUME TypeOK, TypeOK', IInv, IInv', Once, crashes' = 0, [Next]_vars, Answers
  PROVE  Answers'
<1>1. CASE \E d \in Events : SendPending(d)
  BY <1>1, SendingAnswers
<1>2. CASE PendingSent \/ ReplySent
  BY <1>2, SentAnswers
<1>3. CASE AdmitBegin
  BY <1>3, BeginningAnswers
<1>4. CASE FlushFirst \/ FlushEdit
  BY <1>4, FlushAnswers
<1>5. CASE TurnFailed
  BY <1>5, FailureAnswers
<1>6. CASE TurnAnswers
  BY <1>6, AnsweringAnswers
<1>7. CASE \E d \in Events : DropDelivery(d)
  BY <1>7, DroppingAnswers
<1>8. CASE /\ ~PendingSent /\ ~ReplySent /\ ~AdmitBegin /\ ~FlushFirst /\ ~FlushEdit
           /\ ~TurnFailed /\ ~TurnAnswers
           /\ \A d \in Events : ~SendPending(d) /\ ~DropDelivery(d)
  BY <1>8, MostKeepTexts, HistoryGrows, CalmAnswers
<1> QED BY <1>1, <1>2, <1>3, <1>4, <1>5, <1>6, <1>7, <1>8

-----------------------------------------------------------------------------
(* The messages are handled once.                                          *)

Handled == Undisturbed => Once /\ Spent /\ Answers

LEMMA NextHandled ==
  ASSUME TypeOK, TypeOK', IInv, IInv', Handled, [Next]_vars
  PROVE  Handled'
<1> SUFFICES ASSUME Undisturbed'
             PROVE  Once' /\ Spent' /\ Answers'
  BY DEF Handled
<1>1. Undisturbed /\ crashes' = 0
  BY UndisturbedRan, StaysUndisturbed
<1>2. LeaseHasTurn /\ LeaseHasTurn' /\ Once /\ Spent /\ Answers
  BY <1>1 DEF Handled, Undisturbed
<1>3. Once' /\ Spent'
  BY <1>1, <1>2, NextOnce, NextSpent
<1> QED BY <1>1, <1>2, <1>3, NextAnswers

LEMMA InitHandled == Init => Handled
<1>1. Init => Spent
  BY DEF Init, Spent
<1> QED BY <1>1, InitOnce, InitAnswers DEF Handled

LEMMA HandledIsOnce == Handled => HandledOnce
<1> SUFFICES ASSUME Undisturbed, Once, Answers
             PROVE  OneTurnPerMessage /\ AnswerNotLost /\ NoSecondMessage
  BY DEF Handled, HandledOnce
<1>1. OneTurnPerMessage
  BY DEF Once, Accounts, OneTurnPerMessage
<1>2. NoSecondMessage
  BY DEF Once, QueuesSound, Sound, Distinct, NoSecondMessage
<1> QED BY <1>1, <1>2, AnswersKept

(* What the steps of the daemon carry from one state to the next.          *)
LEMMA NextCarries ==
  TypeOK /\ IInv /\ Handled /\ [Next]_vars => (TypeOK /\ IInv /\ Handled)'
BY NextKeepsType, NextKeepsEvents, NextHandled

(* Until the daemon stops, or a lease loses its turn, a message has one    *)
(* turn, and one more for every failure that queued it again, its answer   *)
(* is stored or delivered, and it is never queued twice: whatever fails,   *)
(* is cancelled, dropped or repeated by the provider.                      *)
THEOREM MessagesHandledOnce == Spec => []HandledOnce
BY NextCarries, InitType, InitKeeps, InitHandled, HandledIsOnce, PTL DEF Spec

-----------------------------------------------------------------------------
(* The message of a turn with effects is not queued again, over restarts   *)
(* too.                                                                    *)

(* Queueing a new event leaves the leases alone.                           *)
LEMMA QueueingKeepsLeases ==
  ASSUME TypeOK, Gone, AdmitQueue \/ \E e \in Events : SideEvent(e)
  PROVE  \A s \in Sess : sess'[s].inflight = sess[s].inflight
<1>0. sess \in [Sess -> Session]
  BY DEF TypeOK
<1>1. \A r \in Session, e \in Events : Queue(r, e).inflight = r.inflight
  BY QueueOwns
<1>2. \A s \in Sess : /\ Ensure(sess[s]) \in Session
                      /\ Ensure(sess[s]).inflight = sess[s].inflight
  <2> TAKE s \in Sess
  <2>1. sess[s] \in Session /\ GoneOwnsNothing(sess[s])
    BY <1>0 DEF Gone
  <2> QED BY <2>1, EnsureType DEF Ensure, NoSession, GoneOwnsNothing
<1>3. CASE AdmitQueue
  <2>1. e0 \in Events /\ Chat[e0] \in Sess
    BY <1>3, HeadEvent DEF AdmitQueue, Admitting, TypeOK
  <2>2. UNCHANGED sess \/ sess' = [sess EXCEPT ![Chat[e0]] = Queue(sess[Chat[e0]], e0)]
    BY <1>3 DEF AdmitQueue, e0
  <2>3. Queue(sess[Chat[e0]], e0).inflight = sess[Chat[e0]].inflight
    BY <1>0, <1>1, <2>1
  <2> QED BY <1>0, <2>1, <2>2, <2>3
<1>4. ASSUME NEW e \in Events, SideEvent(e)
      PROVE  \A s \in Sess : sess'[s].inflight = sess[s].inflight
  <2> DEFINE r == Ensure(sess[Chat[e]])
  <2>1. Chat[e] \in Sess
    BY Constants
  <2>2. \/ UNCHANGED sess \/ sess' = [sess EXCEPT ![Chat[e]] = r]
        \/ sess' = [sess EXCEPT ![Chat[e]] = Queue(r, e)]
    BY <1>4 DEF SideEvent
  <2>3. r.inflight = sess[Chat[e]].inflight /\ Queue(r, e).inflight = r.inflight
    BY <1>1, <1>2, <2>1
  <2> HIDE DEF r
  <2> QED BY <1>0, <2>1, <2>2, <2>3
<1> QED BY <1>3, <1>4

(* What each step does to the sessions.                                    *)
LEMMA StepsOfSessions ==
  ASSUME TypeOK, Gone, [Next]_vars
  PROVE  \/ AllEase
         \/ /\ \E e \in Events : /\ TakesIn(Chat[e], e)
                                 /\ AdmitQueue \/ (pc = "turn" /\ ~Known(e))
            /\ \A s \in Sess : sess'[s].inflight = sess[s].inflight
         \/ e0 \in Events /\ Begins(Chat[e0], e0)
         \/ /\ e0 \in Events /\ TakesIn(Chat[e0], e0) /\ Here.phase # "unsafe"
            /\ pc = "failing"
<1>1. CASE \/ MutatingTool \/ ToolPush \/ ToolPushed \/ FlushFirst \/ TurnCancelled
           \/ TurnAnswers \/ Settle
  BY <1>1, TurnStepsEase
<1>2. CASE Clients
  BY <1>2, ClientsEase
<1>3. CASE Environment
  <2>1. CASE Restart
    BY <2>1, SameEases DEF Restart, store
  <2> QED BY <1>3, <2>1, EnvironmentEases DEF Environment
<1>4. CASE AdmitQueue
  <2>1. e0 \in Events
    BY <1>4, HeadEvent DEF AdmitQueue, Admitting, TypeOK
  <2> QED BY <1>4, <2>1, AdmitQueueTakes, QueueingKeepsLeases
<1>5. CASE AdmitBegin
  <2>1. e0 \in Events
    BY <1>5, HeadEvent DEF AdmitBegin, Admitting, TypeOK
  <2> QED BY <1>5, <2>1, AdmitBeginBegins
<1>6. ASSUME NEW e \in Events, SideEvent(e)
      PROVE  \/ AllEase
             \/ /\ TakesIn(Chat[e], e) /\ pc = "turn" /\ ~Known(e)
                /\ \A s \in Sess : sess'[s].inflight = sess[s].inflight
  <2>1. pc = "turn"
    BY <1>6 DEF SideEvent
  <2> QED BY <1>6, <2>1, SideEventTakes, QueueingKeepsLeases
<1>7. CASE TurnFailed
  <2>1. e0 \in Events /\ Here = sess[Chat[e0]]
    BY <1>7, HeadEvent DEF TurnFailed, TypeOK, Here
  <2>2. pc = "failing"
    BY <1>7 DEF TurnFailed
  <2> QED BY <1>7, <2>1, <2>2, TurnFailedTakes DEF TakesIn
<1>8. CASE \/ \E d \in Events : SendPending(d)
           \/ PendingSent
           \/ \E s \in Sess : PickQueued(s)
           \/ PickDeferred
           \/ \E first \in Events : Poll(first)
           \/ Reject \/ Discard \/ AdmitDuplicate \/ Defer \/ Commit \/ StartTurn
           \/ FlushEdit \/ Flushed \/ SideDefer \/ SideCommit \/ Acknowledge \/ TurnFails
           \/ ReplySent \/ UNCHANGED vars
  BY <1>8, StillStepsEase
<1>9. CASE NoRoom
  BY <1>9, NoRoomBegins, SameEases
<1> QED BY <1>1, <1>2, <1>3, <1>4, <1>5, <1>6, <1>7, <1>8, <1>9 DEF Next, Bridge

LEMMA StepsRequeueOnlySafe ==
  ASSUME TypeOK, TypeOK', Gone, [Next]_vars
  PROVE  RequeuesOnlySafe
<1> SUFFICES ASSUME NEW s \in Sess, sess[s].phase = "unsafe",
                    sess'[s].inflight # sess[s].inflight,
                    ~InQueue(sess[s], sess[s].inflight)
             PROVE  ~InQueue(sess'[s], sess[s].inflight)
  BY DEF RequeuesOnlySafe
<1>0. sess \in [Sess -> Session] /\ sess[s] \in Session
  BY DEF TypeOK
<1>1. CASE AllEase
  BY <1>1, EmptyOwnsNothing DEF AllEase, Eases, InQueue
<1>2. ASSUME e0 \in Events, Begins(Chat[e0], e0)
      PROVE  ~InQueue(sess'[s], sess[s].inflight)
  <2>1. PICK r \in Session : /\ Eases(sess[Chat[e0]], r)
                             /\ sess' = [sess EXCEPT ![Chat[e0]] = Begin(r, e0)]
    BY <1>2 DEF Begins
  <2>2. s = Chat[e0] /\ sess'[s] = Begin(r, e0)
    BY <1>0, <2>1
  <2>3. Begin(r, e0).queued = Without(r.queued, e0) /\ r.queued \in Seq(Events)
    BY DEF Begin, Session
  <2>4. ~InQueue(r, sess[s].inflight)
    BY <2>1, <2>2, EmptyOwnsNothing DEF Eases, InQueue
  <2>5. ~Holds(r.queued, sess[s].inflight)
    BY <2>4 DEF InQueue, Holds
  <2>6. ~Holds(Without(r.queued, e0), sess[s].inflight)
    BY <2>3, <2>5, WithoutKeeps
  <2> QED BY <2>2, <2>3, <2>6 DEF InQueue, Holds
<1>3. ASSUME e0 \in Events, TakesIn(Chat[e0], e0), Here.phase # "unsafe"
      PROVE  ~InQueue(sess'[s], sess[s].inflight)
  <2>1. s # Chat[e0]
    BY <1>3 DEF Here, e0
  <2> QED BY <1>0, <1>3, <2>1 DEF TakesIn
<1> QED BY <1>1, <1>2, <1>3, StepsOfSessions

(* A turn that ran a mutating tool, or streamed, is over: its message is   *)
(* not put back into the queue, by a failure or by a restart, and until    *)
(* the daemon stops or a lease loses its turn it never has another turn.   *)
THEOREM UnsafeStaysOver == Spec => UnsafeNeverReplayed
<1>1. TypeOK /\ IInv /\ Handled /\ [Next]_vars
        => RequeuesOnlySafe /\ (Undisturbed => KeepsTurns)
  <2> SUFFICES ASSUME TypeOK, IInv, Handled, [Next]_vars
               PROVE  RequeuesOnlySafe /\ (Undisturbed => KeepsTurns)
    OBVIOUS
  <2>1. TypeOK' /\ IInv' /\ Gone
    BY NextKeepsType, NextKeepsEvents DEF IInv, StoreInv
  <2>2. RequeuesOnlySafe
    BY <2>1, StepsRequeueOnlySafe
  <2>3. ASSUME Undisturbed PROVE KeepsTurns
    <3>1. crashes = 0 /\ pc # "down"
      BY <2>3, UndisturbedRuns
    <3>2. crashes' = 0
      BY <3>1, OnlyRestartCounts DEF Restart
    <3> QED BY <2>1, <2>3, <3>2, NextSpent DEF Handled
  <2> QED BY <2>2, <2>3
<1> QED BY <1>1, NextCarries, InitType, InitKeeps, InitHandled, PTL DEF Spec, UnsafeNeverReplayed

-----------------------------------------------------------------------------
(* Where the message of a cancelled turn may get back into the queue.       *)

LEMMA OnlyFailureRequeues ==
  ASSUME TypeOK, Gone, Handled, [Next]_vars, Undisturbed, pc # "failing"
  PROVE  CancelledNotRequeued
<1> SUFFICES ASSUME NEW s \in Sess, sess[s].status = "cancelled", sess[s].inflight # NoEvent
             PROVE  ~InQueue(sess'[s], sess[s].inflight)
  BY DEF CancelledNotRequeued
<1> DEFINE e1 == sess[s].inflight
<1>0. sess \in [Sess -> Session] /\ sess[s] \in Session
  BY DEF TypeOK
<1>1. ~InQueue(sess[s], e1) /\ Once
  BY DEF Handled, Once, QueuesSound, Sound
<1>a. pc \in Turning /\ sess[s].inflight = e0
  BY UndisturbedRuns DEF Undisturbed, LeaseHasTurn, InTurn
<1> HIDE DEF e1
<1>2. CASE AllEase
  BY <1>1, <1>2, EmptyOwnsNothing DEF AllEase, Eases, InQueue, e1
<1>3. ASSUME NEW e \in Events, TakesIn(Chat[e], e), AdmitQueue \/ (pc = "turn" /\ ~Known(e)),
             \A c \in Sess : sess'[c].inflight = sess[c].inflight
      PROVE  ~InQueue(sess'[s], e1)
  <2>1. ~Known(e) /\ Known(e0)
    BY <1>1, <1>3, <1>a DEF AdmitQueue, Admitting, Turning, Once, AtHand
  <2>2. sess[Chat[e]].inflight # e
    <3>1. Chat[e] \in Sess /\ e # NoEvent
      BY Constants
    <3> QED BY <2>1, <3>1, UndisturbedRuns DEF Undisturbed, LeaseHasTurn, InTurn
  <2>3. QueuesSound'
    BY <1>1, <1>3, <2>2, TakenIn DEF Once
  <2> QED BY <1>3, <2>3 DEF QueuesSound, Sound, e1
<1>4. ASSUME e0 \in Events, Begins(Chat[e0], e0)
      PROVE  ~InQueue(sess'[s], e1)
  <2>1. PICK r \in Session : /\ Eases(sess[Chat[e0]], r)
                             /\ sess' = [sess EXCEPT ![Chat[e0]] = Begin(r, e0)]
    BY <1>4 DEF Begins
  <2>2. CASE s # Chat[e0]
    BY <1>0, <1>1, <2>1, <2>2
  <2>3. CASE s = Chat[e0]
    <3>1. sess'[s] = Begin(r, e0)
      BY <1>0, <2>1, <2>3
    <3>2. Begin(r, e0).queued = Without(r.queued, e0) /\ r.queued \in Seq(Events)
      BY DEF Begin, Session
    <3>3. ~Holds(r.queued, e1)
      BY <1>1, <2>1, <2>3, EmptyOwnsNothing DEF Eases, InQueue, Holds
    <3>4. ~Holds(Without(r.queued, e0), e1)
      BY <3>2, <3>3, WithoutKeeps
    <3> QED BY <3>1, <3>2, <3>4 DEF InQueue, Holds
  <2> QED BY <2>2, <2>3
<1> QED BY <1>2, <1>3, <1>4, StepsOfSessions DEF e1

(* Until the daemon stops or a lease loses its turn, the second lock       *)
(* region of the failure path is the only step of the code that puts the   *)
(* message of a cancelled turn back into the queue: no poll, no request    *)
(* and no other end does.                                                  *)
THEOREM OnlyFailureUndoesCancel ==
  Spec => [][Undisturbed /\ pc # "failing" => CancelledNotRequeued]_vars
<1>1. TypeOK /\ IInv /\ Handled /\ [Next]_vars
        => (Undisturbed /\ pc # "failing" => CancelledNotRequeued)
  BY OnlyFailureRequeues DEF IInv, StoreInv
<1> QED BY <1>1, NextCarries, InitType, InitKeeps, InitHandled, PTL DEF Spec

LEMMA OnlyFailuresFail ==
  ASSUME [Next]_vars, pc # "failing", ~TurnFails
  PROVE  pc' # "failing"
<1> USE DEF task, Goto, NextEvent, BreakBatch, BackToTurn, Stopped
<1>1. CASE \/ \E d \in Events : SendPending(d)
           \/ PendingSent
           \/ \E s \in Sess : PickQueued(s)
           \/ PickDeferred
           \/ \E first \in Events : Poll(first)
           \/ Reject \/ Discard \/ NoRoom \/ AdmitDuplicate \/ AdmitQueue \/ AdmitBegin
           \/ Defer \/ Commit \/ StartTurn
  BY <1>1 DEF SendPending, PendingSent, PickQueued, PickDeferred, Poll, Reject, Discard, NoRoom,
              AdmitDuplicate, AdmitQueue, AdmitBegin, Defer, Commit, StartTurn,
              SendAccepted, SendFailed
<1>2. CASE \/ MutatingTool \/ ToolPush \/ ToolPushed
           \/ FlushFirst \/ FlushEdit \/ Flushed
           \/ \E e \in Events : SideEvent(e)
           \/ SideDefer \/ SideCommit
           \/ TurnCancelled \/ Acknowledge \/ TurnFailed \/ TurnAnswers
           \/ ReplySent \/ Settle
  BY <1>2 DEF MutatingTool, ToolPush, ToolPushed, FlushFirst, FlushEdit, Flushed, SideEvent,
              SideDefer, SideCommit, TurnCancelled, Acknowledge, TurnFailed, TurnAnswers,
              ReplySent, Settle, SendAccepted, SendFailed
<1>3. CASE Clients \/ UNCHANGED vars
  BY <1>3 DEF Clients, CancelSession, RequestCancel, CancelTimesOut, AppendByClient,
              DeleteSession, TuiReserve, TuiRelease, RetryDelivery, DropDelivery, ClientOp, vars
<1>4. CASE Environment
  BY <1>4 DEF Environment, Arrive, Halt, Restart, ReservationExpires
<1> QED BY <1>1, <1>2, <1>3, <1>4 DEF Next, Bridge

(* As long as no turn fails, the daemon runs and every lease has its turn,  *)
(* a cancellation is final, as the document has it.                         *)
THEOREM CancelFinalWithoutFailure ==
  Spec /\ [](fails = 0 /\ Undisturbed) => CancelIsFinal
<1>1. Init => pc # "failing"
  BY DEF Init
<1>2. fails = 0 /\ (fails = 0)' /\ pc # "failing" /\ [Next]_vars => (pc # "failing")'
  <2>1. fails = 0 /\ fails' = 0 => ~TurnFails
    BY DEF TurnFails
  <2> QED BY <2>1, OnlyFailuresFail
<1> QED BY <1>1, <1>2, OnlyFailureUndoesCancel, PTL DEF Spec, CancelIsFinal

-----------------------------------------------------------------------------
(* What the promise of Outbox is worth.                                     *)

(* Promise!Allowed, after n stops.                                         *)
AllowedAfter(b, n) ==
  b.posted + (IF b.state \in {"due", "cut"} THEN b.new ELSE 0) <= b.granted + n

LEMMA StepKeepsAllowed ==
  ASSUME NEW n \in Nat, NEW b \in Promise!Entry, NEW c, AllowedAfter(b, n), Promise!Step(b, c)
  PROVE  c \in Promise!Entry /\ AllowedAfter(c, n)
<1> USE DEF Promise!Entry, AllowedAfter, Promise!At
<1>0. /\ b.posted \in Nat /\ b.granted \in Nat /\ b.new \in 0..1
      /\ b.posted <= b.granted + n
      /\ b.state \in {"due", "cut"} => b.posted + b.new <= b.granted + n
  OBVIOUS
<1>1. CASE Promise!Create(b, c)
  BY <1>0, <1>1 DEF Promise!Create
<1>2. CASE Promise!Send(b, c)
  BY <1>0, <1>2 DEF Promise!Send
<1>3. CASE Promise!Edit(b, c)
  BY <1>0, <1>3 DEF Promise!Edit
<1>4. CASE Promise!Opened(b, c)
  BY <1>0, <1>4 DEF Promise!Opened
<1>5. CASE Promise!InDoubt(b, c)
  BY <1>0, <1>5 DEF Promise!InDoubt
<1>6. CASE Promise!Retry(b, c)
  BY <1>0, <1>6 DEF Promise!Retry
<1>7. CASE Promise!Remove(b, c)
  BY <1>0, <1>7 DEF Promise!Remove
<1>8. CASE Promise!Resend(b, c)
  BY <1>0, <1>8 DEF Promise!Resend
<1> QED BY <1>1, <1>2, <1>3, <1>4, <1>5, <1>6, <1>7, <1>8 DEF Promise!Step

(* What a stop cuts off may be posted once more.                           *)
LEMMA CutOffKeepsAllowed ==
  ASSUME NEW n \in Nat, NEW b \in Promise!Entry, AllowedAfter(b, n)
  PROVE  Promise!CutOff(b) \in Promise!Entry /\ AllowedAfter(Promise!CutOff(b), n + 1)
<1>1. /\ b.posted \in Nat /\ b.granted \in Nat /\ b.new \in 0..1
      /\ b.posted <= b.granted + n
      /\ b.state \in {"due", "cut"} => b.posted + b.new <= b.granted + n
  BY DEF Promise!Entry, AllowedAfter
<1>2. CASE b.state = "out"
  <2> DEFINE c == Promise!CutOff(b)
  <2>1. c = [b EXCEPT !.state = "cut"]
    BY <1>2 DEF Promise!CutOff
  <2>2. /\ c \in Promise!Entry /\ c.state = "cut" /\ c.new = b.new
        /\ c.posted = b.posted /\ c.granted = b.granted
    BY <2>1 DEF Promise!Entry
  <2> HIDE DEF c
  <2>3. c.posted + c.new <= c.granted + (n + 1)
    BY <1>1, <2>2
  <2> QED BY <2>2, <2>3 DEF AllowedAfter, c
<1>3. CASE b.state # "out"
  <2>1. Promise!CutOff(b) = b
    BY <1>3 DEF Promise!CutOff
  <2> QED BY <1>1, <2>1 DEF AllowedAfter
<1> QED BY <1>2, <1>3

(* Whatever the daemon does, an outbox that keeps the promise never posts  *)
(* a delivery more often than it was created or retried by an operator,    *)
(* and once more for every stop of the daemon.                             *)
THEOREM PromiseNeverDuplicates == Promise!Spec => []Promise!NoDuplicatePost
<1>1. Promise!Init => Promise!Inv
  BY DEF Promise!Init, Promise!Inv, Promise!TypeOK, Promise!Entry, Promise!Allowed, Promise!At
<1>2. Promise!Inv /\ [Promise!Next]_<<Box, Stops>> => Promise!Inv'
  <2> SUFFICES ASSUME Promise!Inv, [Promise!Next]_<<Box, Stops>> PROVE Promise!Inv'
    OBVIOUS
  <2>0. /\ Stops \in Nat /\ Box \in [Events -> Promise!Entry]
        /\ \A d \in Events : AllowedAfter(Box[d], Stops)
    BY DEF Promise!Inv, Promise!TypeOK, Promise!Allowed, AllowedAfter
  <2>a. ASSUME Stops' \in Nat, Box' \in [Events -> Promise!Entry],
               \A d \in Events : AllowedAfter(Box'[d], Stops')
        PROVE  Promise!Inv'
    BY <2>a DEF Promise!Inv, Promise!TypeOK, Promise!Allowed, AllowedAfter
  <2>1. CASE Promise!Moves
    <3>1. Box' = [d \in Events |-> Box'[d]] /\ Stops' = Stops
      BY <2>1 DEF Promise!Moves
    <3>2. \A d \in Events : Box'[d] \in Promise!Entry /\ AllowedAfter(Box'[d], Stops)
      BY <2>0, <2>1, StepKeepsAllowed DEF Promise!Moves
    <3>3. Box' \in [Events -> Promise!Entry]
      BY <3>1, <3>2
    <3> QED BY <2>0, <2>a, <3>1, <3>2, <3>3
  <2>2. CASE Promise!Stop
    <3>1. Stops' = Stops + 1 /\ Box' = [d \in Events |-> Promise!CutOff(Box[d])]
      BY <2>2 DEF Promise!Stop
    <3>2. \A d \in Events : /\ Promise!CutOff(Box[d]) \in Promise!Entry
                            /\ AllowedAfter(Promise!CutOff(Box[d]), Stops + 1)
      BY <2>0, CutOffKeepsAllowed
    <3> QED BY <2>0, <2>a, <3>1, <3>2
  <2>3. CASE UNCHANGED <<Box, Stops>>
    BY <2>0, <2>3, <2>a
  <2> QED BY <2>1, <2>2, <2>3 DEF Promise!Next
<1>3. Promise!Inv => Promise!NoDuplicatePost
  <2> SUFFICES ASSUME Promise!Inv, NEW d \in Events
               PROVE  Box[d].posted <= Box[d].granted + Stops
    BY DEF Promise!NoDuplicatePost
  <2>1. Box[d] \in Promise!Entry /\ AllowedAfter(Box[d], Stops) /\ Stops \in Nat
    BY DEF Promise!Inv, Promise!TypeOK, Promise!Allowed, AllowedAfter
  <2> QED BY <2>1 DEF Promise!Entry, AllowedAfter
<1> QED BY <1>1, <1>2, <1>3, PTL DEF Promise!Spec

-----------------------------------------------------------------------------
(* The bridge keeps it.                                                     *)

Inv == TypeOK /\ SenderKnowsDelivery

(* The deliveries that a step changes each take a step of the promise, or  *)
(* the daemon stops and cuts the one off that was being sent.              *)
Steps ==
  /\ pc' = "down" <=> pc = "down"
  /\ \A d \in Events : Box'[d] = Box[d] \/ Promise!Step(Box[d], Box'[d])

Cuts ==
  /\ pc # "down" /\ pc' = "down"
  /\ \A d \in Events : Box'[d] = Promise!CutOff(Box[d])

LEMMA StepsArePromised ==
  ASSUME Steps \/ Cuts, crashes' = crashes, crashes \in Nat
  PROVE  [Promise!Next]_<<Box, Stops>>
<1>1. Box' = [d \in Events |-> Box'[d]]
  BY DEF Box
<1>2. CASE Steps
  <2>1. Stops' = Stops
    BY <1>2 DEF Steps, Stops
  <2> QED BY <1>1, <1>2, <2>1 DEF Steps, Promise!Next, Promise!Moves
<1>3. CASE Cuts
  <2>1. Stops' = Stops + 1
    BY <1>3 DEF Cuts, Stops
  <2>2. Box' = [d \in Events |-> Promise!CutOff(Box[d])]
    BY <1>3 DEF Cuts, Box
  <2> QED BY <2>1, <2>2 DEF Promise!Next, Promise!Stop
<1> QED BY <1>2, <1>3

-----------------------------------------------------------------------------
(* Steps that change no delivery.                                          *)

Busy == {"sending", "stream", "reply"}

Open == pc \in Turning \ {"begun", "stream"} /\ msgid /\ ~disabled

(* The task keeps its place, stops, or goes on to a place where it sends   *)
(* nothing and streams only what it streamed before.                       *)
QuietTask ==
  \/ UNCHANGED task
  \/ pc # "down" /\ pc' = "down"
  \/ /\ pc # "down" /\ {pc, pc'} \cap Busy = {}
     /\ Open' => Open /\ batch' = batch

StreamsStay == \A s \in Sess : StreamHasTurn(sess'[s])

LEMMA StreamsNow ==
  ASSUME Inv
  PROVE  \A s \in Sess : sess[s] \in Session /\ StreamHasTurn(sess[s])
  BY DEF Inv, TypeOK, SenderKnowsDelivery, StreamHasTurn

LEMMA QuietStep ==
  ASSUME Inv, TypeOK', UNCHANGED <<outbox, posted, granted>>, QuietTask, StreamsStay
  PROVE  Inv' /\ (Steps \/ Cuts)
<1>1. Steps \/ Cuts
  <2>1. CASE pc # "down" /\ pc' = "down"
    <3>1. \A d \in Events : ~SentNow(d)'
      BY <2>1 DEF SentNow
    <3>2. ASSUME NEW d \in Events PROVE Box'[d] = Promise!CutOff(Box[d])
      <4>1. BoxState(d)' = IF BoxState(d) = "out" THEN "cut" ELSE BoxState(d)
        BY <3>1 DEF BoxState
      <4> QED BY <4>1 DEF Box, Promise!CutOff
    <3> QED BY <2>1, <3>2 DEF Cuts
  <2>2. CASE ~(pc # "down" /\ pc' = "down")
    <3>1. /\ pc' = "down" <=> pc = "down"
          /\ \A d \in Events : SentNow(d)' <=> SentNow(d)
      BY <2>2 DEF QuietTask, SentNow, Busy, task, e0
    <3>2. \A d \in Events : BoxState(d)' = BoxState(d)
      BY <3>1 DEF BoxState
    <3> QED BY <3>1, <3>2 DEF Steps, Box
  <2> QED BY <2>1, <2>2
<1>3. SenderKnowsDelivery'
  <2>1. \A d \in Events : /\ (outbox[d].status = "absent" => ~outbox[d].edit)'
                          /\ (outbox[d].status = "streaming" => outbox[d].edit)'
    BY DEF Inv, SenderKnowsDelivery
  <2>2. \A s \in Sess : (sess[s].inflight = NoEvent => sess[s].stream = NoEvent)'
    BY DEF StreamsStay, StreamHasTurn
  <2>3. CASE UNCHANGED task
    BY <2>1, <2>2, <2>3 DEF Inv, SenderKnowsDelivery, task, e0
  <2>4. CASE pc' = "down"
    BY <2>1, <2>2, <2>4 DEF SenderKnowsDelivery, Turning
  <2>5. CASE /\ pc # "down" /\ {pc, pc'} \cap Busy = {}
             /\ Open' => Open /\ batch' = batch
    BY <2>1, <2>2, <2>5 DEF Inv, SenderKnowsDelivery, Open, Busy, e0
  <2> QED BY <2>3, <2>4, <2>5 DEF QuietTask
<1> QED BY <1>1, <1>3 DEF Inv

LEMMA QuietNextEvent ==
  ASSUME NextEvent \/ BreakBatch, pc # "down", pc \notin Busy
  PROVE  QuietTask
  BY DEF NextEvent, BreakBatch, QuietTask, Busy, Open, Turning

LEMMA QuietBridge ==
  ASSUME Inv, TypeOK',
         \/ \E s \in Sess : PickQueued(s)
         \/ PickDeferred
         \/ \E first \in Events : Poll(first)
         \/ Reject \/ Discard \/ NoRoom \/ AdmitDuplicate \/ AdmitQueue \/ AdmitBegin
         \/ Defer \/ Commit \/ StartTurn
         \/ MutatingTool \/ ToolPush \/ ToolPushed
         \/ \E e \in Events : SideEvent(e)
         \/ SideDefer \/ SideCommit \/ Acknowledge \/ TurnFails \/ Settle
  PROVE  Inv' /\ (Steps \/ Cuts)
<1> USE DEF store, history, Busy
<1>0. TypeOK
  BY DEF Inv
<1>1. ASSUME \/ \E s \in Sess : PickQueued(s)
             \/ PickDeferred
             \/ \E first \in Events : Poll(first)
      PROVE  Inv' /\ (Steps \/ Cuts)
  <2>1. UNCHANGED <<outbox, posted, granted>> /\ sess' = sess
    BY <1>1 DEF PickQueued, PickDeferred, Poll
  <2>2. QuietTask
    BY <1>1 DEF PickQueued, PickDeferred, Poll, QuietTask, Open, Turning
  <2> QED BY <2>1, <2>2, StreamsNow, QuietStep DEF StreamsStay
<1>2. ASSUME Reject \/ Discard \/ AdmitDuplicate \/ TurnFails
      PROVE  Inv' /\ (Steps \/ Cuts)
  <2>1. UNCHANGED <<outbox, posted, granted>> /\ sess' = sess
    BY <1>2 DEF Reject, Discard, AdmitDuplicate, TurnFails
  <2>2. QuietTask
    BY <1>2 DEF Reject, Discard, AdmitDuplicate, Admitting, TurnFails, Goto,
                QuietTask, Open, Turning
  <2> QED BY <2>1, <2>2, StreamsNow, QuietStep DEF StreamsStay
<1>3. ASSUME Defer \/ Commit \/ StartTurn \/ SideDefer \/ SideCommit \/ Acknowledge
      PROVE  Inv' /\ (Steps \/ Cuts)
  <2>1. UNCHANGED <<outbox, posted, granted>> /\ sess' = sess
    BY <1>3 DEF Defer, Commit, StartTurn, SideDefer, SideCommit, Acknowledge
  <2>2. QuietTask
    <3>1. CASE NextEvent \/ BreakBatch
      BY <1>3, <3>1, QuietNextEvent
         DEF Defer, Commit, StartTurn, SideDefer, SideCommit, Acknowledge
    <3>2. CASE ~(NextEvent \/ BreakBatch)
      BY <1>3, <3>2 DEF Defer, Commit, StartTurn, SideDefer, SideCommit, Acknowledge, Goto,
                        BackToTurn, QuietTask, Open, Turning
    <3> QED BY <3>1, <3>2
  <2> QED BY <2>1, <2>2, StreamsNow, QuietStep DEF StreamsStay
<1>4. ASSUME \/ NoRoom \/ AdmitQueue \/ AdmitBegin
             \/ MutatingTool \/ ToolPush \/ ToolPushed \/ Settle
      PROVE  Inv' /\ (Steps \/ Cuts)
  <2>1. UNCHANGED <<outbox, posted, granted>>
    BY <1>4 DEF NoRoom, AdmitQueue, AdmitBegin, MutatingTool, ToolPush, ToolPushed, Settle
  <2>2. QuietTask
    <3>1. CASE NextEvent \/ BreakBatch
      BY <1>4, <3>1, QuietNextEvent
         DEF NoRoom, AdmitQueue, AdmitBegin, Admitting, MutatingTool, ToolPush, ToolPushed, Settle
    <3>2. CASE ~(NextEvent \/ BreakBatch)
      BY <1>4, <3>2 DEF NoRoom, AdmitQueue, AdmitBegin, Admitting, MutatingTool, ToolPush,
                        ToolPushed, Settle, Goto, QuietTask, Open, Turning, task
    <3> QED BY <3>1, <3>2
  <2>3. batch # <<>>
    BY <1>0, <1>4 DEF TypeOK, NoRoom, AdmitQueue, AdmitBegin, Admitting, MutatingTool, ToolPush,
                      ToolPushed, Settle
  <2>4. Head(batch) \in Events /\ Here \in Session /\ StreamHasTurn(Here)
    BY <1>0, <2>3, HeadEvent, StreamsNow DEF Here
  <2>5. Ensure(Here) \in Session /\ StreamHasTurn(Ensure(Here))
    BY <2>4, EnsureType, StreamsHaveTurns
  <2>6. PICK r : StreamHasTurn(r) /\ sess' = [sess EXCEPT ![Chat[e0]] = r]
    <3>1. CASE AdmitQueue
      <4>1. StreamHasTurn(Queue(Here, e0))
        BY <2>4, StreamsHaveTurns DEF e0
      <4>2. CASE UNCHANGED sess
        BY <1>0, <2>4, <4>2 DEF TypeOK, Here
      <4>3. CASE sess' = [sess EXCEPT ![Chat[e0]] = Queue(Here, e0)]
        BY <4>1, <4>3
      <4> QED BY <3>1, <4>2, <4>3 DEF AdmitQueue, e0, Here
    <3>2. CASE AdmitBegin
      <4>1. StreamHasTurn(Begin(Ensure(Here), e0))
        BY <2>4, <2>5, StreamsHaveTurns DEF e0
      <4>2. \/ sess' = [sess EXCEPT ![Chat[e0]] = Ensure(Here)]
            \/ sess' = [sess EXCEPT ![Chat[e0]] = Begin(Ensure(Here), e0)]
        BY <3>2 DEF AdmitBegin, BeginTurn, e0, Here
      <4> QED BY <2>5, <4>1, <4>2
    <3>3. CASE MutatingTool
      <4>1. sess' = [sess EXCEPT ![Chat[e0]] = [Here EXCEPT !.phase = "unsafe"]]
        BY <3>3 DEF MutatingTool, Here
      <4>2. StreamHasTurn([Here EXCEPT !.phase = "unsafe"])
        BY <2>4 DEF StreamHasTurn, Session
      <4> QED BY <4>1, <4>2
    <3>4. CASE ToolPush
      BY <2>4, <3>4, StreamsHaveTurns DEF ToolPush
    <3>5. CASE ToolPushed
      BY <2>4, <3>5, StreamsHaveTurns DEF ToolPushed, Statuses
    <3>6. CASE Settle
      <4>1. StreamHasTurn(SetStatus(Here, "idle"))
        BY <2>4, StreamsHaveTurns DEF Statuses
      <4>2. \/ sess' = [sess EXCEPT ![Chat[e0]] = Here]
            \/ sess' = [sess EXCEPT ![Chat[e0]] = SetStatus(Here, "idle")]
        BY <3>6 DEF Settle, Here
      <4> QED BY <2>4, <4>1, <4>2
    <3>7. CASE NoRoom
      <4>1. StreamHasTurn(Begin(Ensure(NoSession), e0))
        <5>1. Begin(Ensure(NoSession), e0).stream = NoEvent
          BY DEF Begin, Ensure, NoSession
        <5> QED BY <5>1 DEF StreamHasTurn
      <4>2. \/ sess' = [sess EXCEPT ![Chat[e0]] = Here]
            \/ sess' = [sess EXCEPT ![Chat[e0]] = Begin(Ensure(NoSession), e0)]
        BY <1>0, <2>4, <3>7 DEF NoRoom, BeginTurn, e0, Here, TypeOK
      <4> QED BY <2>4, <4>1, <4>2
    <3> QED BY <1>4, <3>1, <3>2, <3>3, <3>4, <3>5, <3>6, <3>7
  <2>7. StreamsStay
    BY <1>0, <2>6, StreamsNow DEF StreamsStay, TypeOK
  <2> QED BY <2>1, <2>2, <2>7, QuietStep
<1>5. ASSUME NEW e \in Events, SideEvent(e)
      PROVE  Inv' /\ (Steps \/ Cuts)
  <2>1. UNCHANGED <<outbox, posted, granted>>
    BY <1>5 DEF SideEvent
  <2>2. QuietTask
    BY <1>5 DEF SideEvent, QuietTask, Open, Turning
  <2> DEFINE r == Ensure(sess[Chat[e]])
  <2>3. r \in Session /\ StreamHasTurn(r) /\ StreamHasTurn(Queue(r, e))
    <3>1. sess[Chat[e]] \in Session /\ StreamHasTurn(sess[Chat[e]])
      BY Constants, StreamsNow
    <3>2. r \in Session /\ StreamHasTurn(r)
      BY <3>1, EnsureType, StreamsHaveTurns
    <3> HIDE DEF r
    <3> QED BY <3>2, StreamsHaveTurns
  <2>4. \/ sess' = sess \/ sess' = [sess EXCEPT ![Chat[e]] = r]
        \/ sess' = [sess EXCEPT ![Chat[e]] = Queue(r, e)]
    BY <1>5 DEF SideEvent
  <2>5. StreamsStay
    <3> HIDE DEF r
    <3> QED BY <1>0, <2>3, <2>4, StreamsNow DEF StreamsStay, TypeOK
  <2> QED BY <2>1, <2>2, <2>5, QuietStep
<1> QED BY <1>1, <1>2, <1>3, <1>4, <1>5

LEMMA QuietOthers ==
  ASSUME Inv, TypeOK',
         \/ \E s \in Sess : \/ CancelSession(s) \/ RequestCancel(s) \/ CancelTimesOut(s)
                            \/ AppendByClient(s) \/ DeleteSession(s)
                            \/ TuiReserve(s) \/ TuiRelease(s) \/ ReservationExpires(s)
         \/ Arrive \/ Halt(TRUE) \/ Halt(FALSE)
  PROVE  Inv' /\ (Steps \/ Cuts)
<1> USE DEF store, history
<1>0. /\ sess \in [Sess -> Session] /\ outbox \in [Events -> Delivery]
      /\ \A s \in Sess : sess[s] \in Session /\ StreamHasTurn(sess[s])
      /\ \A s \in Sess : Sessions[s] \in Session /\ StreamHasTurn(Sessions[s])
      /\ Sessions \in [Sess -> Session]
  <2>1. \A s \in Sess : sess[s] \in Session /\ StreamHasTurn(sess[s])
    BY StreamsNow
  <2>2. \A s \in Sess : Recovered(sess[s]) \in Session /\ StreamHasTurn(Recovered(sess[s]))
    BY <2>1, RecoveredType, StreamsHaveTurns
  <2> QED BY <2>1, <2>2 DEF Inv, TypeOK, Sessions
<1>1. ASSUME NEW s \in Sess, CancelSession(s)
      PROVE  Inv' /\ (Steps \/ Cuts)
  <2>1. ClearDelivery(outbox, sess[s]) = outbox \/ sess[s].inflight # NoEvent
    <3>1. CASE sess[s].inflight = NoEvent
      <4>1. \A d \in Events : d # sess[s].stream
        BY <1>0, <3>1, Constants DEF StreamHasTurn
      <4> QED BY <1>0, <4>1 DEF ClearDelivery
    <3> QED BY <3>1
  <2>2. UNCHANGED <<outbox, posted, granted>> /\ UNCHANGED task
    BY <1>1, <2>1 DEF CancelSession
  <2>3. StreamHasTurn(Cancel(sess[s]))
    BY <1>0, StreamsHaveTurns
  <2>4. StreamsStay
    BY <1>0, <1>1, <2>3 DEF StreamsStay, CancelSession
  <2> QED BY <2>2, <2>4, QuietStep DEF QuietTask
<1>2. ASSUME NEW s \in Sess, RequestCancel(s) \/ CancelTimesOut(s)
      PROVE  Inv' /\ (Steps \/ Cuts)
  <2>1. UNCHANGED <<outbox, posted, granted, sess>> /\ UNCHANGED task
    BY <1>2 DEF RequestCancel, CancelTimesOut
  <2> QED BY <1>0, <2>1, QuietStep DEF QuietTask, StreamsStay
<1>3. ASSUME NEW s \in Sess, AppendByClient(s) \/ DeleteSession(s) \/ TuiReserve(s) \/ TuiRelease(s)
      PROVE  Inv' /\ (Steps \/ Cuts)
  <2>1. UNCHANGED <<outbox, posted, granted>> /\ UNCHANGED task
    BY <1>3 DEF AppendByClient, DeleteSession, TuiReserve, TuiRelease, ClientOp
  <2>2. PICK r : StreamHasTurn(r) /\ sess' = [Sessions EXCEPT ![s] = r]
    <3>1. /\ StreamHasTurn(AppendMessage(Sessions[s])) /\ StreamHasTurn(NoSession)
          /\ StreamHasTurn(Reserve(Sessions[s]))
          /\ StreamHasTurn(SetStatus(Sessions[s], "idle"))
      BY <1>0, StreamsHaveTurns DEF Statuses
    <3>2. \/ sess' = [Sessions EXCEPT ![s] = AppendMessage(Sessions[s])]
          \/ sess' = [Sessions EXCEPT ![s] = NoSession]
          \/ sess' = [Sessions EXCEPT ![s] = Reserve(Sessions[s])]
          \/ sess' = [Sessions EXCEPT ![s] = SetStatus(Sessions[s], "idle")]
      BY <1>3 DEF AppendByClient, DeleteSession, TuiReserve, TuiRelease
    <3> QED BY <3>1, <3>2
  <2>3. StreamsStay
    BY <1>0, <2>2 DEF StreamsStay
  <2> QED BY <2>1, <2>3, QuietStep DEF QuietTask
<1>4. ASSUME NEW s \in Sess, ReservationExpires(s)
      PROVE  Inv' /\ (Steps \/ Cuts)
  <2>1. UNCHANGED <<outbox, posted, granted>> /\ UNCHANGED task
    BY <1>4 DEF ReservationExpires
  <2>2. sess' = [sess EXCEPT ![s] = [sess[s] EXCEPT !.lease = "expired"]]
    BY <1>4 DEF ReservationExpires
  <2>3. StreamHasTurn([sess[s] EXCEPT !.lease = "expired"])
    BY <1>0 DEF StreamHasTurn, Session
  <2>4. StreamsStay
    BY <1>0, <2>2, <2>3 DEF StreamsStay
  <2> QED BY <2>1, <2>4, QuietStep DEF QuietTask
<1>5. CASE Arrive
  <2>1. UNCHANGED <<outbox, posted, granted, sess>> /\ UNCHANGED task
    BY <1>5 DEF Arrive
  <2> QED BY <1>0, <2>1, QuietStep DEF QuietTask, StreamsStay
<1>6. ASSUME NEW signalled \in BOOLEAN, Halt(signalled)
      PROVE  Inv' /\ (Steps \/ Cuts)
  <2>1. UNCHANGED <<outbox, posted, granted>> /\ pc # "down" /\ pc' = "down"
    BY <1>6 DEF Halt, Stopped
  <2>2. StreamsStay
    <3>1. CASE pc \in {"turn", "reply"}
      <4>1. Chat[e0] \in Sess
        BY <3>1, HeadEvent DEF Inv, TypeOK
      <4>2. StreamHasTurn(SetStatus(sess[Chat[e0]], "interrupted"))
        BY <1>0, <4>1, StreamsHaveTurns DEF Statuses
      <4> QED BY <1>0, <1>6, <4>2 DEF Halt, StreamsStay
    <3> QED BY <1>0, <1>6, <3>1 DEF Halt, StreamsStay
  <2> QED BY <2>1, <2>2, QuietStep DEF QuietTask
<1> QED BY <1>1, <1>2, <1>3, <1>4, <1>5, <1>6

-----------------------------------------------------------------------------
(* Steps that change one delivery.                                         *)

NewPost(d) == IF outbox[d].edit THEN 0 ELSE 1

(* What a step may make of the delivery d.                                 *)
Becomes(d, status, new, p, g) ==
  /\ outbox'[d].status = status /\ (IF outbox'[d].edit THEN 0 ELSE 1) = new
  /\ posted'[d] = p /\ granted'[d] = g
  /\ status = "sending" => SentNow(d)'

DeliveryStep(d) ==
  LET b == outbox[d]  n == NewPost(d)  p == posted[d]  g == granted[d] IN
  \/ /\ outbox'[d].status = b.status /\ (IF outbox'[d].edit THEN 0 ELSE 1) = n
     /\ posted'[d] = p /\ granted'[d] = g
     /\ b.status = "sending" => (SentNow(d)' <=> SentNow(d))
  \/ b.status = "absent" /\ Becomes(d, "pending", 1, p, g + 1)
  \/ b.status = "absent" /\ Becomes(d, "sending", 1, p + 1, g + 1)
  \/ b.status = "pending" /\ Becomes(d, "sending", n, p + n, g)
  \/ b.status = "sending" /\ ~SentNow(d) /\ Becomes(d, "sending", n, p + n, g)
  \/ b.status = "streaming" /\ Becomes(d, "sending", n, p, g)
  \/ b.status = "streaming" /\ Becomes(d, "pending", n, p, g)
  \/ b.status = "sending" /\ SentNow(d) /\ Becomes(d, "streaming", 0, p, g)
  \/ b.status \in {"sending", "streaming"} /\ Becomes(d, "uncertain", n, p, g)
  \/ b.status = "uncertain" /\ Becomes(d, "pending", n, p, g + n)
  \/ b.status # "absent" /\ Becomes(d, "absent", 1, p, g)

LEMMA DeliveryStepPromised ==
  ASSUME Inv, TypeOK', NEW d \in Events, DeliveryStep(d)
  PROVE  Box'[d] = Box[d] \/ Promise!Step(Box[d], Box'[d])
<1> DEFINE b == outbox[d]
           n == NewPost(d)
           p == posted[d]
           g == granted[d]
<1> DEFINE State(status) ==
             CASE status = "absent" -> "none" [] status = "pending" -> "due"
               [] status = "sending" -> "out" [] status = "streaming" -> "open"
               [] OTHER -> "doubt"
<1>1. /\ Box[d] = Promise!At(BoxState(d), n, p, g)
      /\ \A status, new, np, ng :
           Becomes(d, status, new, np, ng) => Box'[d] = Promise!At(State(status), new, np, ng)
  <2>1. Box[d] = Promise!At(BoxState(d), n, p, g)
    BY DEF Box, NewPost, Promise!At
  <2>2. ASSUME NEW status, NEW new, NEW np, NEW ng, Becomes(d, status, new, np, ng)
        PROVE  Box'[d] = Promise!At(State(status), new, np, ng)
    <3>1. BoxState(d)' = State(status)
      BY <2>2 DEF Becomes, BoxState
    <3> HIDE DEF State
    <3> QED BY <2>2, <3>1 DEF Becomes, Box, Promise!At
  <2> QED BY <2>1, <2>2
<1>2. /\ State("absent") = "none" /\ State("pending") = "due"
      /\ State("sending") = "out" /\ State("streaming") = "open"
      /\ State("uncertain") = "doubt"
  OBVIOUS
<1>b. /\ b.status = "absent" => BoxState(d) = "none"
      /\ b.status # "absent" => BoxState(d) # "none"
      /\ b.status = "pending" => BoxState(d) = "due"
      /\ b.status = "sending" => BoxState(d) = IF SentNow(d) THEN "out" ELSE "cut"
      /\ b.status = "streaming" => BoxState(d) = "open"
      /\ b.status = "uncertain" => BoxState(d) = "doubt"
  BY DEF BoxState, Inv, TypeOK, Delivery, DeliveryStatuses
<1> HIDE DEF State
<1>3. b.status = "streaming" => n = 0
  BY DEF Inv, TypeOK, SenderKnowsDelivery, Delivery, NewPost
<1>0. p \in Nat /\ g \in Nat /\ n \in 0..1
  BY DEF Inv, TypeOK, NewPost
<1> HIDE DEF n, p, g
<1>4. CASE /\ outbox'[d].status = b.status /\ (IF outbox'[d].edit THEN 0 ELSE 1) = n
           /\ posted'[d] = p /\ granted'[d] = g
           /\ b.status = "sending" => (SentNow(d)' <=> SentNow(d))
  <2>1. BoxState(d)' = BoxState(d)
    BY <1>4 DEF BoxState
  <2>2. Box'[d] = Promise!At(BoxState(d), n, p, g)
    BY <1>4, <2>1 DEF Box, Promise!At
  <2> QED BY <1>1, <2>2
<1>5. CASE b.status = "absent" /\ Becomes(d, "pending", 1, p, g + 1)
  <2>1. Box[d] = Promise!At("none", n, p, g) /\ Box'[d] = Promise!At("due", 1, p, g + 1)
    BY <1>1, <1>2, <1>3, <1>b, <1>5
  <2>2. Promise!Create(Box[d], Box'[d])
    BY <1>0, <1>3, <1>b, <1>5, <2>1 DEF Promise!Create, Promise!At
  <2> QED BY <2>2 DEF Promise!Step
<1>6. CASE b.status = "absent" /\ Becomes(d, "sending", 1, p + 1, g + 1)
  <2>1. Box[d] = Promise!At("none", n, p, g) /\ Box'[d] = Promise!At("out", 1, p + 1, g + 1)
    BY <1>1, <1>2, <1>3, <1>b, <1>6
  <2>2. Promise!Create(Box[d], Box'[d])
    BY <1>0, <1>3, <1>b, <1>6, <2>1 DEF Promise!Create, Promise!At
  <2> QED BY <2>2 DEF Promise!Step
<1>7. CASE b.status = "pending" /\ Becomes(d, "sending", n, p + n, g)
  <2>1. Box[d] = Promise!At("due", n, p, g) /\ Box'[d] = Promise!At("out", n, p + n, g)
    BY <1>1, <1>2, <1>3, <1>b, <1>7
  <2>2. Promise!Send(Box[d], Box'[d])
    BY <1>0, <1>3, <1>b, <1>7, <2>1 DEF Promise!Send, Promise!At
  <2> QED BY <2>2 DEF Promise!Step
<1>8. CASE b.status = "streaming" /\ Becomes(d, "sending", n, p, g)
  <2>1. Box[d] = Promise!At("open", n, p, g) /\ Box'[d] = Promise!At("out", n, p, g)
    BY <1>1, <1>2, <1>3, <1>b, <1>8
  <2>2. Promise!Edit(Box[d], Box'[d])
    BY <1>0, <1>3, <1>b, <1>8, <2>1 DEF Promise!Edit, Promise!At
  <2> QED BY <2>2 DEF Promise!Step
<1>9. CASE b.status = "streaming" /\ Becomes(d, "pending", n, p, g)
  <2>1. Box[d] = Promise!At("open", n, p, g) /\ Box'[d] = Promise!At("due", n, p, g)
    BY <1>1, <1>2, <1>3, <1>b, <1>9
  <2>2. Promise!Edit(Box[d], Box'[d])
    BY <1>0, <1>3, <1>b, <1>9, <2>1 DEF Promise!Edit, Promise!At
  <2> QED BY <2>2 DEF Promise!Step
<1>10. CASE b.status = "sending" /\ SentNow(d) /\ Becomes(d, "streaming", 0, p, g)
  <2>1. Box[d] = Promise!At("out", n, p, g) /\ Box'[d] = Promise!At("open", 0, p, g)
    BY <1>1, <1>2, <1>3, <1>b, <1>10
  <2>2. Promise!Opened(Box[d], Box'[d])
    BY <1>0, <1>3, <1>b, <1>10, <2>1 DEF Promise!Opened, Promise!At
  <2> QED BY <2>2 DEF Promise!Step
<1>11. CASE b.status \in {"sending", "streaming"} /\ Becomes(d, "uncertain", n, p, g)
  <2>1. Box[d] = Promise!At(BoxState(d), n, p, g) /\ Box'[d] = Promise!At("doubt", n, p, g)
    BY <1>1, <1>2, <1>3, <1>b, <1>11
  <2>2. Promise!InDoubt(Box[d], Box'[d])
    BY <1>0, <1>3, <1>b, <1>11, <2>1 DEF Promise!InDoubt, Promise!At
  <2> QED BY <2>2 DEF Promise!Step
<1>12. CASE b.status = "uncertain" /\ Becomes(d, "pending", n, p, g + n)
  <2>1. Box[d] = Promise!At("doubt", n, p, g) /\ Box'[d] = Promise!At("due", n, p, g + n)
    BY <1>1, <1>2, <1>3, <1>b, <1>12
  <2>2. Promise!Retry(Box[d], Box'[d])
    BY <1>0, <1>3, <1>b, <1>12, <2>1 DEF Promise!Retry, Promise!At
  <2> QED BY <2>2 DEF Promise!Step
<1>13. CASE b.status # "absent" /\ Becomes(d, "absent", 1, p, g)
  <2>1. Box[d] = Promise!At(BoxState(d), n, p, g) /\ Box'[d] = Promise!At("none", 1, p, g)
    BY <1>1, <1>2, <1>3, <1>b, <1>13
  <2>2. Promise!Remove(Box[d], Box'[d])
    BY <1>0, <1>3, <1>b, <1>13, <2>1 DEF Promise!Remove, Promise!At
  <2> QED BY <2>2 DEF Promise!Step
<1>14. CASE b.status = "sending" /\ ~SentNow(d) /\ Becomes(d, "sending", n, p + n, g)
  <2>1. Box[d] = Promise!At("cut", n, p, g) /\ Box'[d] = Promise!At("out", n, p + n, g)
    BY <1>1, <1>2, <1>3, <1>b, <1>14
  <2>2. Promise!Resend(Box[d], Box'[d])
    BY <1>0, <1>3, <1>b, <1>14, <2>1 DEF Promise!Resend, Promise!At
  <2> QED BY <2>2 DEF Promise!Step
<1> QED
  BY <1>4, <1>5, <1>6, <1>7, <1>8, <1>9, <1>10, <1>11, <1>12, <1>13, <1>14
     DEF DeliveryStep, n, p, g

(* A step on the delivery d that leaves the others alone, none of which    *)
(* the task is sending.                                                    *)
OthersUntouched(d) ==
  \A e \in Events \ {d} : /\ outbox'[e] = outbox[e]
                          /\ posted'[e] = posted[e] /\ granted'[e] = granted[e]

OnlySends(d) == \A e \in Events \ {d} : ~SentNow(e) /\ ~SentNow(e)'

LEMMA OneDelivery ==
  ASSUME Inv, TypeOK', NEW d \in Events, DeliveryStep(d), OthersUntouched(d), OnlySends(d),
         pc # "down", pc' # "down"
  PROVE  Steps
<1>1. ASSUME NEW e \in Events \ {d} PROVE Box'[e] = Box[e]
  <2>1. BoxState(e)' = BoxState(e)
    BY DEF OthersUntouched, OnlySends, BoxState
  <2> QED BY <2>1 DEF OthersUntouched, Box
<1> QED BY <1>1, DeliveryStepPromised DEF Steps

(* The states of the deliveries after it.                                  *)
LEMMA OneSender ==
  ASSUME Inv, TypeOK', NEW d \in Events, OthersUntouched(d), StreamsStay,
         outbox'[d].status = "absent" => ~outbox'[d].edit,
         outbox'[d].status = "streaming" => outbox'[d].edit,
         \/ /\ outbox'[d].status \in {"sending", "absent"} /\ pc' \in Busy
            /\ IF pc' = "sending" THEN cur' = d ELSE e0' = d
         \/ /\ pc' \notin Busy
            /\ Open' => batch' = batch /\ e0 = d /\ outbox'[d].status \in {"streaming", "absent"}
  PROVE  Inv'
<1>1. \A e \in Events : /\ outbox'[e].status = "absent" => ~outbox'[e].edit
                        /\ outbox'[e].status = "streaming" => outbox'[e].edit
  BY DEF Inv, SenderKnowsDelivery, OthersUntouched
<1>2. \A s \in Sess : sess'[s].inflight = NoEvent => sess'[s].stream = NoEvent
  BY DEF StreamsStay, StreamHasTurn
<1>3. CASE /\ outbox'[d].status \in {"sending", "absent"} /\ pc' \in Busy
           /\ IF pc' = "sending" THEN cur' = d ELSE e0' = d
  <2>1. SenderKnowsDelivery'
    BY <1>1, <1>2, <1>3 DEF SenderKnowsDelivery, Busy, Turning
  <2> QED BY <2>1 DEF Inv
<1>4. CASE /\ pc' \notin Busy
           /\ Open' => batch' = batch /\ e0 = d /\ outbox'[d].status \in {"streaming", "absent"}
  <2>1. SenderKnowsDelivery'
    BY <1>1, <1>2, <1>4 DEF SenderKnowsDelivery, Busy, Open, e0
  <2> QED BY <2>1 DEF Inv
<1> QED BY <1>3, <1>4

LEMMA OutcomeOfSend ==
  ASSUME Inv, TypeOK', NEW d \in Events, NEW next \in {"top", "settle"},
         pc \in Busy, IF pc = "sending" THEN cur = d ELSE e0 = d,
         outbox[d].status \in {"sending", "absent"},
         SendAccepted(d, next) \/ SendFailed(d, next),
         UNCHANGED <<sess, posted, granted>>
  PROVE  Inv' /\ (Steps \/ Cuts)
<1>0. outbox \in [Events -> Delivery] /\ outbox' \in [Events -> Delivery] /\ pc # "down"
  BY DEF Inv, TypeOK, Busy
<1>2. StreamsStay
  BY StreamsNow DEF StreamsStay
<1>3. outbox[d].status = "absent" => ~outbox[d].edit
  BY DEF Inv, SenderKnowsDelivery
<1>4. pc' \notin Busy /\ ~Open' /\ OnlySends(d)
  <2>1. pc' \notin Busy /\ ~Open'
    BY DEF SendAccepted, SendFailed, Stopped, Busy, Open, Turning
  <2> QED BY <2>1 DEF OnlySends, SentNow, Busy
<1>5. CASE SendAccepted(d, next)
  <2>1. outbox' = [outbox EXCEPT ![d] = NoDelivery] /\ pc' # "down"
    BY <1>5 DEF SendAccepted
  <2>2. OthersUntouched(d) /\ outbox'[d].status = "absent" /\ ~outbox'[d].edit
    BY <1>0, <2>1 DEF OthersUntouched, NoDelivery
  <2>3. DeliveryStep(d)
    BY <1>3, <2>2 DEF DeliveryStep, Becomes, NewPost
  <2> QED BY <1>0, <1>2, <1>4, <2>1, <2>2, <2>3, OneDelivery, OneSender
<1>6. CASE SendFailed(d, next)
  <2>1. CASE /\ outbox[d].status # "absent" /\ outbox' = [outbox EXCEPT ![d].status = "uncertain"]
             /\ pc' = next
    <3>1. OthersUntouched(d)
      BY <1>0, <2>1 DEF OthersUntouched
    <3>2. outbox'[d].status = "uncertain" /\ outbox'[d].edit = outbox[d].edit
      BY <1>0, <2>1 DEF Delivery
    <3>3. DeliveryStep(d)
      BY <2>1, <3>2 DEF DeliveryStep, Becomes, NewPost
    <3>4. pc' # "down"
      BY <2>1
    <3> QED BY <1>0, <1>2, <1>4, <3>1, <3>2, <3>3, <3>4, OneDelivery, OneSender
  <2>2. CASE UNCHANGED outbox /\ Stopped
    BY <1>0, <1>2, <2>2, QuietStep DEF QuietTask, Stopped
  <2> QED BY <1>6, <2>1, <2>2 DEF SendFailed
<1> QED BY <1>5, <1>6

(* A step after which nothing is being sent or streamed by the task.       *)
LEMMA NoneSending ==
  ASSUME Inv, TypeOK', StreamsStay, pc' \notin Busy, ~Open', pc # "down", pc' # "down",
         \A d \in Events : /\ DeliveryStep(d)
                           /\ outbox'[d].status = "absent" => ~outbox'[d].edit
                           /\ outbox'[d].status = "streaming" => outbox'[d].edit
  PROVE  Inv' /\ Steps
<1>1. Steps
  BY DeliveryStepPromised DEF Steps
<1>2. \A s \in Sess : sess'[s].inflight = NoEvent => sess'[s].stream = NoEvent
  BY DEF StreamsStay, StreamHasTurn
<1>3. SenderKnowsDelivery'
  BY <1>2 DEF SenderKnowsDelivery, Busy, Open
<1> QED BY <1>1, <1>3 DEF Inv

(* The deliveries as a turn r that is cleared leaves them.                 *)
LEMMA Cleared ==
  ASSUME Inv, NEW r, outbox' = ClearDelivery(outbox, r), UNCHANGED <<posted, granted>>,
         pc \notin Busy, pc' \notin Busy
  PROVE  \A d \in Events : /\ DeliveryStep(d)
                           /\ outbox'[d].status = "absent" => ~outbox'[d].edit
                           /\ outbox'[d].status = "streaming" => outbox'[d].edit
<1> SUFFICES ASSUME NEW d \in Events
             PROVE  /\ DeliveryStep(d)
                    /\ outbox'[d].status = "absent" => ~outbox'[d].edit
                    /\ outbox'[d].status = "streaming" => outbox'[d].edit
  OBVIOUS
<1>1. /\ outbox[d] \in Delivery
      /\ outbox[d].status = "absent" => ~outbox[d].edit
      /\ outbox[d].status = "streaming" => outbox[d].edit
      /\ ~SentNow(d) /\ ~SentNow(d)'
  BY DEF Inv, TypeOK, SenderKnowsDelivery, Busy, SentNow
<1>2. CASE outbox'[d] = outbox[d]
  BY <1>1, <1>2 DEF DeliveryStep, NewPost
<1>3. CASE /\ outbox[d].status \in {"sending", "streaming"}
           /\ outbox'[d] = [outbox[d] EXCEPT !.status = "uncertain"]
  <2>1. outbox'[d].status = "uncertain" /\ outbox'[d].edit = outbox[d].edit
    BY <1>1, <1>3 DEF Delivery
  <2> QED BY <1>3, <2>1 DEF DeliveryStep, Becomes, NewPost
<1> QED BY <1>2, <1>3 DEF ClearDelivery

LEMMA SendsKeepPromise ==
  ASSUME Inv, TypeOK',
         (\E d \in Events : SendPending(d)) \/ PendingSent \/ ReplySent
  PROVE  Inv' /\ (Steps \/ Cuts)
<1>0. outbox \in [Events -> Delivery] /\ posted \in [Events -> Nat]
  BY DEF Inv, TypeOK
<1>1. ASSUME NEW d \in Events, SendPending(d)
      PROVE  Inv' /\ (Steps \/ Cuts)
  <2>1. /\ outbox' = [outbox EXCEPT ![d].status = "sending"] /\ outbox[d].status = "pending"
        /\ posted' = [posted EXCEPT ![d] = @ + (IF outbox[d].edit THEN 0 ELSE 1)]
        /\ UNCHANGED <<sess, granted>> /\ pc = "top" /\ pc' = "sending" /\ cur' = d
    BY <1>1 DEF SendPending, Pending, Dispatch
  <2>2. OthersUntouched(d)
    BY <1>0, <2>1 DEF OthersUntouched
  <2>3. outbox'[d].status = "sending" /\ outbox'[d].edit = outbox[d].edit
    BY <1>0, <2>1 DEF Delivery
  <2>4. DeliveryStep(d)
    BY <1>0, <2>1, <2>3 DEF DeliveryStep, Becomes, NewPost, SentNow
  <2>5. StreamsStay /\ OnlySends(d)
    BY <2>1, StreamsNow DEF OnlySends, SentNow, StreamsStay
  <2> QED BY <2>1, <2>2, <2>3, <2>4, <2>5, OneDelivery, OneSender DEF Busy
<1>2. CASE PendingSent
  <2>1. cur \in Events /\ outbox[cur].status \in {"sending", "absent"} /\ pc = "sending"
    BY <1>2 DEF Inv, TypeOK, SenderKnowsDelivery, PendingSent
  <2> QED BY <1>2, <2>1, OutcomeOfSend DEF PendingSent, Busy, history
<1>3. CASE ReplySent
  <2>1. pc = "reply" /\ batch # <<>>
    BY <1>3 DEF Inv, TypeOK, ReplySent
  <2>2. e0 \in Events /\ outbox[e0].status \in {"sending", "absent"}
    BY <2>1, HeadEvent DEF Inv, SenderKnowsDelivery
  <2> QED BY <1>3, <2>1, <2>2, OutcomeOfSend DEF ReplySent, Busy, history
<1> QED BY <1>1, <1>2, <1>3

LEMMA StreamKeepsPromise ==
  ASSUME Inv, TypeOK', FlushFirst \/ FlushEdit \/ Flushed
  PROVE  Inv' /\ (Steps \/ Cuts)
<1>0. /\ outbox \in [Events -> Delivery] /\ posted \in [Events -> Nat]
      /\ granted \in [Events -> Nat] /\ sess \in [Sess -> Session]
      /\ batch # <<>> /\ e0 \in Events /\ Here \in Session /\ StreamHasTurn(Here)
      /\ pc \in {"turn", "stream"} /\ Chat[e0] \in Sess
      /\ pc' \in {"turn", "stream"} /\ e0' = e0 /\ OnlySends(e0)
  <2>1. batch # <<>> /\ pc \in {"turn", "stream"}
    BY DEF Inv, TypeOK, FlushFirst, FlushEdit, Flushed
  <2>2. e0 \in Events /\ Here \in Session /\ Chat[e0] \in Sess
    BY <2>1, HeadEvent DEF Inv
  <2>3. pc' \in {"turn", "stream"} /\ e0' = e0
    BY DEF FlushFirst, FlushEdit, Flushed, e0
  <2>4. OnlySends(e0)
    BY <2>1, <2>3 DEF OnlySends, SentNow
  <2>5. /\ outbox \in [Events -> Delivery] /\ posted \in [Events -> Nat]
        /\ granted \in [Events -> Nat] /\ sess \in [Sess -> Session]
    BY DEF Inv, TypeOK
  <2> QED BY <2>1, <2>2, <2>3, <2>4, <2>5, StreamsNow DEF Here
<1>1. CASE FlushFirst
  <2>1. CASE StreamRefuses(Here, outbox, e0)
    <3>1. UNCHANGED <<outbox, posted, granted, sess, batch>> /\ pc = "turn" /\ pc' = "turn"
          /\ disabled' = TRUE
      BY <1>1, <2>1 DEF FlushFirst
    <3>2. QuietTask /\ StreamsStay
      BY <3>1, StreamsNow DEF QuietTask, Busy, Open, StreamsStay
    <3> QED BY <3>1, <3>2, QuietStep
  <2>2. CASE ~StreamRefuses(Here, outbox, e0)
    <3>1. /\ outbox' = [outbox EXCEPT ![e0] = StreamDelivery]
          /\ posted' = [posted EXCEPT ![e0] = @ + (IF outbox'[e0].edit THEN 0 ELSE 1)]
          /\ granted' = [granted EXCEPT ![e0] = @ + 1]
          /\ sess' = [sess EXCEPT ![Chat[e0]] = StartStream(Here, e0)]
          /\ pc' = "stream" /\ batch' = batch
      BY <1>1, <2>2 DEF FlushFirst, Dispatch
    <3>2. Here.inflight # NoEvent /\ outbox[e0].status = "absent" /\ ~outbox[e0].edit
      BY <1>0, <2>2 DEF StreamRefuses, Inv, SenderKnowsDelivery
    <3>3. OthersUntouched(e0) /\ outbox'[e0].status = "sending" /\ ~outbox'[e0].edit
      BY <1>0, <3>1 DEF OthersUntouched, StreamDelivery
    <3>4. posted'[e0] = posted[e0] + 1 /\ granted'[e0] = granted[e0] + 1
      BY <1>0, <3>1, <3>3
    <3>5. DeliveryStep(e0)
      <4>1. Becomes(e0, "sending", 1, posted[e0] + 1, granted[e0] + 1)
        BY <1>0, <3>1, <3>3, <3>4 DEF Becomes, NewPost, SentNow
      <4> QED BY <3>2, <4>1 DEF DeliveryStep
    <3>6. StreamsStay
      <4>1. StreamHasTurn(StartStream(Here, e0))
        BY <1>0, <3>2, StreamsHaveTurns
      <4> QED BY <1>0, <3>1, <4>1, StreamsNow DEF StreamsStay
    <3>7. e0' = e0
      BY <3>1 DEF e0
    <3> QED BY <1>0, <3>1, <3>3, <3>5, <3>6, <3>7, OneDelivery, OneSender DEF Busy
  <2> QED BY <2>1, <2>2
<1>2. CASE FlushEdit
  <2>1. /\ pc = "turn" /\ msgid /\ ~disabled /\ UNCHANGED <<sess, posted, granted, batch, msgid>>
    BY <1>2 DEF FlushEdit, history
  <2>2. StreamsStay
    BY <2>1, StreamsNow DEF StreamsStay
  <2>3. CASE outbox[e0].status = "absent"
    <3>1. UNCHANGED outbox /\ pc' = "turn" /\ disabled' = TRUE
      BY <1>2, <2>1, <2>3 DEF FlushEdit
    <3>2. QuietTask
      BY <2>1, <3>1 DEF QuietTask, Busy, Open
    <3> QED BY <2>1, <2>2, <3>1, <3>2, QuietStep
  <2>4. CASE outbox[e0].status # "absent"
    <3>1. /\ outbox' = [outbox EXCEPT ![e0].status = "sending", ![e0].text = "partial"]
          /\ pc' = "stream"
      BY <1>2, <2>4 DEF FlushEdit
    <3>2. outbox[e0].status = "streaming" /\ outbox[e0].edit
      BY <1>0, <2>1, <2>4 DEF Inv, SenderKnowsDelivery, Turning
    <3>3. OthersUntouched(e0)
      BY <1>0, <2>1, <3>1 DEF OthersUntouched
    <3>4. outbox'[e0].status = "sending" /\ outbox'[e0].edit = outbox[e0].edit
      BY <1>0, <3>1 DEF Delivery
    <3>5. DeliveryStep(e0)
      <4>1. Becomes(e0, "sending", NewPost(e0), posted[e0], granted[e0])
        BY <1>0, <2>1, <3>1, <3>4 DEF Becomes, NewPost, SentNow
      <4> QED BY <3>2, <4>1 DEF DeliveryStep
    <3>6. e0' = e0
      BY <2>1 DEF e0
    <3> QED BY <1>0, <2>2, <3>1, <3>3, <3>4, <3>5, <3>6, OneDelivery, OneSender DEF Busy
  <2> QED BY <2>3, <2>4
<1>3. CASE Flushed
  <2>1. /\ pc = "stream" /\ pc' = "turn" /\ pc' # "down" /\ UNCHANGED <<sess, posted, granted, batch>>
        /\ outbox[e0].status \in {"sending", "absent"}
        /\ outbox[e0].status = "absent" => ~outbox[e0].edit
    BY <1>0, <1>3 DEF Flushed, history, Inv, SenderKnowsDelivery
  <2>2. StreamsStay
    BY <2>1, StreamsNow DEF StreamsStay
  <2>3. CASE /\ outbox[e0].status # "absent"
             /\ outbox' = [outbox EXCEPT ![e0].status = "streaming", ![e0].edit = TRUE]
    <3>1. OthersUntouched(e0)
      BY <1>0, <2>1, <2>3 DEF OthersUntouched
    <3>2. outbox'[e0].status = "streaming" /\ outbox'[e0].edit
      BY <1>0, <2>3 DEF Delivery
    <3>3. DeliveryStep(e0)
      <4>1. Becomes(e0, "streaming", 0, posted[e0], granted[e0])
        BY <2>1, <3>2 DEF Becomes, NewPost
      <4>2. SentNow(e0)
        BY <2>1 DEF SentNow
      <4> QED BY <2>1, <2>3, <4>1, <4>2 DEF DeliveryStep
    <3> QED BY <1>0, <2>1, <2>2, <3>1, <3>2, <3>3, OneDelivery, OneSender DEF Busy
  <2>4. CASE /\ outbox' = [outbox EXCEPT ![e0].status = IF @ = "absent" THEN @ ELSE "uncertain"]
             /\ disabled' = TRUE
    <3>1. OthersUntouched(e0)
      BY <1>0, <2>1, <2>4 DEF OthersUntouched
    <3>2. /\ outbox'[e0].edit = outbox[e0].edit
          /\ outbox'[e0].status = IF outbox[e0].status = "absent" THEN "absent" ELSE "uncertain"
      BY <1>0, <2>4 DEF Delivery
    <3>3. DeliveryStep(e0)
      BY <2>1, <3>2 DEF Becomes, NewPost, DeliveryStep
    <3>4. ~Open'
      BY <2>4 DEF Open
    <3> QED BY <1>0, <2>1, <2>2, <3>1, <3>2, <3>3, <3>4, OneDelivery, OneSender DEF Busy
  <2> QED BY <1>3, <2>3, <2>4 DEF Flushed
<1> QED BY <1>1, <1>2, <1>3

(* What a reply makes of the delivery of the turn it completes.            *)
LEMMA Replied ==
  ASSUME NEW d \in Events, NEW r, NEW text \in Texts, NEW old \in Delivery,
         NEW new, new = ReplyDelivery(d, r, text, old)
  PROVE  /\ old.status = "absent" => new.status = "pending" /\ ~new.edit
         /\ old.status # "absent" =>
              /\ new.edit = old.edit
              /\ \/ new.status = old.status
                 \/ old.status = "streaming" /\ new.status = "pending"
                 \/ old.status = "sending" /\ new.status = "uncertain"
  BY DEF ReplyDelivery, Delivery, DeliveryStatuses

LEMMA EndsKeepPromise ==
  ASSUME Inv, TypeOK', TurnCancelled \/ TurnFailed \/ TurnAnswers
  PROVE  Inv' /\ (Steps \/ Cuts)
<1>0. /\ outbox \in [Events -> Delivery] /\ posted \in [Events -> Nat]
      /\ granted \in [Events -> Nat] /\ sess \in [Sess -> Session]
      /\ batch # <<>> /\ e0 \in Events /\ Here \in Session /\ StreamHasTurn(Here)
      /\ pc \in {"turn", "failing"} /\ Chat[e0] \in Sess
      /\ outbox[e0] \in Delivery /\ outbox[e0].edit \in BOOLEAN
      /\ pc \notin Busy /\ pc # "down" /\ \A e \in Events : ~SentNow(e)
      /\ outbox[e0].status = "absent" => ~outbox[e0].edit
      /\ outbox[e0].status = "streaming" => outbox[e0].edit
  <2>1. batch # <<>> /\ pc \in {"turn", "failing"}
    BY DEF Inv, TypeOK, TurnCancelled, TurnFailed, TurnAnswers
  <2>2. e0 \in Events /\ Here \in Session /\ Chat[e0] \in Sess
    BY <2>1, HeadEvent DEF Inv
  <2>3. pc \notin Busy /\ pc # "down" /\ \A e \in Events : ~SentNow(e)
    BY <2>1 DEF Busy, SentNow
  <2>4. StreamHasTurn(Here)
    BY <2>2, StreamsNow DEF Here
  <2>5. outbox \in [Events -> Delivery] /\ sess \in [Sess -> Session]
    BY DEF Inv, TypeOK
  <2> QED BY <2>1, <2>2, <2>3, <2>4, <2>5 DEF Inv, TypeOK, SenderKnowsDelivery, Delivery
<1>a. ASSUME NEW r, StreamHasTurn(r), sess' = [sess EXCEPT ![Chat[e0]] = r]
      PROVE  StreamsStay
  BY <1>0, <1>a, StreamsNow DEF StreamsStay
<1>1. CASE TurnCancelled
  <2>1. /\ outbox' = ClearDelivery(outbox, Here) /\ UNCHANGED <<posted, granted>>
        /\ sess' = [sess EXCEPT ![Chat[e0]] = Clear(Here, "cancelled")]
        /\ pc = "turn" /\ pc' = "ack"
    BY <1>1 DEF TurnCancelled, Goto
  <2>2. StreamHasTurn(Clear(Here, "cancelled"))
    BY <1>0, StreamsHaveTurns DEF Statuses
  <2>3. StreamsStay
    BY <1>a, <2>1, <2>2
  <2>4. pc' \notin Busy /\ ~Open' /\ pc \notin Busy /\ pc # "down" /\ pc' # "down"
    BY <2>1 DEF Busy, Open, Turning
  <2>5. \A d \in Events : /\ DeliveryStep(d)
                          /\ outbox'[d].status = "absent" => ~outbox'[d].edit
                          /\ outbox'[d].status = "streaming" => outbox'[d].edit
    BY <2>1, <2>4, Cleared
  <2> QED BY <2>3, <2>4, <2>5, NoneSending
<1>2. CASE TurnFailed
  <2> DEFINE cleared == Clear(Here, "interrupted")
             replied == ReplySession(Here)
             reply == ReplyDelivery(e0, Here, "failure", outbox[e0])
  <2>1. pc = "failing" /\ NextEvent /\ UNCHANGED posted
    BY <1>2 DEF TurnFailed
  <2>2. /\ pc' \notin Busy /\ ~Open' /\ pc \notin Busy /\ pc # "down" /\ pc' # "down"
        /\ \A e \in Events : ~SentNow(e)'
    BY <2>1 DEF NextEvent, Busy, Open, Turning, SentNow
  <2>3. StreamsStay
    <3>1. /\ cleared \in Session /\ StreamHasTurn(cleared)
          /\ replied \in Session /\ StreamHasTurn(replied)
      BY <1>0, ClearType, ReplySessionType, StreamsHaveTurns DEF Statuses
    <3>2. StreamHasTurn(Queue(cleared, e0)) /\ StreamHasTurn(Queue(replied, e0))
      <4> HIDE DEF cleared, replied
      <4> QED BY <1>0, <3>1, StreamsHaveTurns
    <3>3. PICK r \in {cleared, replied, Queue(cleared, e0), Queue(replied, e0)} :
            sess' = [sess EXCEPT ![Chat[e0]] = r]
      BY <1>2 DEF TurnFailed
    <3>4. StreamHasTurn(r)
      <4> HIDE DEF cleared, replied
      <4> QED BY <3>1, <3>2
    <3> QED BY <1>a, <3>3, <3>4
  <2>4. CASE ReplyRefuses(outbox, e0)
    <3>1. outbox' = ClearDelivery(outbox, Here)
      BY <1>2, <2>4 DEF TurnFailed
    <3>2. granted' = granted
      <4>1. granted' = [granted EXCEPT ![e0] = @]
        BY <1>2, <2>4 DEF TurnFailed
      <4> QED BY <1>0, <4>1
    <3>3. \A d \in Events : /\ DeliveryStep(d)
                            /\ outbox'[d].status = "absent" => ~outbox'[d].edit
                            /\ outbox'[d].status = "streaming" => outbox'[d].edit
      BY <2>1, <2>2, <3>1, <3>2, Cleared
    <3> QED BY <2>2, <2>3, <3>3, NoneSending
  <2>5. CASE ~ReplyRefuses(outbox, e0)
    <3>1. /\ outbox' = [outbox EXCEPT ![e0] = reply]
          /\ granted' = [granted EXCEPT ![e0] = IF outbox[e0].status = "absent" THEN @ + 1 ELSE @]
      BY <1>2, <2>5 DEF TurnFailed
    <3>2. /\ outbox[e0].status = "absent" => reply.status = "pending" /\ ~reply.edit
          /\ outbox[e0].status # "absent" =>
               /\ reply.edit = outbox[e0].edit
               /\ \/ reply.status = outbox[e0].status
                  \/ outbox[e0].status = "streaming" /\ reply.status = "pending"
                  \/ outbox[e0].status = "sending" /\ reply.status = "uncertain"
      <4>1. "failure" \in Texts
        BY DEF Texts
      <4> QED BY <1>0, <4>1, Replied
    <3>d. PICK d \in Events : d = e0
      BY <1>0
    <3>3. /\ OthersUntouched(d) /\ outbox'[d] = reply /\ OnlySends(d)
          /\ posted'[d] = posted[d]
          /\ granted'[d] = IF outbox[d].status = "absent" THEN granted[d] + 1 ELSE granted[d]
      <4> HIDE DEF reply
      <4> QED BY <1>0, <2>1, <2>2, <3>1, <3>d DEF OthersUntouched, OnlySends
    <3> HIDE DEF reply
    <3>4. DeliveryStep(d)
      <4>1. CASE outbox[d].status = "absent"
        <5>1. Becomes(d, "pending", 1, posted[d], granted[d] + 1)
          BY <3>2, <3>3, <3>d, <4>1 DEF Becomes
        <5> QED BY <4>1, <5>1 DEF DeliveryStep
      <4>2. CASE outbox[d].status # "absent"
        <5>1. /\ posted'[d] = posted[d] /\ granted'[d] = granted[d]
              /\ (IF outbox'[d].edit THEN 0 ELSE 1) = NewPost(d)
          BY <3>2, <3>3, <3>d, <4>2 DEF NewPost
        <5>2. CASE outbox'[d].status = outbox[d].status
          BY <1>0, <2>2, <5>1, <5>2 DEF DeliveryStep
        <5>3. CASE outbox[d].status = "streaming" /\ outbox'[d].status = "pending"
          <6>1. Becomes(d, "pending", NewPost(d), posted[d], granted[d])
            BY <5>1, <5>3 DEF Becomes
          <6> QED BY <5>3, <6>1 DEF DeliveryStep
        <5>4. CASE outbox[d].status = "sending" /\ outbox'[d].status = "uncertain"
          <6>1. Becomes(d, "uncertain", NewPost(d), posted[d], granted[d])
            BY <5>1, <5>4 DEF Becomes
          <6> QED BY <5>4, <6>1 DEF DeliveryStep
        <5> QED BY <3>2, <3>3, <3>d, <4>2, <5>2, <5>3, <5>4
      <4> QED BY <4>1, <4>2
    <3>5. /\ reply.status = "absent" => ~reply.edit
          /\ reply.status = "streaming" => reply.edit
      BY <1>0, <3>2
    <3> QED BY <1>0, <2>2, <2>3, <3>3, <3>4, <3>5, OneDelivery, OneSender
  <2> QED BY <2>4, <2>5
<1>3. CASE TurnAnswers
  <2> DEFINE reply == ReplyDelivery(e0, Here, "answer", outbox[e0])
  <2>1. CASE ReplyRefuses(outbox, e0)
    <3>1. UNCHANGED <<sess, outbox, posted, granted>> /\ pc' = "down"
      BY <1>3, <2>1 DEF TurnAnswers, Stopped
    <3> QED BY <1>0, <3>1, StreamsNow, QuietStep DEF QuietTask, StreamsStay
  <2>2. CASE ~ReplyRefuses(outbox, e0)
    <3>1. /\ sess' = [sess EXCEPT ![Chat[e0]] = ReplySession(Here)]
          /\ granted' = [granted EXCEPT ![e0] =
                           @ + (IF outbox[e0].status = "absent" THEN 1 ELSE 0)]
      BY <1>3, <2>2 DEF TurnAnswers
    <3>2. StreamsStay
      <4>1. StreamHasTurn(ReplySession(Here))
        BY <1>0, StreamsHaveTurns
      <4> QED BY <1>a, <3>1, <4>1
    <3>3. /\ reply \in Delivery /\ reply.edit \in BOOLEAN
          /\ outbox[e0].status = "absent" => reply.status = "pending" /\ ~reply.edit
          /\ outbox[e0].status # "absent" =>
               /\ reply.edit = outbox[e0].edit
               /\ \/ reply.status = outbox[e0].status
                  \/ outbox[e0].status = "streaming" /\ reply.status = "pending"
                  \/ outbox[e0].status = "sending" /\ reply.status = "uncertain"
      <4>1. reply \in Delivery
        BY <1>0, ReplyDeliveryType DEF Texts
      <4>2. reply.edit \in BOOLEAN
        <5> HIDE DEF reply
        <5> QED BY <4>1 DEF Delivery
      <4>3. "answer" \in Texts
        BY DEF Texts
      <4> QED BY <1>0, <4>1, <4>2, <4>3, Replied
    <3>4. CASE reply.status = "uncertain"
      <4>1. outbox' = [outbox EXCEPT ![e0] = reply] /\ NextEvent /\ UNCHANGED posted
        BY <1>3, <2>2, <3>4 DEF TurnAnswers
      <4> HIDE DEF reply
      <4>d. PICK d \in Events : d = e0
        BY <1>0
      <4>2. /\ OthersUntouched(d) /\ outbox'[d] = reply
            /\ granted'[d] = granted[d] /\ posted'[d] = posted[d]
        BY <1>0, <3>1, <3>3, <3>4, <4>1, <4>d DEF OthersUntouched
      <4>3. DeliveryStep(d)
        <5>1. CASE outbox[d].status = "uncertain"
          BY <3>3, <3>4, <4>2, <4>d, <5>1 DEF NewPost, DeliveryStep
        <5>2. CASE outbox[d].status = "sending"
          BY <3>3, <3>4, <4>2, <4>d, <5>2 DEF Becomes, NewPost, DeliveryStep
        <5> QED BY <3>3, <3>4, <4>d, <5>1, <5>2
      <4>4. pc' \notin Busy /\ ~Open' /\ pc' # "down" /\ OnlySends(d)
        BY <1>0, <4>1 DEF NextEvent, Busy, Open, Turning, OnlySends, SentNow
      <4> QED BY <1>0, <3>2, <3>4, <4>2, <4>3, <4>4, OneDelivery, OneSender
    <3>5. CASE reply.status # "uncertain"
      <4>1. /\ outbox' = [outbox EXCEPT ![e0] = [reply EXCEPT !.status = "sending"]]
            /\ posted' = [posted EXCEPT ![e0] = @ + (IF outbox'[e0].edit THEN 0 ELSE 1)]
            /\ pc' = "reply" /\ batch' = batch
        BY <1>3, <2>2, <3>5 DEF TurnAnswers, Dispatch, Goto
      <4> HIDE DEF reply
      <4>2. OthersUntouched(e0) /\ outbox'[e0].status = "sending" /\ outbox'[e0].edit = reply.edit
        BY <1>0, <3>1, <3>3, <4>1 DEF OthersUntouched, Delivery
      <4>4. e0' = e0 /\ SentNow(e0)' /\ OnlySends(e0)
        BY <1>0, <4>1 DEF e0, SentNow, OnlySends
      <4>3. DeliveryStep(e0)
        <5>1. CASE outbox[e0].status = "absent"
          <6>1. posted'[e0] = posted[e0] + 1 /\ granted'[e0] = granted[e0] + 1
            BY <1>0, <3>1, <3>3, <4>1, <4>2, <5>1
          <6>2. Becomes(e0, "sending", 1, posted[e0] + 1, granted[e0] + 1)
            BY <3>3, <4>2, <4>4, <5>1, <6>1 DEF Becomes
          <6> QED BY <5>1, <6>2 DEF DeliveryStep
        <5>2. CASE outbox[e0].status \in {"pending", "sending"}
          <6>1. posted'[e0] = posted[e0] + NewPost(e0) /\ granted'[e0] = granted[e0]
            BY <1>0, <3>1, <3>3, <4>1, <4>2, <5>2 DEF NewPost
          <6>2. Becomes(e0, "sending", NewPost(e0), posted[e0] + NewPost(e0), granted[e0])
            BY <3>3, <4>2, <4>4, <5>2, <6>1 DEF Becomes, NewPost
          <6> QED BY <1>0, <5>2, <6>2 DEF DeliveryStep
        <5>3. CASE outbox[e0].status = "streaming"
          <6>1. posted'[e0] = posted[e0] /\ granted'[e0] = granted[e0]
            BY <1>0, <3>1, <3>3, <4>1, <4>2, <5>3
          <6>2. Becomes(e0, "sending", NewPost(e0), posted[e0], granted[e0])
            BY <3>3, <4>2, <4>4, <5>3, <6>1 DEF Becomes, NewPost
          <6> QED BY <5>3, <6>2 DEF DeliveryStep
        <5>4. outbox[e0].status \in {"absent", "pending", "sending", "streaming"}
          BY <1>0, <3>3, <3>5 DEF Delivery, DeliveryStatuses
        <5> QED BY <5>1, <5>2, <5>3, <5>4
      <4> QED BY <1>0, <3>2, <4>1, <4>2, <4>3, <4>4, OneDelivery, OneSender DEF Busy
    <3> QED BY <3>4, <3>5
  <2> QED BY <2>1, <2>2
<1> QED BY <1>1, <1>2, <1>3

LEMMA OperatorKeepsPromise ==
  ASSUME Inv, TypeOK', NEW d \in Events, RetryDelivery(d) \/ DropDelivery(d)
  PROVE  Inv' /\ (Steps \/ Cuts)
<1>0. /\ outbox \in [Events -> Delivery] /\ granted \in [Events -> Nat]
      /\ outbox[d] \in Delivery
  BY DEF Inv, TypeOK
<1>1. StreamsStay
  <2>1. \A s \in Sess : sess'[s] = Recovered(sess[s])
    BY DEF RetryDelivery, DropDelivery, Sessions
  <2> QED BY <2>1, StreamsNow, StreamsHaveTurns DEF StreamsStay
<1>2. UNCHANGED task /\ UNCHANGED posted
  BY DEF RetryDelivery, DropDelivery, ClientOp, history
<1>3. OthersUntouched(d)
  BY <1>0, <1>2 DEF RetryDelivery, DropDelivery, OthersUntouched, history
<1>4. \/ outbox'[d].status = "pending" /\ outbox[d].status = "uncertain"
      \/ outbox'[d].status = "absent" /\ ~outbox'[d].edit
  BY <1>0 DEF RetryDelivery, DropDelivery, NoDelivery, Delivery
<1>5. DeliveryStep(d)
  <2>1. CASE RetryDelivery(d)
    <3>1. /\ outbox'[d].status = "pending" /\ outbox'[d].edit = outbox[d].edit
          /\ granted'[d] = granted[d] + NewPost(d)
      BY <1>0, <2>1 DEF RetryDelivery, Delivery, NewPost
    <3>2. Becomes(d, "pending", NewPost(d), posted[d], granted[d] + NewPost(d))
      BY <1>2, <3>1 DEF Becomes, NewPost
    <3> QED BY <2>1, <3>2 DEF RetryDelivery, DeliveryStep
  <2>2. CASE DropDelivery(d)
    <3>1. outbox'[d].status = "absent" /\ ~outbox'[d].edit /\ granted'[d] = granted[d]
      BY <1>0, <2>2 DEF DropDelivery, NoDelivery, history
    <3>2. Becomes(d, "absent", 1, posted[d], granted[d])
      BY <1>2, <3>1 DEF Becomes
    <3> QED BY <2>2, <3>2 DEF DropDelivery, DeliveryStep
  <2> QED BY <2>1, <2>2
<1>6. \A e \in Events : SentNow(e)' <=> SentNow(e)
  BY <1>2 DEF SentNow, task, e0
<1>7. SenderKnowsDelivery'
  <2>1. \A e \in Events : /\ outbox'[e].status = "absent" => ~outbox'[e].edit
                          /\ outbox'[e].status = "streaming" => outbox'[e].edit
    BY <1>3, <1>4 DEF Inv, SenderKnowsDelivery, OthersUntouched
  <2>2. \A s \in Sess : sess'[s].inflight = NoEvent => sess'[s].stream = NoEvent
    BY <1>1 DEF StreamsStay, StreamHasTurn
  <2>3. \A e \in Events : outbox[e].status \in {"sending", "absent", "streaming"} =>
                            outbox'[e].status \in {outbox[e].status, "absent"}
    BY <1>3, <1>4 DEF OthersUntouched
  <2>4. /\ pc = "sending" => cur \in Events
        /\ pc \notin {"down", "top", "sending"} => e0 \in Events
    BY HeadEvent DEF Inv, TypeOK
  <2>5. UNCHANGED <<pc, cur, e0, msgid, disabled>>
    BY <1>2 DEF task, e0
  <2> QED BY <2>1, <2>2, <2>3, <2>4, <2>5 DEF Inv, SenderKnowsDelivery, Turning
<1>8. Steps
  <2>1. ASSUME NEW e \in Events \ {d} PROVE Box'[e] = Box[e]
    <3>1. BoxState(e)' = BoxState(e)
      BY <1>3, <1>6 DEF OthersUntouched, BoxState
    <3> QED BY <1>3, <3>1 DEF OthersUntouched, Box
  <2>2. pc' = pc
    BY <1>2 DEF task
  <2> QED BY <1>5, <2>1, <2>2, DeliveryStepPromised DEF Steps
<1> QED BY <1>7, <1>8 DEF Inv

(* The daemon finds the outbox as it was cut off.                          *)
LEMMA RestartKeepsPromise ==
  ASSUME Inv, TypeOK', Restart
  PROVE  Inv' /\ UNCHANGED <<Box, Stops>>
<1>1. /\ pc = "down" /\ pc' = "top" /\ crashes' = crashes + 1 /\ crashes \in Nat
      /\ UNCHANGED <<outbox, sess, posted, granted>>
  BY DEF Restart, store, history, Inv, TypeOK
<1>2. \A d \in Events : BoxState(d)' = BoxState(d)
  BY <1>1 DEF BoxState, SentNow
<1>3. Stops' = Stops
  BY <1>1 DEF Stops
<1>4. SenderKnowsDelivery'
  BY <1>1 DEF Inv, SenderKnowsDelivery, Turning
<1> QED BY <1>1, <1>2, <1>3, <1>4 DEF Inv, Box

-----------------------------------------------------------------------------

LEMMA NextKeepsPromise ==
  ASSUME Inv, [Next]_vars
  PROVE  Inv' /\ [Promise!Next]_<<Box, Stops>>
<1>1. TypeOK' /\ crashes \in Nat
  BY NextKeepsType DEF Inv, TypeOK
<1>2. CASE Restart
  BY <1>1, <1>2, RestartKeepsPromise
<1>3. CASE ~Restart
  <2>5. Inv' /\ (Steps \/ Cuts)
    <3>1. CASE Bridge
      BY <1>1, <3>1, QuietBridge, SendsKeepPromise, StreamKeepsPromise, EndsKeepPromise
         DEF Bridge
    <3>2. CASE Clients
      BY <1>1, <3>2, QuietOthers, OperatorKeepsPromise DEF Clients
    <3>3. CASE Environment
      BY <1>1, <1>3, <3>3, QuietOthers DEF Environment
    <3>4. CASE UNCHANGED vars
      BY <1>1, <3>4, StreamsNow, QuietStep
         DEF vars, store, task, history, QuietTask, StreamsStay
    <3> QED BY <3>1, <3>2, <3>3, <3>4 DEF Next
  <2>6. crashes' = crashes
    BY <1>3, OnlyRestartCounts
  <2> QED BY <1>1, <2>5, <2>6, StepsArePromised
<1> QED BY <1>2, <1>3

LEMMA InitKeepsPromise ==
  ASSUME Init
  PROVE  Inv /\ Promise!Init
<1>1. TypeOK
  BY InitType
<1>2. SenderKnowsDelivery
  BY DEF Init, SenderKnowsDelivery, NoDelivery, NoSession, Turning
<1>3. Promise!Init
  <2>1. Stops = 0
    BY DEF Init, Stops
  <2> QED BY <2>1 DEF Init, Promise!Init, Promise!At, Box, BoxState, NoDelivery
<1> QED BY <1>1, <1>2, <1>3 DEF Inv

(* The bridge, its clients, its stops and restarts treat the outbox as it  *)
(* promises.                                                               *)
THEOREM OutboxRefined == Spec => OutboxPromise
<1>1. Init => Inv /\ Promise!Init
  BY InitKeepsPromise
<1>2. Inv /\ [Next]_vars => Inv' /\ [Promise!Next]_<<Box, Stops>>
  BY NextKeepsPromise
<1> QED BY <1>1, <1>2, PTL DEF Spec, OutboxPromise, Promise!Spec

(* So the channel is given each message at most once for the creation of   *)
(* its delivery, once for each retry that an operator confirmed, and once  *)
(* for each stop of the daemon.                                            *)
THEOREM PostedOnceForEachStop == Spec => []PostedOncePerStop
<1>1. Promise!Spec => []Promise!NoDuplicatePost
  BY PromiseNeverDuplicates
<1>2. Promise!NoDuplicatePost => PostedOncePerStop
  BY DEF Promise!NoDuplicatePost, PostedOncePerStop, Box
<1> QED BY <1>1, <1>2, OutboxRefined, PTL DEF OutboxPromise
=============================================================================
