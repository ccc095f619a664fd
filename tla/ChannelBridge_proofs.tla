-------------------------- MODULE ChannelBridge_proofs --------------------------
(***************************************************************************)
(* Theorems about the channel bridge, for any number of sessions, events   *)
(* and faults.                                                             *)
(***************************************************************************)
EXTENDS ChannelBridge, FiniteSetTheorems, SequenceTheorems, WellFoundedInduction, TLAPS

-----------------------------------------------------------------------------
(* The operations of the session store: each takes a session record to a   *)
(* session record and a delivery to a delivery, and what each does to the  *)
(* messages that a session owns.                                           *)

(* A set of naturals that is not empty has a least element.                *)
LEMMA LeastNatural ==
  ASSUME NEW S \in SUBSET Nat, S # {}
  PROVE  \E n \in S : \A m \in S : n <= m
<1> DEFINE R == {ss \in Nat \X Nat : ss[1] < ss[2]}
<1>1. IsWellFoundedOn(R, Nat)
  BY NatLessThanWellFounded DEF OpToRel
<1>2. PICK n \in S : \A m \in S : <<m, n>> \notin R
  BY <1>1, WFMin
<1>3. ASSUME NEW m \in S PROVE n <= m
  <2>1. m \in Nat /\ n \in Nat
    OBVIOUS
  <2>2. <<m, n>> \in Nat \X Nat /\ <<m, n>>[1] = m /\ <<m, n>>[2] = n
    BY <2>1
  <2>3. ~(m < n)
    BY <1>2, <2>2
  <2> QED BY <2>1, <2>3
<1> QED BY <1>3

(* Taking an element out of a sequence leaves a sequence over the same set *)
(* that is no longer.                                                      *)
LEMMA WithoutType ==
  ASSUME NEW q \in Seq(Events), NEW e
  PROVE  Without(q, e) \in Seq(Events) /\ Len(Without(q, e)) <= Len(q)
<1>1. CASE \E i \in 1..Len(q) : q[i] = e
  <2> DEFINE hits == {i \in 1..Len(q) : q[i] = e}
             First(i) == i \in 1..Len(q) /\ q[i] = e /\ \A j \in 1..(i - 1) : q[j] # e
             k == CHOOSE i \in 1..Len(q) : q[i] = e /\ \A j \in 1..(i - 1) : q[j] # e
  <2>0. Len(q) \in Nat
    BY LenProperties
  <2>a. hits \in SUBSET Nat /\ hits # {}
    BY <1>1, <2>0
  <2>1. PICK n \in hits : \A m \in hits : n <= m
    BY <2>a, LeastNatural
  <2>2. First(n)
    BY <2>0, <2>1
  <2>3. k \in 1..Len(q)
    BY <2>2
  <2> HIDE DEF k
  <2>4. \A i \in 1..Len(q) : q[i] \in Events
    BY ElementOfSeq
  <2>5. /\ SubSeq(q, 1, k - 1) \in Seq(Events)
        /\ Len(SubSeq(q, 1, k - 1)) = k - 1
    <3>1. \A i \in 1..(k - 1) : q[i] \in Events
      BY <2>0, <2>3, <2>4
    <3> QED BY <2>3, <3>1, SubSeqProperties
  <2>6. /\ SubSeq(q, k + 1, Len(q)) \in Seq(Events)
        /\ Len(SubSeq(q, k + 1, Len(q))) = Len(q) - k
    <3>1. \A i \in (k + 1)..Len(q) : q[i] \in Events
      BY <2>0, <2>3, <2>4
    <3> QED BY <2>0, <2>3, <3>1, SubSeqProperties
  <2>7. Without(q, e) = SubSeq(q, 1, k - 1) \o SubSeq(q, k + 1, Len(q))
    BY <1>1 DEF Without, k
  <2> DEFINE left == SubSeq(q, 1, k - 1)
             right == SubSeq(q, k + 1, Len(q))
  <2>8. left \o right \in Seq(Events) /\ Len(left \o right) = Len(left) + Len(right)
    <3> HIDE DEF left, right
    <3>1. left \in Seq(Events) /\ right \in Seq(Events)
      BY <2>5, <2>6 DEF left, right
    <3> QED BY <3>1, ConcatProperties
  <2>9. Len(left) = k - 1 /\ Len(right) = Len(q) - k
    BY <2>5, <2>6
  <2>10. Len(left) + Len(right) <= Len(q)
    <3> HIDE DEF left, right
    <3> QED BY <2>0, <2>3, <2>9
  <2>11. Without(q, e) = left \o right
    BY <2>7
  <2> HIDE DEF left, right
  <2> QED BY <2>8, <2>10, <2>11
<1>2. CASE ~ \E i \in 1..Len(q) : q[i] = e
  BY <1>2, LenProperties DEF Without
<1> QED BY <1>1, <1>2

(* The sequence q contains x.                                              *)
Holds(q, x) == \E i \in 1..Len(q) : q[i] = x

(* Taking an element out of a sequence moves the later ones up.            *)
LEMMA WithoutShape ==
  ASSUME NEW q \in Seq(Events), NEW e, Holds(q, e)
  PROVE  \E k \in 1..Len(q) :
           /\ q[k] = e /\ Len(Without(q, e)) = Len(q) - 1
           /\ \A i \in 1..(k - 1) : Without(q, e)[i] = q[i]
           /\ \A i \in k..(Len(q) - 1) : Without(q, e)[i] = q[i + 1]
<1> DEFINE hits == {i \in 1..Len(q) : q[i] = e}
           First(i) == i \in 1..Len(q) /\ q[i] = e /\ \A j \in 1..(i - 1) : q[j] # e
           k == CHOOSE i \in 1..Len(q) : q[i] = e /\ \A j \in 1..(i - 1) : q[j] # e
<1>0. Len(q) \in Nat /\ \E i \in 1..Len(q) : q[i] = e
  BY LenProperties DEF Holds
<1>a. hits \in SUBSET Nat /\ hits # {}
  BY <1>0
<1>1. PICK n \in hits : \A m \in hits : n <= m
  BY <1>a, LeastNatural
<1>2. First(n)
  BY <1>0, <1>1
<1>3. k \in 1..Len(q) /\ q[k] = e
  BY <1>2
<1>7. Without(q, e) = SubSeq(q, 1, k - 1) \o SubSeq(q, k + 1, Len(q))
  BY <1>0 DEF Without, k
<1> HIDE DEF k
<1>4. \A i \in 1..Len(q) : q[i] \in Events
  BY ElementOfSeq
<1> DEFINE left == SubSeq(q, 1, k - 1)
           right == SubSeq(q, k + 1, Len(q))
<1>5. /\ left \in Seq(Events) /\ Len(left) = k - 1
      /\ \A i \in 1..(k - 1) : left[i] = q[i]
  <2>1. \A i \in 1..(k - 1) : q[i] \in Events
    BY <1>0, <1>3, <1>4
  <2> QED BY <1>3, <2>1, SubSeqProperties
<1>6. /\ right \in Seq(Events) /\ Len(right) = Len(q) - k
      /\ \A i \in 1..(Len(q) - k) : right[i] = q[k + i]
  <2>1. \A i \in (k + 1)..Len(q) : q[i] \in Events
    BY <1>0, <1>3, <1>4
  <2> QED BY <1>0, <1>3, <2>1, SubSeqProperties
<1>8. Without(q, e) = left \o right
  BY <1>7
<1> HIDE DEF left, right
<1> DEFINE w == left \o right
<1>9. /\ Len(w) = Len(left) + Len(right)
      /\ \A i \in 1..(Len(left) + Len(right)) :
           w[i] = IF i <= Len(left) THEN left[i] ELSE right[i - Len(left)]
  BY <1>5, <1>6, ConcatProperties
<1> HIDE DEF w
<1>b. Len(w) = Len(q) - 1
  BY <1>0, <1>3, <1>5, <1>6, <1>9
<1>c. \A i \in 1..(k - 1) : w[i] = q[i]
  <2> TAKE i \in 1..(k - 1)
  <2>1. i \in 1..(Len(left) + Len(right)) /\ i <= Len(left)
    BY <1>0, <1>3, <1>5, <1>6
  <2> QED BY <1>5, <1>9, <2>1
<1>d. \A i \in k..(Len(q) - 1) : w[i] = q[i + 1]
  <2> TAKE i \in k..(Len(q) - 1)
  <2>1. i \in 1..(Len(left) + Len(right)) /\ ~(i <= Len(left))
    BY <1>0, <1>3, <1>5, <1>6
  <2>2. w[i] = right[i - (k - 1)]
    BY <1>5, <1>9, <2>1
  <2>3. i - (k - 1) \in 1..(Len(q) - k) /\ k + (i - (k - 1)) = i + 1
    BY <1>0, <1>3
  <2> QED BY <1>6, <2>2, <2>3
<1> QED BY <1>3, <1>8, <1>b, <1>c, <1>d DEF w

(* It keeps the others, and adds none.                                     *)
LEMMA WithoutKeeps ==
  ASSUME NEW q \in Seq(Events), NEW e, NEW x
  PROVE  /\ x # e /\ Holds(q, x) => Holds(Without(q, e), x)
         /\ Holds(Without(q, e), x) => Holds(q, x)
<1>1. CASE Holds(q, e)
  <2> DEFINE w == Without(q, e)
  <2>0. Len(q) \in Nat
    BY LenProperties
  <2>1. PICK k \in 1..Len(q) :
          /\ q[k] = e /\ Len(w) = Len(q) - 1
          /\ \A i \in 1..(k - 1) : w[i] = q[i]
          /\ \A i \in k..(Len(q) - 1) : w[i] = q[i + 1]
    BY <1>1, WithoutShape
  <2> HIDE DEF w
  <2>2. ASSUME x # e, NEW i \in 1..Len(q), q[i] = x
        PROVE  \E j \in 1..Len(w) : w[j] = x
    <3>1. CASE i < k
      BY <2>0, <2>1, <2>2, <3>1
    <3>2. CASE i > k
      <4>1. i - 1 \in k..(Len(q) - 1) /\ i - 1 \in 1..Len(w) /\ (i - 1) + 1 = i
        BY <2>0, <2>1, <3>2
      <4>2. w[i - 1] = q[(i - 1) + 1]
        BY <2>1, <4>1
      <4> QED BY <2>2, <4>1, <4>2
    <3>3. i # k
      BY <2>1, <2>2
    <3> QED BY <2>0, <3>1, <3>2, <3>3
  <2>3. ASSUME NEW i \in 1..Len(w), w[i] = x
        PROVE  \E j \in 1..Len(q) : q[j] = x
    <3>1. CASE i < k
      BY <2>0, <2>1, <2>3, <3>1
    <3>2. CASE i >= k
      BY <2>0, <2>1, <2>3, <3>2
    <3> QED BY <2>0, <2>1, <3>1, <3>2
  <2> QED BY <2>2, <2>3 DEF w, Holds
<1>2. CASE ~Holds(q, e)
  BY <1>2 DEF Without, Holds
<1> QED BY <1>1, <1>2

LEMMA AppendKeeps ==
  ASSUME NEW q \in Seq(Events), NEW e \in Events, NEW x
  PROVE  Holds(Append(q, e), x) <=> x = e \/ Holds(q, x)
<1>1. /\ Len(q) \in Nat /\ Len(Append(q, e)) = Len(q) + 1
      /\ \A i \in 1..Len(q) : Append(q, e)[i] = q[i]
      /\ Append(q, e)[Len(q) + 1] = e
  BY AppendProperties, LenProperties
<1>2. \A i \in 1..Len(Append(q, e)) : i \in 1..Len(q) \/ i = Len(q) + 1
  BY <1>1
<1>3. Len(q) + 1 \in 1..Len(Append(q, e)) /\ 1..Len(q) \subseteq 1..Len(Append(q, e))
  BY <1>1
<1> QED BY <1>1, <1>2, <1>3 DEF Holds

-----------------------------------------------------------------------------
(* The operations on a session record.                                     *)

LEMMA EmptyQueue == <<>> \in Seq(Events)
  OBVIOUS

LEMMA NoSessionType == NoSession \in Session
  BY EmptyQueue DEF NoSession, Session, Statuses, NoEvent

LEMMA EnsureType ==
  ASSUME NEW r \in Session
  PROVE  Ensure(r) \in Session
  BY EmptyQueue DEF Ensure, NoSession, Session, Statuses, NoEvent

LEMMA RecoveredType ==
  ASSUME NEW r \in Session
  PROVE  Recovered(r) \in Session
  BY DEF Recovered, Session, Statuses

LEMMA QueueType ==
  ASSUME NEW r \in Session, NEW e \in Events
  PROVE  Queue(r, e) \in Session
<1>1. Append(r.queued, e) \in Seq(Events)
  BY AppendProperties DEF Session
<1> QED BY <1>1 DEF Queue, Session, Statuses

LEMMA BeginType ==
  ASSUME NEW r \in Session, NEW e \in Events
  PROVE  Begin(r, e) \in Session
<1>1. Without(r.queued, e) \in Seq(Events)
  BY WithoutType DEF Session
<1> QED BY <1>1 DEF Begin, Session, Statuses, NoEvent

LEMMA ClearType ==
  ASSUME NEW r \in Session, NEW status \in Statuses
  PROVE  Clear(r, status) \in Session
  BY EmptyQueue DEF Clear, Session, NoEvent

LEMMA SetStatusType ==
  ASSUME NEW r \in Session, NEW status \in Statuses
  PROVE  SetStatus(r, status) \in Session
  BY EmptyQueue DEF SetStatus, Session, NoEvent

LEMMA CancelType ==
  ASSUME NEW r \in Session
  PROVE  Cancel(r) \in Session
  BY SetStatusType, ClearType DEF Cancel, Statuses

LEMMA PushType ==
  ASSUME NEW r \in Session
  PROVE  Push(r) \in Session /\ AppendMessage(r) \in Session
  BY DEF Push, AppendMessage, Session, Statuses

LEMMA ReplySessionType ==
  ASSUME NEW r \in Session
  PROVE  ReplySession(r) \in Session
  BY DEF ReplySession, Session, Statuses, NoEvent

LEMMA ReserveType ==
  ASSUME NEW r \in Session
  PROVE  Reserve(r) \in Session
  BY DEF Reserve, Session, Statuses

LEMMA StartStreamType ==
  ASSUME NEW r \in Session, NEW d \in Events
  PROVE  StartStream(r, d) \in Session
  BY DEF StartStream, Session

-----------------------------------------------------------------------------
(* Only a session with a turn has a stream, and no operation of the store  *)
(* leaves the stream of a turn behind.                                     *)

StreamHasTurn(r) == r.inflight = NoEvent => r.stream = NoEvent

LEMMA StreamsHaveTurns ==
  ASSUME NEW r \in Session, StreamHasTurn(r)
  PROVE  /\ StreamHasTurn(NoSession) /\ StreamHasTurn(Ensure(r))
         /\ StreamHasTurn(Recovered(r)) /\ StreamHasTurn(Cancel(r))
         /\ StreamHasTurn(Push(r)) /\ StreamHasTurn(AppendMessage(r))
         /\ StreamHasTurn(ReplySession(r)) /\ StreamHasTurn(Reserve(r))
         /\ \A status \in Statuses : /\ StreamHasTurn(Clear(r, status))
                                     /\ StreamHasTurn(SetStatus(r, status))
         /\ \A e \in Events : /\ StreamHasTurn(Queue(r, e))
                              /\ StreamHasTurn(Begin(r, e))
                              /\ r.inflight # NoEvent => StreamHasTurn(StartStream(r, e))
<1> USE DEF StreamHasTurn
<1>1. /\ StreamHasTurn(NoSession) /\ StreamHasTurn(Ensure(r)) /\ StreamHasTurn(Recovered(r))
  BY DEF NoSession, Ensure, Recovered, Session
<1>2. /\ StreamHasTurn(Push(r)) /\ StreamHasTurn(AppendMessage(r))
      /\ StreamHasTurn(ReplySession(r)) /\ StreamHasTurn(Reserve(r))
  BY DEF Push, AppendMessage, ReplySession, Reserve, Session
<1>3. \A status \in Statuses : /\ StreamHasTurn(Clear(r, status))
                               /\ StreamHasTurn(SetStatus(r, status))
  BY DEF Clear, SetStatus, Session
<1>4. \A e \in Events : /\ StreamHasTurn(Queue(r, e)) /\ StreamHasTurn(Begin(r, e))
                        /\ r.inflight # NoEvent => StreamHasTurn(StartStream(r, e))
  BY DEF Queue, Begin, StartStream, Session
<1>5. StreamHasTurn(Cancel(r))
  BY <1>3 DEF Cancel, Statuses
<1> HIDE DEF StreamHasTurn
<1> QED BY <1>1, <1>2, <1>3, <1>4, <1>5

-----------------------------------------------------------------------------
(* What a session owns: its queued messages and that of its turn.          *)

Owns(r, e) == InQueue(r, e) \/ r.inflight = e

(* An absent session owns nothing.                                         *)
GoneOwnsNothing(r) == r.status = "absent" => r.queued = <<>> /\ r.inflight = NoEvent

(* r becomes r2 without taking in or letting go of a message.              *)
SameMessages(r, r2) ==
  /\ r2.queued = r.queued /\ r2.inflight = r.inflight /\ r2.messages = r.messages
  /\ r2.status = "absent" => r.status = "absent"

LEMMA EmptyOwnsNothing ==
  ASSUME NEW r, r.queued = <<>>, NEW e
  PROVE  ~InQueue(r, e)
<1>1. Len(r.queued) = 0
  BY EmptySeq
<1> QED BY <1>1 DEF InQueue

LEMMA SameOperations ==
  ASSUME NEW r \in Session
  PROVE  /\ SameMessages(r, Recovered(r)) /\ SameMessages(r, Push(r))
         /\ SameMessages(r, AppendMessage(r)) /\ SameMessages(r, Reserve(r))
         /\ SameMessages(r, [r EXCEPT !.phase = "unsafe"])
         /\ SameMessages(r, [r EXCEPT !.lease = "expired"])
         /\ \A e \in Events : SameMessages(r, StartStream(r, e))
         /\ \A status \in {"idle", "working", "interrupted"} :
              SameMessages(r, SetStatus(r, status))
  BY DEF SameMessages, Recovered, Push, AppendMessage, Reserve, StartStream, SetStatus, Session

LEMMA QueueOwns ==
  ASSUME NEW r \in Session, NEW e \in Events
  PROVE  /\ InQueue(Queue(r, e), e)
         /\ \A x : Owns(Queue(r, e), x) <=> Owns(r, x) \/ x = e
         /\ Queue(r, e).inflight = r.inflight /\ Queue(r, e).messages = r.messages
         /\ Queue(r, e).status = "absent" => r.status = "absent"
<1>1. CASE InQueue(r, e)
  BY <1>1 DEF Queue, Owns
<1>2. CASE ~InQueue(r, e)
  <2> DEFINE r2 == Queue(r, e)
  <2>1. /\ r2.queued = Append(r.queued, e) /\ r2.inflight = r.inflight
        /\ r2.messages = r.messages /\ (r2.status = "absent" => r.status = "absent")
    BY <1>2 DEF Queue, Session
  <2>2. r.queued \in Seq(Events)
    BY DEF Session
  <2> HIDE DEF r2
  <2>3. \A x : InQueue(r2, x) <=> x = e \/ InQueue(r, x)
    BY <2>1, <2>2, AppendKeeps DEF InQueue, Holds
  <2>4. \A x : Owns(r2, x) <=> Owns(r, x) \/ x = e
    BY <2>1, <2>3 DEF Owns
  <2> QED BY <2>1, <2>3, <2>4 DEF r2
<1> QED BY <1>1, <1>2

LEMMA EnsureOwns ==
  ASSUME NEW r \in Session, GoneOwnsNothing(r)
  PROVE  /\ Ensure(r).queued = r.queued /\ Ensure(r).inflight = r.inflight
         /\ \A x : Owns(Ensure(r), x) <=> Owns(r, x)
         /\ Ensure(r).messages \subseteq r.messages
         /\ Ensure(r).status # "absent"
<1>1. CASE r.status = "absent"
  <2>1. /\ Ensure(r).queued = <<>> /\ Ensure(r).inflight = NoEvent
        /\ Ensure(r).messages = {} /\ Ensure(r).status = "idle"
    BY <1>1 DEF Ensure, NoSession
  <2>2. r.queued = <<>> /\ r.inflight = NoEvent
    BY <1>1 DEF GoneOwnsNothing
  <2> QED BY <2>1, <2>2 DEF Owns, InQueue
<1>2. CASE r.status # "absent"
  BY <1>2 DEF Ensure
<1> QED BY <1>1, <1>2

LEMMA BeginOwns ==
  ASSUME NEW r \in Session, NEW e \in Events, r.inflight = NoEvent
  PROVE  /\ Begin(r, e).inflight = e /\ Begin(r, e).status = "working"
         /\ Begin(r, e).messages = r.messages \cup {e}
         /\ \A x \in Events : Owns(r, x) => Owns(Begin(r, e), x)
         /\ \A x \in Events : Owns(Begin(r, e), x) => Owns(r, x) \/ x = e
<1> DEFINE r2 == Begin(r, e)
<1>1. /\ r2.queued = Without(r.queued, e) /\ r2.inflight = e
      /\ r2.messages = r.messages \cup {e} /\ r2.status = "working"
  BY DEF Begin, Session
<1>2. r.queued \in Seq(Events) /\ NoEvent \notin Events
  BY StoreAssumption DEF Session, NoEvent
<1> HIDE DEF r2
<1> DEFINE q == r.queued
<1>a. q \in Seq(Events) /\ r2.queued = Without(q, e)
  BY <1>1, <1>2
<1>3. \A x : /\ InQueue(r, x) => InQueue(r2, x) \/ x = e
             /\ InQueue(r2, x) => InQueue(r, x)
  <2> TAKE x
  <2>1. /\ x # e /\ Holds(q, x) => Holds(Without(q, e), x)
        /\ Holds(Without(q, e), x) => Holds(q, x)
    BY <1>2, WithoutKeeps
  <2>2. (InQueue(r, x) <=> Holds(q, x)) /\ (InQueue(r2, x) <=> Holds(r2.queued, x))
    BY DEF InQueue, Holds
  <2> QED BY <1>a, <2>1, <2>2
<1>5. \A x \in Events : Owns(r, x) => Owns(r2, x)
  BY <1>1, <1>2, <1>3 DEF Owns
<1>6. \A x \in Events : Owns(r2, x) => Owns(r, x) \/ x = e
  BY <1>1, <1>3 DEF Owns
<1> QED BY <1>1, <1>5, <1>6 DEF r2

LEMMA EndOwns ==
  ASSUME NEW r \in Session
  PROVE  /\ \A r2 \in {Clear(r, "interrupted"), ReplySession(r)} :
              /\ r2.inflight = NoEvent /\ r2.messages = r.messages /\ r2.queued = r.queued
              /\ r2.status # "absent" /\ r2 \in Session
         /\ Clear(r, "cancelled").queued = <<>> /\ Clear(r, "cancelled").inflight = NoEvent
         /\ Clear(r, "cancelled").messages = r.messages
         /\ Cancel(r).queued = <<>> /\ Cancel(r).inflight = r.inflight
         /\ Cancel(r).messages = r.messages
<1>1. Clear(r, "interrupted") \in Session /\ ReplySession(r) \in Session
  BY ClearType, ReplySessionType DEF Statuses
<1>2. \A r2 \in {Clear(r, "interrupted"), ReplySession(r)} :
        /\ r2.inflight = NoEvent /\ r2.messages = r.messages /\ r2.queued = r.queued
        /\ r2.status # "absent"
  BY DEF Clear, ReplySession, Session
<1>3. /\ Clear(r, "cancelled").queued = <<>> /\ Clear(r, "cancelled").inflight = NoEvent
      /\ Clear(r, "cancelled").messages = r.messages
  BY DEF Clear, Session
<1>4. /\ Cancel(r).queued = <<>> /\ Cancel(r).inflight = r.inflight
      /\ Cancel(r).messages = r.messages
  BY <1>3 DEF Cancel, SetStatus, Session
<1> QED BY <1>1, <1>2, <1>3, <1>4

-----------------------------------------------------------------------------
(* The operations on a delivery.                                           *)

LEMMA DeliveryTypes ==
  /\ NoDelivery \in Delivery
  /\ StreamDelivery \in Delivery
  BY DEF NoDelivery, StreamDelivery, Delivery, DeliveryStatuses, Texts

LEMMA ReplyDeliveryType ==
  ASSUME NEW d, NEW r, NEW text \in Texts, NEW old \in Delivery
  PROVE  ReplyDelivery(d, r, text, old) \in Delivery
  BY DEF ReplyDelivery, Delivery, DeliveryStatuses

LEMMA ClearDeliveryType ==
  ASSUME NEW ob \in [Events -> Delivery], NEW r
  PROVE  ClearDelivery(ob, r) \in [Events -> Delivery]
  BY DEF ClearDelivery, Delivery, DeliveryStatuses

-----------------------------------------------------------------------------
(* The bridge.                                                             *)

LEMMA Constants ==
  /\ Cardinality(Events) \in Nat
  /\ Events = 1..Cardinality(Events) /\ NoEvent \notin Events
  /\ Chat \in [Events -> Sess]
  BY FS_CardinalityType, StoreAssumption, BridgeAssumption DEF NoEvent

LEMMA OneEvent ==
  ASSUME NEW e \in Events
  PROVE  <<e>> \in Seq(Events) /\ <<e>> # <<>>
  OBVIOUS

LEMMA Bounded ==
  ASSUME TypeOK
  PROVE  {fails + 1, cancels + 1, crashes + 1, ops + 1, reserves + 1} \subseteq Nat
<1>1. /\ fails \in Nat /\ cancels \in Nat /\ crashes \in Nat
      /\ ops \in Nat /\ reserves \in Nat
  BY DEF TypeOK
<1> QED BY <1>1

(* What the type invariant says of the event in hand.                      *)
LEMMA HeadEvent ==
  ASSUME TypeOK, batch # <<>>
  PROVE  /\ e0 \in Events /\ Chat[e0] \in Sess /\ Here \in Session
         /\ Head(batch) \in Events /\ Chat[Head(batch)] \in Sess
         /\ sess[Chat[Head(batch)]] \in Session
         /\ Tail(batch) \in Seq(Events)
         /\ Len(batch) # 1 => Tail(batch) # <<>>
<1>1. batch \in Seq(Events) /\ sess \in [Sess -> Session]
  BY DEF TypeOK
<1>2. e0 \in Events /\ Tail(batch) \in Seq(Events) /\ Len(Tail(batch)) = Len(batch) - 1
  BY <1>1, HeadTailProperties DEF e0
<1>3. Len(batch) # 1 => Tail(batch) # <<>>
  <2>1. \A q \in Seq(Events) : q = <<>> => Len(q) = 0
    BY EmptySeq, Zenon
  <2>2. Len(batch) \in Nat
    BY <1>1, LenProperties
  <2>3. ASSUME Len(batch) # 1 PROVE Len(Tail(batch)) # 0
    BY <1>2, <2>2, <2>3
  <2> QED BY <1>2, <2>1, <2>3, Zenon
<1> QED BY <1>1, <1>2, <1>3, Constants DEF e0, Here

(* Moving to the next event of the batch, or out of it.                    *)
LEMMA NextEventType ==
  ASSUME TypeOK, batch # <<>>, NextEvent \/ BreakBatch
  PROVE  /\ batch' \in Seq(Events) /\ pc' \in {"top", "admit"}
         /\ pc' = "admit" => batch' # <<>>
         /\ UNCHANGED <<picked, cur, msgid, disabled>>
<1>1. Tail(batch) \in Seq(Events) /\ (Len(batch) # 1 => Tail(batch) # <<>>)
  BY HeadEvent
<1>2. CASE NextEvent
  BY <1>1, <1>2 DEF NextEvent
<1>3. CASE BreakBatch
  BY <1>3, EmptyQueue DEF BreakBatch
<1> QED BY <1>2, <1>3

LEMMA CommitType ==
  ASSUME TypeOK, NEW e \in Events, NEW retained, CommitEvent(e, retained)
  PROVE  /\ seen' \subseteq Events /\ deferred' \in Seq(Events)
         /\ offset' \in 0..(Cardinality(Events) + 1)
<1>1. deferred \in Seq(Events) /\ Without(deferred, e) \in Seq(Events)
  BY WithoutType DEF TypeOK
<1>2. e + 1 \in 0..(Cardinality(Events) + 1)
  BY Constants
<1>3. seen \subseteq Events /\ offset \in 0..(Cardinality(Events) + 1)
  BY DEF TypeOK
<1> QED BY <1>1, <1>2, <1>3 DEF CommitEvent

LEMMA StoppedType ==
  ASSUME Stopped
  PROVE  /\ pc' = "down" /\ batch' \in Seq(Events)
         /\ picked' \in Events \cup {NoEvent} /\ cur' \in Events \cup {NoEvent}
         /\ msgid' \in BOOLEAN /\ disabled' \in BOOLEAN
         /\ token' \in [Sess -> {"absent", "fresh", "requested"}]
         /\ asked' \in [Sess -> {"no", "marked", "waiting", "orphan"}]
  BY EmptyQueue DEF Stopped

LEMMA DispatchType ==
  ASSUME TypeOK, NEW d \in Events, NEW ob \in [Events -> Delivery], Dispatch(d, ob)
  PROVE  told' \subseteq Events /\ posted' \in [Events -> Nat]
<1>1. ob[d].edit \in BOOLEAN
  BY DEF Delivery
<1>2. told \subseteq Events /\ posted \in [Events -> Nat]
  BY DEF TypeOK
<1>3. posted[d] + (IF ob[d].edit THEN 0 ELSE 1) \in Nat
  BY <1>2
<1> QED BY <1>2, <1>3 DEF Dispatch

(* How the outbox and the task change when the outcome of a send is known. *)
LEMMA SentType ==
  ASSUME TypeOK, NEW d \in Events, NEW next \in PCs,
         SendAccepted(d, next) \/ SendFailed(d, next)
  PROVE  /\ outbox' \in [Events -> Delivery]
         /\ \/ /\ pc' = next /\ cur' = NoEvent
               /\ UNCHANGED <<batch, picked, msgid, disabled, token, asked>>
            \/ Stopped
<1>1. CASE SendAccepted(d, next)
  BY <1>1, DeliveryTypes DEF TypeOK, SendAccepted, cancelling
<1>2. CASE SendFailed(d, next)
  <2>1. [outbox[d] EXCEPT !.status = "uncertain"] \in Delivery
    BY DEF TypeOK, Delivery, DeliveryStatuses
  <2> QED BY <1>2, <2>1 DEF TypeOK, SendFailed, cancelling
<1> QED BY <1>1, <1>2

-----------------------------------------------------------------------------
(* Type correctness, an action at a time.                                  *)

LEMMA TopKeepsType ==
  ASSUME TypeOK,
         \/ \E d \in Events : SendPending(d)
         \/ PendingSent
         \/ \E s \in Sess : PickQueued(s)
         \/ PickDeferred
         \/ \E first \in Events : Poll(first)
  PROVE  TypeOK'
<1> USE DEF store, task, cancelling, bounds, history
<1>1. ASSUME NEW d \in Events, SendPending(d)
      PROVE  TypeOK'
  <2>1. outbox \in [Events -> Delivery]
    BY DEF TypeOK
  <2>2. told' \subseteq Events /\ posted' \in [Events -> Nat]
    BY <1>1, <2>1, DispatchType DEF SendPending
  <2>3. [outbox[d] EXCEPT !.status = "sending"] \in Delivery
    BY <2>1 DEF Delivery, DeliveryStatuses
  <2> QED BY <1>1, <2>2, <2>3, Constants DEF TypeOK, SendPending, PCs
<1>2. CASE PendingSent
  <2>1. cur \in Events /\ "top" \in PCs
    BY <1>2 DEF TypeOK, PendingSent, PCs
  <2>2. SendAccepted(cur, "top") \/ SendFailed(cur, "top")
    BY <1>2 DEF PendingSent
  <2>3. outbox' \in [Events -> Delivery]
    BY <2>1, <2>2, SentType
  <2>4. CASE Stopped
    BY <1>2, <2>3, <2>4, StoppedType DEF TypeOK, PendingSent, PCs
  <2>5. CASE /\ pc' = "top" /\ cur' = NoEvent
             /\ UNCHANGED <<batch, picked, msgid, disabled, token, asked>>
    BY <1>2, <2>3, <2>5 DEF TypeOK, PendingSent, PCs
  <2> QED BY <2>1, <2>2, <2>4, <2>5, SentType
<1>3. ASSUME NEW s \in Sess, PickQueued(s)
      PROVE  TypeOK'
  <2>1. sess[s].queued \in Seq(Events) /\ sess[s].queued # <<>>
    BY <1>3 DEF TypeOK, Session, PickQueued, Runnable
  <2>2. Head(sess[s].queued) \in Events
    BY <2>1, HeadTailProperties
  <2>3. batch' \in Seq(Events) /\ batch' # <<>> /\ picked' \in Events
    BY <1>3, <2>2, OneEvent DEF PickQueued
  <2> QED BY <1>3, <2>3 DEF TypeOK, PickQueued, PCs
<1>4. CASE PickDeferred
  <2>1. Head(deferred) \in Events
    BY <1>4, HeadTailProperties DEF TypeOK, PickDeferred
  <2>2. batch' \in Seq(Events) /\ batch' # <<>>
    BY <1>4, <2>1, OneEvent DEF PickDeferred
  <2> QED BY <1>4, <2>2 DEF TypeOK, PickDeferred, PCs
<1>5. ASSUME NEW first \in Events, Poll(first)
      PROVE  TypeOK'
  <2> DEFINE n == arrived - first + 1
  <2>1. n \in Nat \ {0} /\ \A i \in 1..n : first + i - 1 \in Events
    <3>1. arrived \in Nat /\ first \in 1..arrived /\ arrived <= Cardinality(Events)
      BY <1>5, Constants DEF TypeOK, Poll
    <3> QED BY <3>1, Constants
  <2>2. batch' = [i \in 1..n |-> first + i - 1]
    BY <1>5 DEF Poll
  <2> HIDE DEF n
  <2>3. batch' \in Seq(Events) /\ Len(batch') = n
    BY <2>1, <2>2
  <2>4. batch' # <<>>
    BY <2>1, <2>3
  <2> QED BY <1>5, <2>3, <2>4 DEF TypeOK, Poll, PCs
<1> QED BY <1>1, <1>2, <1>3, <1>4, <1>5

(* A turn is begun: its session takes the message in.                      *)
LEMMA BeginTurnType ==
  ASSUME TypeOK, NEW e \in Events, NEW r \in Session, BeginTurn(e, r)
  PROVE  /\ sess' = [sess EXCEPT ![Chat[e]] = Begin(r, e)]
         /\ sess' \in [Sess -> Session] /\ deferred' \in Seq(Events)
<1>1. sess \in [Sess -> Session] /\ Chat[e] \in Sess /\ Begin(r, e) \in Session
  BY BeginType, BridgeAssumption DEF TypeOK
<1>2. sess' = [sess EXCEPT ![Chat[e]] = Begin(r, e)]
  BY DEF BeginTurn
<1>3. deferred \in Seq(Events) /\ Without(deferred, e) \in Seq(Events)
  BY WithoutType DEF TypeOK
<1>4. deferred' = deferred \/ deferred' = Without(deferred, e)
  BY DEF BeginTurn
<1> QED BY <1>1, <1>2, <1>3, <1>4

LEMMA NoRoomKeepsType ==
  ASSUME TypeOK, NoRoom
  PROVE  TypeOK'
<1> USE DEF store, task, cancelling, bounds, history
<1>0. batch # <<>> /\ Head(batch) \in Events /\ Ensure(NoSession) \in Session
  <2>1. batch # <<>>
    BY DEF TypeOK, NoRoom
  <2> QED BY <2>1, HeadEvent, EnsureType, NoSessionType
<1>1. sess' \in [Sess -> Session] /\ deferred' \in Seq(Events)
  <2>1. UNCHANGED <<sess, deferred>> \/ BeginTurn(Head(batch), Ensure(NoSession))
    BY DEF NoRoom
  <2>2. sess \in [Sess -> Session] /\ deferred \in Seq(Events)
    BY DEF TypeOK
  <2> QED BY <1>0, <2>1, <2>2, BeginTurnType
<1> QED BY <1>0, <1>1 DEF TypeOK, NoRoom, Goto, PCs

LEMMA AdmissionKeepsType ==
  ASSUME TypeOK,
         \/ Reject \/ Discard \/ NoRoom \/ AdmitDuplicate \/ AdmitQueue \/ AdmitBegin
         \/ Defer \/ Commit \/ StartTurn
  PROVE  TypeOK'
<1> USE DEF store, task, cancelling, bounds, history
<1>0. /\ batch # <<>> /\ pc # "down"
      /\ Head(batch) \in Events /\ Chat[Head(batch)] \in Sess
      /\ Ensure(sess[Chat[Head(batch)]]) \in Session /\ sess[Chat[Head(batch)]] \in Session
  <2>1. batch # <<>> /\ pc # "down"
    BY DEF TypeOK, Reject, Discard, NoRoom, AdmitDuplicate, AdmitQueue, AdmitBegin,
           Admitting, Defer, Commit, StartTurn
  <2> QED BY <2>1, HeadEvent, EnsureType
<1>1. CASE Reject \/ AdmitDuplicate
  BY <1>0, <1>1 DEF TypeOK, Reject, AdmitDuplicate, Goto, PCs
<1>2. CASE Discard
  BY <1>0, <1>2 DEF TypeOK, Discard, Goto, PCs
<1>3. CASE AdmitQueue
  <2> DEFINE e == Head(batch)
             r == sess[Chat[e]]
  <2>1. Queue(r, e) \in Session
    BY <1>0, QueueType
  <2>2. sess' \in [Sess -> Session]
    BY <1>0, <1>3, <2>1 DEF TypeOK, AdmitQueue
  <2> QED BY <1>0, <1>3, <2>2 DEF TypeOK, AdmitQueue, Goto, PCs
<1>4. CASE AdmitBegin
  <2> DEFINE e == Head(batch)
             r == Ensure(sess[Chat[e]])
  <2>2. sess' \in [Sess -> Session] /\ deferred' \in Seq(Events)
    <3>1. sess \in [Sess -> Session] /\ Chat[e] \in Sess /\ deferred \in Seq(Events)
      BY <1>0 DEF TypeOK
    <3>2. \/ sess' = [sess EXCEPT ![Chat[e]] = r] /\ UNCHANGED deferred
          \/ BeginTurn(e, r)
      BY <1>4 DEF AdmitBegin
    <3>3. e \in Events /\ r \in Session
      BY <1>0
    <3> HIDE DEF r, e
    <3> QED BY <3>1, <3>2, <3>3, BeginTurnType
  <2>4. turns' \in [Events -> Nat]
    <3>0. turns \in [Events -> Nat]
      BY DEF TypeOK
    <3>1. turns[e] + 1 \in Nat
      BY <1>0, <3>0
    <3>2. turns' = turns \/ turns' = [turns EXCEPT ![e] = @ + 1]
      BY <1>4 DEF AdmitBegin
    <3> QED BY <3>0, <3>1, <3>2
  <2>5. CASE BreakBatch
    BY <1>0, <1>4, <2>2, <2>4, <2>5, NextEventType DEF TypeOK, AdmitBegin, PCs
  <2>6. CASE Goto("begun")
    BY <1>0, <1>4, <2>2, <2>4, <2>6 DEF TypeOK, AdmitBegin, Goto, PCs
  <2> QED BY <1>4, <2>5, <2>6 DEF AdmitBegin
<1>5. CASE Defer
  <2>1. deferred' \in Seq(Events)
    <3>1. deferred \in Seq(Events) /\ Append(deferred, Head(batch)) \in Seq(Events)
      BY <1>0, AppendProperties DEF TypeOK
    <3> QED BY <1>5, <3>1 DEF Defer
  <2>2. CASE NextEvent \/ BreakBatch
    BY <1>0, <1>5, <2>1, <2>2, NextEventType DEF TypeOK, Defer, PCs
  <2>3. CASE Goto("retain")
    BY <1>0, <1>5, <2>1, <2>3 DEF TypeOK, Defer, Goto, PCs
  <2> QED BY <1>5, <2>2, <2>3 DEF Defer
<1>6. CASE Commit
  <2>1. CommitEvent(Head(batch), pc = "retain") /\ NextEvent
    BY <1>6 DEF Commit
  <2>2. /\ seen' \subseteq Events /\ deferred' \in Seq(Events)
        /\ offset' \in 0..(Cardinality(Events) + 1)
    BY <1>0, <2>1, CommitType
  <2> QED BY <1>0, <1>6, <2>1, <2>2, NextEventType DEF TypeOK, Commit, PCs
<1>7. CASE StartTurn
  <2>1. /\ seen' \subseteq Events /\ deferred' \in Seq(Events)
        /\ offset' \in 0..(Cardinality(Events) + 1)
    BY <1>0, <1>7, CommitType DEF TypeOK, StartTurn
  <2> QED BY <1>0, <1>7, <2>1 DEF TypeOK, StartTurn, PCs
<1> QED BY <1>1, <1>2, <1>3, <1>4, <1>5, <1>6, <1>7, NoRoomKeepsType

LEMMA TurnKeepsType ==
  ASSUME TypeOK,
         \/ MutatingTool \/ ToolPush \/ ToolPushed
         \/ FlushFirst \/ FlushEdit \/ Flushed
         \/ \E e \in Events : SideEvent(e)
         \/ SideDefer \/ SideCommit
  PROVE  TypeOK'
<1> USE DEF store, task, cancelling, bounds, history
<1>0. /\ batch # <<>> /\ pc # "down"
      /\ e0 \in Events /\ Chat[e0] \in Sess /\ Here \in Session
      /\ outbox[e0] \in Delivery
  <2>1. batch # <<>> /\ pc # "down"
    BY DEF TypeOK, MutatingTool, ToolPush, ToolPushed, FlushFirst, FlushEdit, Flushed,
           SideEvent, SideDefer, SideCommit
  <2> QED BY <2>1, HeadEvent DEF TypeOK
<1>1. CASE MutatingTool
  <2>1. sess' = [sess EXCEPT ![Chat[e0]] = [Here EXCEPT !.phase = "unsafe"]]
    BY <1>1 DEF MutatingTool, Here
  <2>2. [Here EXCEPT !.phase = "unsafe"] \in Session
    BY <1>0 DEF Session
  <2> QED BY <1>0, <1>1, <2>1, <2>2 DEF TypeOK, MutatingTool
<1>2. CASE ToolPush
  <2>1. Push(Here) \in Session
    BY <1>0, PushType
  <2> QED BY <1>0, <1>2, <2>1 DEF TypeOK, ToolPush, Goto, PCs
<1>3. CASE ToolPushed
  <2>1. SetStatus(Here, "working") \in Session
    BY <1>0, SetStatusType DEF Statuses
  <2> QED BY <1>0, <1>3, <2>1 DEF TypeOK, ToolPushed, Goto, PCs
<1>4. CASE FlushFirst
  <2>1. CASE StreamRefuses(Here, outbox, e0)
    BY <1>0, <1>4, <2>1 DEF TypeOK, FlushFirst
  <2>2. CASE ~StreamRefuses(Here, outbox, e0)
    <3>1. StartStream(Here, e0) \in Session
      BY <1>0, StartStreamType
    <3>2. outbox' \in [Events -> Delivery]
      BY <1>4, <2>2, DeliveryTypes DEF TypeOK, FlushFirst
    <3>3. told' \subseteq Events /\ posted' \in [Events -> Nat]
      BY <1>0, <1>4, <2>2, <3>2, DispatchType DEF FlushFirst
    <3>4. granted' \in [Events -> Nat]
      <4>1. granted \in [Events -> Nat]
        BY DEF TypeOK
      <4>2. granted[e0] + 1 \in Nat
        BY <1>0, <4>1
      <4>3. granted' = [granted EXCEPT ![e0] = @ + 1]
        BY <1>4, <2>2 DEF FlushFirst
      <4> QED BY <4>1, <4>2, <4>3
    <3>5. sess' \in [Sess -> Session]
      BY <1>0, <1>4, <2>2, <3>1 DEF TypeOK, FlushFirst
    <3> QED BY <1>0, <1>4, <2>2, <3>2, <3>3, <3>4, <3>5 DEF TypeOK, FlushFirst, PCs
  <2> QED BY <2>1, <2>2
<1>5. CASE FlushEdit
  <2>1. [[outbox[e0] EXCEPT !.status = "sending"] EXCEPT !.text = "partial"] \in Delivery
    BY <1>0 DEF Delivery, DeliveryStatuses, Texts
  <2>2. outbox' \in [Events -> Delivery]
    BY <1>0, <1>5, <2>1 DEF TypeOK, FlushEdit
  <2> QED BY <1>0, <1>5, <2>2 DEF TypeOK, FlushEdit, PCs
<1>6. CASE Flushed
  <2>1. /\ [[outbox[e0] EXCEPT !.status = "streaming"] EXCEPT !.edit = TRUE] \in Delivery
        /\ [outbox[e0] EXCEPT !.status = "uncertain"] \in Delivery
    BY <1>0 DEF Delivery, DeliveryStatuses
  <2>2. outbox' \in [Events -> Delivery]
    <3>1. outbox \in [Events -> Delivery]
      BY DEF TypeOK
    <3>2. \/ outbox' = [outbox EXCEPT ![e0].status = "streaming", ![e0].edit = TRUE]
          \/ outbox' = [outbox EXCEPT ![e0].status = IF @ = "absent" THEN @ ELSE "uncertain"]
      BY <1>6 DEF Flushed
    <3>3. CASE outbox' = [outbox EXCEPT ![e0].status = "streaming", ![e0].edit = TRUE]
      BY <1>0, <2>1, <3>1, <3>3
    <3>4. CASE outbox' = [outbox EXCEPT ![e0].status = IF @ = "absent" THEN @ ELSE "uncertain"]
      BY <1>0, <2>1, <3>1, <3>4 DEF Delivery
    <3> QED BY <3>2, <3>3, <3>4
  <2> QED BY <1>0, <1>6, <2>2 DEF TypeOK, Flushed, PCs
<1>7. ASSUME NEW e \in Events, SideEvent(e)
      PROVE  TypeOK'
  <2> DEFINE r == Ensure(sess[Chat[e]])
  <2>1. Chat[e] \in Sess /\ r \in Session
    BY Constants, EnsureType DEF TypeOK
  <2>2. Queue(r, e) \in Session
    BY <2>1, QueueType
  <2>3. sess' \in [Sess -> Session]
    BY <1>7, <2>1, <2>2 DEF TypeOK, SideEvent
  <2>4. e # NoEvent
    BY Constants
  <2> QED BY <1>0, <1>7, <2>3, <2>4 DEF TypeOK, SideEvent, PCs
<1>8. CASE SideDefer
  <2>1. cur \in Events
    BY <1>8 DEF TypeOK, SideDefer
  <2>2. deferred' \in Seq(Events)
    <3>1. deferred \in Seq(Events) /\ Append(deferred, cur) \in Seq(Events)
      BY <2>1, AppendProperties DEF TypeOK
    <3> QED BY <1>8, <3>1 DEF SideDefer
  <2> QED BY <1>0, <1>8, <2>2 DEF TypeOK, SideDefer, BackToTurn, PCs
<1>9. CASE SideCommit
  <2>1. cur \in Events
    BY <1>9 DEF TypeOK, SideCommit
  <2>2. /\ seen' \subseteq Events /\ deferred' \in Seq(Events)
        /\ offset' \in 0..(Cardinality(Events) + 1)
    BY <1>9, <2>1, CommitType DEF SideCommit
  <2> QED BY <1>0, <1>9, <2>2 DEF TypeOK, SideCommit, BackToTurn, PCs
<1> QED BY <1>1, <1>2, <1>3, <1>4, <1>5, <1>6, <1>7, <1>8, <1>9

LEMMA EndKeepsType ==
  ASSUME TypeOK,
         \/ TurnCancelled \/ Acknowledge \/ TurnFails \/ TurnFailed \/ TurnAnswers
         \/ ReplySent \/ Settle
  PROVE  TypeOK'
<1> USE DEF store, task, cancelling, bounds, history
<1>0. /\ batch # <<>> /\ pc # "down"
      /\ e0 \in Events /\ Chat[e0] \in Sess /\ Here \in Session
      /\ outbox[e0] \in Delivery /\ outbox \in [Events -> Delivery]
      /\ sess \in [Sess -> Session]
  <2>1. batch # <<>> /\ pc # "down"
    BY DEF TypeOK, TurnCancelled, Acknowledge, TurnFails, TurnFailed, TurnAnswers,
           ReplySent, Settle
  <2> QED BY <2>1, HeadEvent DEF TypeOK
<1>a. /\ granted \in [Events -> Nat] /\ granted[e0] + 1 \in Nat /\ granted[e0] + 0 \in Nat
      /\ again \in [Events -> Nat] /\ again[e0] + 1 \in Nat
  <2>1. granted \in [Events -> Nat] /\ again \in [Events -> Nat]
    BY DEF TypeOK
  <2>2. granted[e0] \in Nat /\ again[e0] \in Nat
    BY <1>0, <2>1
  <2> QED BY <2>1, <2>2
<1>1. CASE TurnCancelled
  <2>1. Clear(Here, "cancelled") \in Session
    BY <1>0, ClearType DEF Statuses
  <2>2. ClearDelivery(outbox, Here) \in [Events -> Delivery]
    BY <1>0, ClearDeliveryType
  <2>3. QueuedEvents(Here) \subseteq Events
    BY <1>0, ElementOfSeq DEF QueuedEvents, Session
  <2> QED BY <1>0, <1>1, <2>1, <2>2, <2>3 DEF TypeOK, TurnCancelled, Goto, PCs
<1>2. CASE Acknowledge
  BY <1>0, <1>2, NextEventType DEF TypeOK, Acknowledge, PCs
<1>3. CASE TurnFails
  <2>1. fails + 1 \in Nat
    BY Bounded
  <2> QED BY <1>0, <1>3, <2>1 DEF TypeOK, TurnFails, Goto, PCs
<1>4. CASE TurnFailed
  <2> DEFINE r == IF ReplyRefuses(outbox, e0) THEN Clear(Here, "interrupted")
                                            ELSE ReplySession(Here)
             next == IF Retries(Here, r, e0) THEN Queue(r, e0) ELSE r
  <2>1. r \in Session
    BY <1>0, ClearType, ReplySessionType DEF Statuses
  <2>2. next \in Session
    <3> HIDE DEF r
    <3> QED BY <1>0, <2>1, QueueType
  <2>3. sess' = [sess EXCEPT ![Chat[e0]] = next]
    BY <1>4 DEF TurnFailed
  <2>4. sess' \in [Sess -> Session]
    <3> HIDE DEF next
    <3> QED BY <1>0, <2>2, <2>3
  <2>5. outbox' \in [Events -> Delivery]
    <3>1. /\ ClearDelivery(outbox, Here) \in [Events -> Delivery]
          /\ ReplyDelivery(e0, Here, "failure", outbox[e0]) \in Delivery
      BY <1>0, ClearDeliveryType, ReplyDeliveryType DEF Texts
    <3> QED BY <1>0, <1>4, <3>1 DEF TurnFailed
  <2>6. granted' \in [Events -> Nat]
    BY <1>0, <1>4, <1>a DEF TurnFailed
  <2>7. again' \in [Events -> Nat]
    BY <1>0, <1>4, <1>a DEF TurnFailed
  <2>8. closed' \subseteq Events
    BY <1>0, <1>4 DEF TypeOK, TurnFailed
  <2>9. NextEvent /\ UNCHANGED <<dead, deferred, seen, offset, cancelling, arrived, bounds,
                                 told, posted, turns, mutated, answered>>
    BY <1>4 DEF TurnFailed
  <2>10. /\ batch' \in Seq(Events) /\ pc' \in {"top", "admit"}
         /\ pc' = "admit" => batch' # <<>>
         /\ UNCHANGED <<picked, cur, msgid, disabled>>
    BY <1>0, <2>9, NextEventType
  <2> QED BY <2>4, <2>5, <2>6, <2>7, <2>8, <2>9, <2>10 DEF TypeOK, PCs
<1>5. CASE TurnAnswers
  <2> DEFINE reply == ReplyDelivery(e0, Here, "answer", outbox[e0])
             sent == [reply EXCEPT !.status = "sending"]
  <2>1. reply \in Delivery /\ sent \in Delivery
    <3>1. reply \in Delivery
      BY <1>0, ReplyDeliveryType DEF Texts
    <3> HIDE DEF reply
    <3> QED BY <3>1 DEF Delivery, DeliveryStatuses
  <2>2. CASE ReplyRefuses(outbox, e0)
    BY <1>5, <2>2, StoppedType DEF TypeOK, TurnAnswers, PCs
  <2>3. CASE ~ReplyRefuses(outbox, e0)
    <3>1. sess' \in [Sess -> Session]
      <4>1. ReplySession(Here) \in Session
        BY <1>0, ReplySessionType
      <4> QED BY <1>0, <1>5, <2>3, <4>1 DEF TurnAnswers
    <3>2. granted' \in [Events -> Nat]
      <4>1. granted' = [granted EXCEPT ![e0] =
                          @ + (IF outbox[e0].status = "absent" THEN 1 ELSE 0)]
        BY <1>5, <2>3 DEF TurnAnswers
      <4> QED BY <1>a, <4>1
    <3>3. answered' \subseteq Events /\ closed' \subseteq Events
      BY <1>0, <1>5, <2>3 DEF TypeOK, TurnAnswers
    <3>4. UNCHANGED <<dead, deferred, seen, offset, cancelling, arrived, bounds, turns, again, mutated>>
      BY <1>5, <2>3 DEF TurnAnswers
    <3>5. CASE reply.status = "uncertain"
      <4>1. outbox' = [outbox EXCEPT ![e0] = reply] /\ NextEvent /\ UNCHANGED <<told, posted>>
        BY <1>5, <2>3, <3>5 DEF TurnAnswers
      <4>2. outbox' \in [Events -> Delivery]
        <5> HIDE DEF reply, sent
        <5> QED BY <1>0, <2>1, <4>1
      <4> QED BY <1>0, <3>1, <3>2, <3>3, <3>4, <4>1, <4>2, NextEventType DEF TypeOK, PCs
    <3>6. CASE reply.status # "uncertain"
      <4>1. outbox' = [outbox EXCEPT ![e0] = sent] /\ Dispatch(e0, outbox') /\ Goto("reply")
        BY <1>5, <2>3, <3>6 DEF TurnAnswers
      <4>2. outbox' \in [Events -> Delivery]
        <5> HIDE DEF reply, sent
        <5> QED BY <1>0, <2>1, <4>1
      <4>3. told' \subseteq Events /\ posted' \in [Events -> Nat]
        BY <1>0, <4>1, <4>2, DispatchType
      <4> QED BY <1>0, <3>1, <3>2, <3>3, <3>4, <4>1, <4>2, <4>3 DEF TypeOK, Goto, PCs
    <3> QED BY <3>5, <3>6
  <2> QED BY <2>2, <2>3
<1>6. CASE ReplySent
  <2>1. "settle" \in PCs
    BY DEF PCs
  <2>2. SendAccepted(e0, "settle") \/ SendFailed(e0, "settle")
    BY <1>6 DEF ReplySent
  <2>3. outbox' \in [Events -> Delivery]
    BY <1>0, <2>1, <2>2, SentType
  <2>4. CASE Stopped
    BY <1>6, <2>3, <2>4, StoppedType DEF TypeOK, ReplySent, PCs
  <2>5. CASE /\ pc' = "settle" /\ cur' = NoEvent
             /\ UNCHANGED <<batch, picked, msgid, disabled, token, asked>>
    BY <1>0, <1>6, <2>3, <2>5 DEF TypeOK, ReplySent, PCs
  <2> QED BY <1>0, <2>1, <2>2, <2>4, <2>5, SentType
<1>7. CASE Settle
  <2>1. SetStatus(Here, "idle") \in Session
    BY <1>0, SetStatusType DEF Statuses
  <2>2. sess' \in [Sess -> Session]
    BY <1>0, <1>7, <2>1 DEF Settle, Here
  <2> QED BY <1>0, <1>7, <2>2, NextEventType DEF TypeOK, Settle, PCs
<1> QED BY <1>1, <1>2, <1>3, <1>4, <1>5, <1>6, <1>7

LEMMA ClientsKeepType ==
  ASSUME TypeOK, Clients
  PROVE  TypeOK'
<1> USE DEF store, task, cancelling, bounds, history
<1>0. /\ sess \in [Sess -> Session] /\ outbox \in [Events -> Delivery]
      /\ Sessions \in [Sess -> Session]
  <2>1. sess \in [Sess -> Session] /\ outbox \in [Events -> Delivery]
    BY DEF TypeOK
  <2> QED BY <2>1, RecoveredType DEF Sessions
<1>1. ASSUME NEW s \in Sess, CancelSession(s)
      PROVE  TypeOK'
  <2>1. Cancel(sess[s]) \in Session
    BY <1>0, CancelType
  <2>2. ClearDelivery(outbox, sess[s]) \in [Events -> Delivery]
    BY <1>0, ClearDeliveryType
  <2>3. QueuedEvents(sess[s]) \subseteq Events
    BY <1>0, ElementOfSeq DEF QueuedEvents, Session
  <2>4. cancels' \in Nat
    BY <1>1, Bounded DEF CancelSession
  <2>5. sess' \in [Sess -> Session] /\ outbox' \in [Events -> Delivery]
    BY <1>0, <1>1, <2>1, <2>2 DEF CancelSession
  <2> QED BY <1>1, <2>3, <2>4, <2>5 DEF TypeOK, CancelSession
<1>2. ASSUME NEW s \in Sess, RequestCancel(s) \/ CancelTimesOut(s)
      PROVE  TypeOK'
  BY <1>2 DEF TypeOK, RequestCancel, CancelTimesOut
<1>3. ASSUME NEW s \in Sess, AppendByClient(s)
      PROVE  TypeOK'
  <2>1. AppendMessage(Sessions[s]) \in Session
    BY <1>0, PushType
  <2>2. sess' \in [Sess -> Session]
    BY <1>0, <1>3, <2>1 DEF AppendByClient
  <2>3. ops' \in Nat
    BY <1>3, Bounded DEF AppendByClient, ClientOp
  <2> QED BY <1>3, <2>2, <2>3 DEF TypeOK, AppendByClient, ClientOp
<1>4. ASSUME NEW s \in Sess, DeleteSession(s)
      PROVE  TypeOK'
  <2>1. sess' \in [Sess -> Session]
    BY <1>0, <1>4, NoSessionType DEF DeleteSession
  <2>2. ops' \in Nat
    BY <1>4, Bounded DEF DeleteSession, ClientOp
  <2>3. QueuedEvents(sess[s]) \subseteq Events
    BY <1>0, ElementOfSeq DEF QueuedEvents, Session
  <2> QED BY <1>4, <2>1, <2>2, <2>3 DEF TypeOK, DeleteSession, ClientOp
<1>5. ASSUME NEW s \in Sess, TuiReserve(s)
      PROVE  TypeOK'
  <2>1. sess' \in [Sess -> Session]
    BY <1>0, <1>5, ReserveType DEF TuiReserve
  <2>2. reserves' \in Nat
    BY <1>5, Bounded DEF TuiReserve
  <2> QED BY <1>5, <2>1, <2>2 DEF TypeOK, TuiReserve
<1>6. ASSUME NEW s \in Sess, TuiRelease(s)
      PROVE  TypeOK'
  <2>1. SetStatus(Sessions[s], "idle") \in Session
    BY <1>0, SetStatusType DEF Statuses
  <2>2. sess' \in [Sess -> Session]
    BY <1>0, <1>6, <2>1 DEF TuiRelease
  <2> QED BY <1>6, <2>2 DEF TypeOK, TuiRelease
<1>7. ASSUME NEW d \in Events, RetryDelivery(d)
      PROVE  TypeOK'
  <2>1. [outbox[d] EXCEPT !.status = "pending"] \in Delivery
    BY <1>0 DEF Delivery, DeliveryStatuses
  <2>2. outbox' \in [Events -> Delivery] /\ sess' \in [Sess -> Session]
    BY <1>0, <1>7, <2>1 DEF RetryDelivery
  <2>3. granted' \in [Events -> Nat]
    <3>1. granted \in [Events -> Nat]
      BY DEF TypeOK
    <3>2. granted[d] + (IF outbox[d].edit THEN 0 ELSE 1) \in Nat
      BY <3>1
    <3> QED BY <1>7, <3>1, <3>2 DEF RetryDelivery
  <2>4. ops' \in Nat
    BY <1>7, Bounded DEF RetryDelivery, ClientOp
  <2> QED BY <1>7, <2>2, <2>3, <2>4 DEF TypeOK, RetryDelivery, ClientOp
<1>8. ASSUME NEW d \in Events, DropDelivery(d)
      PROVE  TypeOK'
  <2>1. outbox' \in [Events -> Delivery] /\ sess' \in [Sess -> Session]
    BY <1>0, <1>8, DeliveryTypes DEF DropDelivery
  <2>2. ops' \in Nat
    BY <1>8, Bounded DEF DropDelivery, ClientOp
  <2> QED BY <1>8, <2>1, <2>2 DEF TypeOK, DropDelivery, ClientOp
<1> QED BY <1>1, <1>2, <1>3, <1>4, <1>5, <1>6, <1>7, <1>8 DEF Clients

LEMMA EnvironmentKeepsType ==
  ASSUME TypeOK, Environment
  PROVE  TypeOK'
<1> USE DEF store, task, cancelling, bounds, history
<1>0. sess \in [Sess -> Session] /\ outbox \in [Events -> Delivery]
  BY DEF TypeOK
<1>1. CASE Arrive
  <2>1. arrived + 1 \in Events /\ arrived' = arrived + 1
    BY <1>1 DEF Arrive
  <2>2. arrived' \in 0..Cardinality(Events)
    BY <2>1, Constants
  <2> QED BY <1>1, <2>2 DEF TypeOK, Arrive
<1>2. ASSUME NEW signalled \in BOOLEAN, Halt(signalled)
      PROVE  TypeOK'
  <2>1. sess' \in [Sess -> Session]
    <3>1. CASE pc \in {"turn", "reply"}
      <4>1. batch # <<>>
        BY <3>1 DEF TypeOK
      <4>2. SetStatus(Here, "interrupted") \in Session
        BY <4>1, HeadEvent, SetStatusType DEF Statuses
      <4> QED BY <1>0, <1>2, <4>1, <4>2, HeadEvent DEF Halt, Here
    <3> QED BY <1>0, <1>2, <3>1 DEF Halt
  <2>2. Stopped
    BY <1>2 DEF Halt
  <2> QED BY <1>2, <2>1, <2>2, StoppedType DEF TypeOK, Halt, PCs
<1>3. CASE Restart
  <2>1. crashes' \in Nat
    BY <1>3, Bounded DEF Restart
  <2> QED BY <1>3, <2>1 DEF TypeOK, Restart, PCs
<1>4. ASSUME NEW s \in Sess, ReservationExpires(s)
      PROVE  TypeOK'
  <2>1. [sess[s] EXCEPT !.lease = "expired"] \in Session
    BY <1>0 DEF Session
  <2>2. sess' \in [Sess -> Session]
    BY <1>0, <1>4, <2>1 DEF ReservationExpires
  <2> QED BY <1>4, <2>2 DEF TypeOK, ReservationExpires
<1> QED BY <1>1, <1>2, <1>3, <1>4 DEF Environment

LEMMA InitType == Init => TypeOK
<1> SUFFICES ASSUME Init PROVE TypeOK
  OBVIOUS
<1>1. sess \in [Sess -> Session] /\ outbox \in [Events -> Delivery]
  BY NoSessionType, DeliveryTypes DEF Init
<1>2. offset \in 0..(Cardinality(Events) + 1) /\ arrived \in 0..Cardinality(Events)
  BY Constants DEF Init
<1>3. deferred \in Seq(Events) /\ batch \in Seq(Events)
  BY EmptyQueue DEF Init
<1>4. /\ token \in [Sess -> {"absent", "fresh", "requested"}]
      /\ asked \in [Sess -> {"no", "marked", "waiting", "orphan"}]
      /\ posted \in [Events -> Nat] /\ granted \in [Events -> Nat]
      /\ turns \in [Events -> Nat] /\ again \in [Events -> Nat]
  BY DEF Init
<1>5. {fails, cancels, crashes, ops, reserves} \subseteq Nat
  BY DEF Init
<1>6. /\ pc \in PCs
      /\ pc \notin {"down", "top", "sending"} => batch # <<>>
      /\ pc \in {"sending", "sidedefer", "sidecommit", "sideretain"} => cur # NoEvent
  BY DEF Init, PCs
<1>7. /\ dead \subseteq Events /\ seen \subseteq Events
      /\ picked \in Events \cup {NoEvent} /\ cur \in Events \cup {NoEvent}
      /\ msgid \in BOOLEAN /\ disabled \in BOOLEAN
      /\ told \subseteq Events /\ mutated \subseteq Events
      /\ answered \subseteq Events /\ closed \subseteq Events
  BY DEF Init
<1> QED BY <1>1, <1>2, <1>3, <1>4, <1>5, <1>6, <1>7 DEF TypeOK

LEMMA NextKeepsType == TypeOK /\ [Next]_vars => TypeOK'
<1> SUFFICES ASSUME TypeOK, [Next]_vars PROVE TypeOK'
  OBVIOUS
<1>1. CASE Bridge
  BY <1>1, TopKeepsType, AdmissionKeepsType, TurnKeepsType, EndKeepsType DEF Bridge
<1>2. CASE UNCHANGED vars
  BY <1>2 DEF TypeOK, vars, store, task, cancelling, bounds, history
<1> QED BY <1>1, <1>2, ClientsKeepType, EnvironmentKeepsType DEF Next

(* Every state the daemon reaches is well formed: in particular the bridge *)
(* always has an event in hand where its code uses one.                    *)
THEOREM TypeCorrect == Spec => []TypeOK
  BY InitType, NextKeepsType, PTL DEF Spec

-----------------------------------------------------------------------------
(* No event is lost.  The invariant behind it: the events the bridge knows *)
(* are those below its cursor; what a session took in, it owns or its turn *)
(* is over; the bridge commits only an event that a session or the list of *)
(* deferred events holds, and the batch is walked through in order.        *)

Owned(e) == Owns(sess[Chat[e]], e) \/ e \in closed

Cut == \A e \in Events : e \in seen <=> e < offset

Kept ==
  \A e \in Permitted : /\ e \in seen => Owned(e) \/ Deferred(e)
                       /\ e \in sess[Chat[e]].messages => Owned(e)

Low ==
  /\ \A s \in Sess : \A e \in Events : Owns(sess[s], e) => e <= Cursor
  /\ \A e \in Events : Deferred(e) => e <= Cursor

Gone == \A s \in Sess : GoneOwnsNothing(sess[s])

StoreInv == Cut /\ Kept /\ Low /\ Gone

Resting == {"down", "top", "sending"}

Admission == {"admit", "defer", "commit", "retain", "begun"}

Plain == {"turn", "pushed", "stream", "failing", "ack", "reply", "settle"}

InHand ==
  /\ pc \in Turning => Here.inflight = e0
  /\ pc \in Admission => e0 <= Cursor
  /\ pc = "commit" /\ e0 \in Permitted => Owned(e0)
  /\ pc = "retain" => Deferred(e0)
  /\ pc \in {"sidedefer", "sidecommit", "sideretain"} => cur <= Cursor
  /\ pc = "sidecommit" /\ cur \in Permitted => Owned(cur)
  /\ pc = "sideretain" => Deferred(cur)

Consecutive == \A i \in 1..(Len(batch) - 1) : batch[i + 1] = batch[i] + 1

(* Within a batch of several events the deferred ones are known, but for   *)
(* the one that is about to be.                                            *)
DeferredKnown ==
  \A e \in Events : Deferred(e) =>
    \/ e \in seen
    \/ pc = "retain" /\ e = e0
    \/ pc = "sideretain" /\ e = cur

InOrder == pc \notin Resting =>
  /\ Consecutive
  /\ picked # NoEvent => Len(batch) = 1
  /\ Len(batch) # 1 =>
       /\ pc \notin Admission => e0 < offset
       /\ DeferredKnown

IInv == StoreInv /\ InHand /\ InOrder

(* How a step changes the session s.                                       *)
Carries(s, r, r2) ==
  /\ \A e \in Permitted : Chat[e] = s /\ Owns(r, e) => Owns(r2, e) \/ e \in closed'
  /\ \A e \in Events : e \in r2.messages => e \in r.messages \/ Owns(r2, e)
  /\ \A e \in Events : Owns(r2, e) => Owns(r, e) \/ e <= Cursor
  /\ GoneOwnsNothing(r2)

SessionsCarry == closed \subseteq closed' /\ \A s \in Sess : Carries(s, sess[s], sess'[s])

LEMMA SameCarries ==
  ASSUME NEW s, NEW r, NEW r2, GoneOwnsNothing(r), SameMessages(r, r2)
  PROVE  Carries(s, r, r2)
  BY DEF Carries, SameMessages, GoneOwnsNothing, Owns, InQueue

LEMMA AllCarry ==
  ASSUME TypeOK, Gone, closed \subseteq closed',
         \A s \in Sess : sess'[s] = sess[s] \/ SameMessages(sess[s], sess'[s])
  PROVE  SessionsCarry
<1> SUFFICES ASSUME NEW s \in Sess PROVE Carries(s, sess[s], sess'[s])
  BY DEF SessionsCarry
<1>1. SameMessages(sess[s], sess'[s])
  BY DEF SameMessages
<1> QED BY <1>1, SameCarries DEF Gone

LEMMA OneCarries ==
  ASSUME TypeOK, Gone, closed \subseteq closed', NEW c \in Sess, NEW r2,
         sess' = [sess EXCEPT ![c] = r2], Carries(c, sess[c], r2)
  PROVE  SessionsCarry
<1> SUFFICES ASSUME NEW s \in Sess PROVE Carries(s, sess[s], sess'[s])
  BY DEF SessionsCarry
<1>1. sess \in [Sess -> Session]
  BY DEF TypeOK
<1>2. CASE s = c
  BY <1>1, <1>2
<1>3. CASE s # c
  <2>1. sess'[s] = sess[s]
    BY <1>1, <1>3
  <2>2. SameMessages(sess[s], sess'[s])
    BY <2>1 DEF SameMessages
  <2> QED BY <2>2, SameCarries DEF Gone
<1> QED BY <1>2, <1>3

LEMMA OwnedStays ==
  ASSUME SessionsCarry, NEW e \in Permitted
  PROVE  /\ Owned(e) => Owned(e)'
         /\ e \in sess'[Chat[e]].messages => e \in sess[Chat[e]].messages \/ Owned(e)'
<1>1. e \in Events /\ Chat[e] \in Sess
  BY BridgeAssumption, Constants
<1> QED BY <1>1 DEF SessionsCarry, Carries, Owned

(* The store keeps its part of the invariant when sessions carry their     *)
(* messages over and the deferred events are held on to.                   *)
LEMMA StoreKeeps ==
  ASSUME StoreInv, SessionsCarry, UNCHANGED <<seen, offset>>,
         \A e \in Permitted : Deferred(e) => Deferred(e)' \/ Owned(e)',
         \A e \in Events : Deferred(e)' => Deferred(e) \/ e <= Cursor
  PROVE  StoreInv'
<1>1. Cut' /\ Cursor' = Cursor
  BY DEF StoreInv, Cut, Cursor
<1>2. Kept'
  BY OwnedStays DEF StoreInv, Kept
<1>3. Low'
  BY <1>1 DEF StoreInv, Low, SessionsCarry, Carries
<1>4. Gone'
  BY DEF Gone, SessionsCarry, Carries
<1> QED BY <1>1, <1>2, <1>3, <1>4 DEF StoreInv

LEMMA SessionsKeepStore ==
  ASSUME StoreInv, SessionsCarry, UNCHANGED <<seen, offset, deferred>>
  PROVE  StoreInv'
<1>1. \A e : Deferred(e)' <=> Deferred(e)
  BY DEF Deferred
<1> QED BY <1>1, StoreKeeps

(* The bridge rests between two batches.                                   *)
LEMMA RestingKeeps ==
  ASSUME StoreInv', pc' \in Resting
  PROVE  IInv'
  BY DEF IInv, InHand, InOrder, Resting, Admission, Turning

(* A step that changes sessions while the bridge stays with its event.     *)
LEMMA StayKeeps ==
  ASSUME TypeOK, IInv, SessionsCarry, UNCHANGED <<seen, offset, deferred, batch, picked>>,
         \/ pc' = pc /\ cur' = cur
         \/ pc \in Plain /\ pc' \in Plain,
         pc' \in Turning => sess'[Chat[e0]].inflight = e0
  PROVE  IInv'
<1>1. StoreInv'
  BY SessionsKeepStore DEF IInv
<1>2. /\ Cursor' = Cursor /\ e0' = e0 /\ Here' = sess'[Chat[e0]]
      /\ \A e : Deferred(e)' <=> Deferred(e)
  BY DEF Cursor, Deferred, e0, Here
<1>3. CASE pc \in Plain /\ pc' \in Plain
  <2>1. InHand'
    BY <1>2, <1>3 DEF InHand, Plain, Admission
  <2>2. InOrder'
    BY <1>2, <1>3 DEF IInv, InOrder, Consecutive, DeferredKnown, Plain, Resting, Admission
  <2> QED BY <1>1, <2>1, <2>2 DEF IInv
<1>4. CASE pc' = pc /\ cur' = cur
  <2>1. \A e \in Permitted : Owned(e) => Owned(e)'
    BY OwnedStays
  <2>3. InHand'
    BY <1>2, <1>4, <2>1 DEF IInv, InHand, Owned
  <2>4. InOrder'
    BY <1>2, <1>4 DEF IInv, InOrder, Consecutive, DeferredKnown, Resting, Admission
  <2> QED BY <1>1, <2>3, <2>4 DEF IInv
<1> QED BY <1>3, <1>4

(* What Store::commit_event does to the store's part of the invariant.     *)
LEMMA CommitKeeps ==
  ASSUME TypeOK, StoreInv, NEW e \in Events, NEW retained,
         CommitEvent(e, retained), UNCHANGED <<sess, closed>>, e <= Cursor,
         IF retained THEN Deferred(e) ELSE e \in Permitted => Owned(e)
  PROVE  /\ StoreInv' /\ e \in seen' /\ e < offset' /\ offset <= offset'
         /\ Cursor <= Cursor' /\ seen \subseteq seen'
         /\ \A x : Deferred(x)' => Deferred(x)
<1>0. /\ deferred \in Seq(Events) /\ offset \in Nat /\ e \in Nat \ {0}
      /\ Permitted \subseteq Events /\ Events \subseteq Nat \ {0}
  <2>1. /\ offset \in 0..(Cardinality(Events) + 1) /\ Cardinality(Events) \in Nat
    BY Constants DEF TypeOK
  <2>2. Events \subseteq Nat \ {0} /\ Permitted \subseteq Events
    BY BridgeAssumption, StoreAssumption
  <2>3. deferred \in Seq(Events)
    BY DEF TypeOK
  <2> QED BY <2>1, <2>2, <2>3
<1>1. /\ seen' = seen \cup {e} /\ offset' = (IF e + 1 > offset THEN e + 1 ELSE offset)
      /\ deferred' = (IF retained THEN deferred ELSE Without(deferred, e))
  BY DEF CommitEvent
<1>2. offset' \in Nat /\ offset <= offset' /\ e < offset' /\ Cursor <= Cursor'
  BY <1>0, <1>1 DEF Cursor
<1>3. \A x \in Events : x < offset' <=> x < offset \/ x = e
  BY <1>0, <1>1 DEF Cursor
<1>4. Cut'
  BY <1>1, <1>3 DEF StoreInv, Cut
<1>5. \A x : /\ Deferred(x) <=> Holds(deferred, x)
             /\ Deferred(x)' <=> Holds(deferred', x)
  BY DEF Deferred, Holds
<1>6. \A x : /\ Deferred(x)' => Deferred(x)
             /\ x # e /\ Deferred(x) => Deferred(x)'
             /\ retained /\ Deferred(x) => Deferred(x)'
  <2> TAKE x
  <2>1. CASE retained
    BY <1>1, <2>1 DEF Deferred
  <2>2. CASE ~retained
    <3>1. deferred' = Without(deferred, e)
      BY <1>1, <2>2
    <3>2. /\ x # e /\ Holds(deferred, x) => Holds(Without(deferred, e), x)
          /\ Holds(Without(deferred, e), x) => Holds(deferred, x)
      BY <1>0, WithoutKeeps
    <3> QED BY <1>5, <2>2, <3>1, <3>2
  <2> QED BY <2>1, <2>2
<1>7. \A x : Owned(x)' <=> Owned(x)
  BY DEF Owned
<1>8. Kept'
  BY <1>1, <1>6, <1>7 DEF StoreInv, Kept
<1>9. Low'
  <2>1. Cursor \in Nat /\ Cursor' \in Nat
    BY <1>0, <1>2 DEF Cursor
  <2>2. ASSUME NEW x \in Events, x <= Cursor PROVE x <= Cursor'
    BY <1>0, <1>2, <2>1, <2>2
  <2> QED BY <1>6, <2>2 DEF StoreInv, Low
<1>10. Gone'
  BY DEF StoreInv, Gone
<1> QED BY <1>1, <1>2, <1>4, <1>6, <1>8, <1>9, <1>10 DEF StoreInv

LEMMA HeadIsFirst ==
  ASSUME NEW q \in Seq(Events), q # <<>>
  PROVE  Head(q) = q[1]
  OBVIOUS

(* Going on to the next event of the batch.                                *)
LEMMA NextEventKeeps ==
  ASSUME TypeOK, IInv, StoreInv', NextEvent, pc \notin Resting, offset' \in Nat,
         Len(batch) # 1 =>
           e0 < offset' /\ \A e \in Events : Deferred(e)' => e \in seen'
  PROVE  IInv'
<1>1. CASE Len(batch) = 1
  BY <1>1, RestingKeeps DEF NextEvent, Resting
<1>2. CASE Len(batch) # 1
  <2>1. pc' = "admit" /\ batch' = Tail(batch) /\ picked' = picked
    BY <1>2 DEF NextEvent
  <2>2. batch \in Seq(Events) /\ batch # <<>> /\ Len(batch) \in Nat
    BY LenProperties DEF TypeOK, Resting
  <2>3. Len(batch) > 1
    BY <1>2, <2>2, EmptySeq
  <2>4. /\ Len(Tail(batch)) = Len(batch) - 1
        /\ \A i \in 1..Len(Tail(batch)) : Tail(batch)[i] = batch[i + 1]
    BY <2>2, HeadTailProperties
  <2>5. e0 = batch[1] /\ e0' = batch[2] /\ e0 \in Nat
    <3>1. e0 = batch[1] /\ e0 \in Nat
      BY <2>2, HeadIsFirst, HeadTailProperties, StoreAssumption DEF e0
    <3>2. Tail(batch) \in Seq(Events) /\ Tail(batch) # <<>>
      BY <1>2, <2>2, HeadEvent
    <3>3. Head(Tail(batch)) = Tail(batch)[1]
      BY <3>2, HeadIsFirst
    <3>4. Tail(batch)[1] = batch[2]
      BY <2>2, <2>3, <2>4
    <3> QED BY <2>1, <3>1, <3>3, <3>4 DEF e0
  <2>6. \A i \in 1..(Len(batch) - 1) : batch[i + 1] = batch[i] + 1
    BY DEF IInv, InOrder, Consecutive
  <2>7. Consecutive'
    <3> SUFFICES ASSUME NEW i \in 1..(Len(Tail(batch)) - 1)
                 PROVE  Tail(batch)[i + 1] = Tail(batch)[i] + 1
      BY <2>1 DEF Consecutive
    <3>1. i + 1 \in 1..(Len(batch) - 1) /\ i \in 1..Len(Tail(batch)) /\ i + 1 \in 1..Len(Tail(batch))
      BY <2>2, <2>4
    <3>2. Tail(batch)[i + 1] = batch[(i + 1) + 1] /\ Tail(batch)[i] = batch[i + 1]
      BY <2>4, <3>1
    <3> QED BY <2>6, <3>1, <3>2
  <2>8. e0' <= Cursor'
    <3>1. e0' = e0 + 1
      <4>1. 1 \in 1..(Len(batch) - 1)
        BY <2>2, <2>3
      <4>2. batch[1 + 1] = batch[1] + 1
        BY <2>6, <4>1
      <4> QED BY <2>5, <4>2
    <3> QED BY <1>2, <2>5, <3>1 DEF Cursor
  <2>9. picked = NoEvent
    BY <1>2 DEF IInv, InOrder
  <2>10. InHand'
    BY <2>1, <2>8 DEF InHand, Turning, Admission
  <2>11. InOrder'
    BY <1>2, <2>1, <2>7, <2>9 DEF InOrder, DeferredKnown, Admission
  <2> QED BY <2>10, <2>11 DEF IInv
<1> QED BY <1>1, <1>2

(* A step of the admission that does not commit.                           *)
LEMMA AdmissionKeeps ==
  ASSUME IInv, StoreInv', pc \in Admission \ {"retain"}, NEW next \in Admission,
         Goto(next), UNCHANGED <<seen, offset>>,
         \A e \in Events : Deferred(e)' => Deferred(e) \/ (next = "retain" /\ e = e0),
         next = "begun" => sess'[Chat[e0]].inflight = e0,
         next = "commit" /\ e0 \in Permitted =>
           Owns(sess'[Chat[e0]], e0) \/ e0 \in closed',
         next = "retain" => Holds(deferred', e0)
  PROVE  IInv'
<1>1. pc' = next /\ UNCHANGED <<batch, picked, cur>>
  BY DEF Goto
<1>2. e0' = e0 /\ Here' = sess'[Chat[e0]] /\ Cursor' = Cursor
  BY <1>1 DEF e0, Here, Cursor
<1>4. InHand'
  BY <1>1, <1>2 DEF IInv, InHand, Owned, Deferred, Holds, Turning, Admission
<1>5. InOrder'
  BY <1>1, <1>2 DEF IInv, InOrder, Consecutive, DeferredKnown, Resting, Admission
<1> QED BY <1>4, <1>5 DEF IInv

LEMMA StillKeepsStore ==
  ASSUME TypeOK, StoreInv, UNCHANGED <<sess, closed, seen, offset, deferred>>
  PROVE  StoreInv' /\ SessionsCarry
<1>1. SessionsCarry
  BY AllCarry DEF StoreInv
<1> QED BY <1>1, SessionsKeepStore

(* A batch of one event that the cursor has reached.                       *)
LEMMA OneEventKeeps ==
  ASSUME StoreInv', NEW e \in Events, e <= Cursor, batch' = <<e>>, pc' = "admit",
         UNCHANGED offset
  PROVE  IInv'
<1>1. Len(<<e>>) = 1 /\ Head(<<e>>) = e
  OBVIOUS
<1>2. Len(batch') = 1 /\ e0' = e /\ Cursor' = Cursor
  BY <1>1 DEF e0, Cursor
<1>3. InHand'
  BY <1>2 DEF InHand, Turning, Admission
<1>4. InOrder'
  <2>1. 1..(Len(batch') - 1) = {}
    BY <1>2
  <2> QED BY <1>2, <2>1 DEF InOrder, Consecutive
<1> QED BY <1>3, <1>4 DEF IInv

LEMMA TopKeeps ==
  ASSUME TypeOK, IInv,
         \/ \E d \in Events : SendPending(d)
         \/ PendingSent
         \/ \E s \in Sess : PickQueued(s)
         \/ PickDeferred
         \/ \E first \in Events : Poll(first)
  PROVE  IInv'
<1> USE DEF store, task, cancelling, bounds, history
<1>0. StoreInv' /\ UNCHANGED <<sess, closed, seen, offset, deferred>>
  <2>1. UNCHANGED <<sess, closed, seen, offset, deferred>>
    BY DEF SendPending, PendingSent, PickQueued, PickDeferred, Poll
  <2> QED BY <2>1, StillKeepsStore DEF IInv
<1>1. CASE \/ \E d \in Events : SendPending(d)
           \/ PendingSent
  <2>1. pc' \in Resting
    BY <1>1 DEF SendPending, PendingSent, SendAccepted, SendFailed, Stopped, Resting
  <2> QED BY <1>0, <2>1, RestingKeeps
<1>2. ASSUME NEW s \in Sess, PickQueued(s)
      PROVE  IInv'
  <2> DEFINE q == sess[s].queued
  <2>1. q \in Seq(Events) /\ q # <<>>
    BY <1>2 DEF TypeOK, Session, PickQueued, Runnable
  <2>2. Head(q) \in Events /\ Head(q) = q[1] /\ 1 \in 1..Len(q)
    BY <2>1, HeadTailProperties, HeadIsFirst, EmptySeq
  <2>3. Owns(sess[s], Head(q))
    BY <2>2 DEF Owns, InQueue
  <2>4. Head(q) <= Cursor
    BY <2>2, <2>3 DEF IInv, StoreInv, Low
  <2> QED BY <1>0, <1>2, <2>2, <2>4, OneEventKeeps DEF PickQueued
<1>3. CASE PickDeferred
  <2>1. deferred \in Seq(Events) /\ deferred # <<>>
    BY <1>3 DEF TypeOK, PickDeferred
  <2>2. Head(deferred) \in Events /\ Head(deferred) = deferred[1] /\ 1 \in 1..Len(deferred)
    BY <2>1, HeadTailProperties, HeadIsFirst, EmptySeq
  <2>3. Deferred(Head(deferred))
    BY <2>2 DEF Deferred
  <2>4. Head(deferred) <= Cursor
    BY <2>2, <2>3 DEF IInv, StoreInv, Low
  <2> QED BY <1>0, <1>3, <2>2, <2>4, OneEventKeeps DEF PickDeferred
<1>4. ASSUME NEW first \in Events, Poll(first)
      PROVE  IInv'
  <2> DEFINE n == arrived - first + 1
  <2>1. first \in Nat /\ n \in Nat \ {0} /\ \A i \in 1..n : first + i - 1 \in Events
    <3>1. arrived \in Nat /\ first \in 1..arrived /\ arrived <= Cardinality(Events)
      BY <1>4, Constants DEF TypeOK, Poll
    <3> QED BY <3>1, Constants
  <2>2. batch' = [i \in 1..n |-> first + i - 1] /\ pc' = "admit" /\ picked' = NoEvent
    BY <1>4 DEF Poll
  <2>3. deferred' = <<>> /\ Cursor' = Cursor
    BY <1>0, <1>4 DEF Poll, Cursor
  <2>4. first <= Cursor
    <3>1. offset \in Nat
      BY Constants DEF TypeOK
    <3>2. Cursor \in Nat
      BY <3>1 DEF Cursor
    <3> QED BY <1>4, <2>1, <3>2 DEF Poll
  <2> HIDE DEF n
  <2>5. batch' \in Seq(Events) /\ Len(batch') = n
    BY <2>1, <2>2
  <2>6. Head(batch') = first
    <3>1. batch' # <<>>
      BY <2>1, <2>5
    <3>2. Head(batch') = batch'[1]
      BY <2>5, <3>1, HeadIsFirst
    <3> QED BY <2>1, <2>2, <3>2
  <2>7. Consecutive'
    <3> SUFFICES ASSUME NEW i \in 1..(n - 1) PROVE batch'[i + 1] = batch'[i] + 1
      BY <2>5 DEF Consecutive
    <3> QED BY <2>1, <2>2
  <2>8. \A e : ~Deferred(e)'
    BY <2>3 DEF Deferred
  <2>9. InHand'
    BY <2>2, <2>3, <2>4, <2>6 DEF InHand, e0, Turning, Admission
  <2>10. InOrder'
    BY <2>2, <2>7, <2>8 DEF InOrder, DeferredKnown, Admission
  <2> QED BY <1>0, <2>9, <2>10 DEF IInv
<1> QED BY <1>1, <1>2, <1>3, <1>4

(* A turn is begun: its message leaves the deferred events for its session. *)
LEMMA BegunKeepsStore ==
  ASSUME TypeOK, IInv, batch # <<>>, e0 <= Cursor,
         NEW r \in Session, r.inflight = NoEvent, r.messages \subseteq Here.messages,
         \A x \in Events : Owns(r, x) <=> Owns(Here, x),
         BeginTurn(e0, r), UNCHANGED <<closed, seen, offset>>
  PROVE  /\ SessionsCarry /\ StoreInv' /\ sess'[Chat[e0]].inflight = e0
         /\ \A x : Deferred(x)' => Deferred(x)
<1> DEFINE r2 == Begin(r, e0)
<1>0. /\ e0 \in Events /\ Chat[e0] \in Sess /\ Here \in Session /\ Here = sess[Chat[e0]]
      /\ sess \in [Sess -> Session]
  BY HeadEvent DEF TypeOK, e0, Here
<1>1. /\ sess' = [sess EXCEPT ![Chat[e0]] = r2]
      /\ deferred' = IF e0 = picked THEN Without(deferred, e0) ELSE deferred
  BY DEF BeginTurn
<1>2. /\ r2.inflight = e0 /\ r2.status = "working"
      /\ r2.messages = r.messages \cup {e0}
      /\ \A x \in Events : Owns(r, x) => Owns(r2, x)
      /\ \A x \in Events : Owns(r2, x) => Owns(r, x) \/ x = e0
  BY <1>0, BeginOwns
<1> HIDE DEF r2
<1>3. Owns(r2, e0) /\ Permitted \subseteq Events
  BY <1>2, BridgeAssumption DEF Owns
<1>4. Carries(Chat[e0], Here, r2)
  BY <1>0, <1>2, <1>3 DEF Carries, GoneOwnsNothing
<1>5. SessionsCarry /\ sess'[Chat[e0]] = r2
  BY <1>0, <1>1, <1>4, OneCarries DEF IInv, StoreInv
<1>6. \A x : /\ Deferred(x)' => Deferred(x)
             /\ x # e0 /\ Deferred(x) => Deferred(x)'
  <2> TAKE x
  <2>1. CASE deferred' = deferred
    BY <2>1 DEF Deferred
  <2>2. CASE deferred' = Without(deferred, e0)
    <3>1. deferred \in Seq(Events)
      BY DEF TypeOK
    <3>2. /\ x # e0 /\ Holds(deferred, x) => Holds(Without(deferred, e0), x)
          /\ Holds(Without(deferred, e0), x) => Holds(deferred, x)
      BY <3>1, WithoutKeeps
    <3>3. (Deferred(x) <=> Holds(deferred, x)) /\ (Deferred(x)' <=> Holds(deferred', x))
      BY DEF Deferred, Holds
    <3> QED BY <2>2, <3>2, <3>3
  <2> QED BY <1>1, <2>1, <2>2
<1>7. \A x \in Permitted : Deferred(x) => Deferred(x)' \/ Owned(x)'
  <2> SUFFICES ASSUME NEW x \in Permitted, Deferred(x), ~Deferred(x)'
               PROVE  Owned(x)'
    OBVIOUS
  <2>1. x = e0
    BY <1>6
  <2> QED BY <1>3, <1>5, <2>1 DEF Owned
<1>8. StoreInv'
  BY <1>5, <1>6, <1>7, StoreKeeps DEF IInv
<1> QED BY <1>2, <1>5, <1>6, <1>8

LEMMA AdmissionStepsKeep ==
  ASSUME TypeOK, TypeOK', IInv,
         \/ Reject \/ Discard \/ NoRoom \/ AdmitDuplicate \/ AdmitQueue \/ AdmitBegin
         \/ Defer \/ Commit \/ StartTurn
  PROVE  IInv'
<1> USE DEF store, task, cancelling, bounds, history
<1>0. /\ pc \in Admission /\ pc \notin Resting /\ batch # <<>>
      /\ e0 \in Events /\ e0 = Head(batch) /\ e0 <= Cursor
      /\ Chat[e0] \in Sess /\ Here \in Session /\ Here = sess[Chat[e0]]
      /\ GoneOwnsNothing(Here) /\ sess \in [Sess -> Session]
  <2>1. pc \in Admission
    BY DEF Reject, Discard, NoRoom, AdmitDuplicate, AdmitQueue, AdmitBegin,
           Admitting, Defer, Commit, StartTurn, Admission
  <2>2. pc \notin Resting /\ batch # <<>>
    BY <2>1 DEF TypeOK, Admission, Resting
  <2>3. e0 \in Events /\ Chat[e0] \in Sess /\ Here \in Session
    BY <2>2, HeadEvent
  <2>4. e0 <= Cursor /\ Gone
    BY <2>1 DEF IInv, InHand, StoreInv
  <2> QED BY <2>1, <2>2, <2>3, <2>4 DEF TypeOK, e0, Here, Gone
<1>1. CASE Reject
  <2>1. StoreInv' /\ UNCHANGED <<sess, closed, deferred>> /\ pc = "admit"
    BY <1>1, StillKeepsStore DEF Reject, IInv
  <2>2. e0 \in Permitted => Owned(e0)
    BY <1>0, <1>1 DEF Reject, Rejected, Known, IInv, StoreInv, Kept
  <2> QED BY <1>0, <1>1, <2>1, <2>2, AdmissionKeeps DEF Reject, Owned, Deferred, Admission
<1>2. CASE Discard
  <2>1. /\ UNCHANGED <<sess, seen, offset, deferred>> /\ pc = "admit" /\ Goto("commit")
        /\ closed' = closed \cup {e0}
    BY <1>2 DEF Discard, e0
  <2>2. SessionsCarry
    BY <2>1, AllCarry DEF IInv, StoreInv
  <2>3. StoreInv'
    BY <2>1, <2>2, SessionsKeepStore DEF IInv
  <2> QED BY <1>0, <2>1, <2>3, AdmissionKeeps DEF Deferred, Admission
<1>3. CASE NoRoom
  <2>0. /\ UNCHANGED <<closed, seen, offset>> /\ pc = "admit" /\ Goto("defer")
        /\ Here.status = "absent"
    BY <1>0, <1>3 DEF NoRoom
  <2>1. CASE UNCHANGED <<sess, deferred>>
    <3>1. StoreInv'
      BY <2>0, <2>1, StillKeepsStore DEF IInv
    <3> QED BY <1>0, <2>0, <2>1, <3>1, AdmissionKeeps DEF Deferred, Admission
  <2>2. CASE BeginTurn(e0, Ensure(NoSession))
    <3> DEFINE r == Ensure(NoSession)
    <3>1. /\ r \in Session /\ r.queued = <<>> /\ r.inflight = NoEvent /\ r.messages = {}
      <4>1. r.queued = <<>> /\ r.inflight = NoEvent /\ r.messages = {}
        BY DEF Ensure, NoSession
      <4> QED BY <4>1, EnsureType, NoSessionType
    <3> HIDE DEF r
    <3>2. \A x \in Events : Owns(r, x) <=> Owns(Here, x)
      BY <1>0, <2>0, <3>1 DEF Owns, InQueue, GoneOwnsNothing
    <3>3. StoreInv' /\ \A x : Deferred(x)' => Deferred(x)
      BY <1>0, <2>0, <2>2, <3>1, <3>2, BegunKeepsStore DEF r
    <3> QED BY <1>0, <2>0, <3>3, AdmissionKeeps DEF Admission
  <2> QED BY <1>0, <1>3, <2>1, <2>2 DEF NoRoom
<1>4. CASE AdmitDuplicate
  <2>1. StoreInv' /\ UNCHANGED <<sess, closed, deferred>> /\ pc = "admit"
    BY <1>4, StillKeepsStore DEF AdmitDuplicate, Admitting, IInv
  <2>2. e0 \in Here.messages \/ InQueue(Here, e0)
    BY <1>0, <1>4 DEF AdmitDuplicate, Duplicate
  <2>3. e0 \in Permitted => Owned(e0)
    BY <1>0, <2>2 DEF IInv, StoreInv, Kept, Owned, Owns
  <2> QED BY <1>0, <1>4, <2>1, <2>3, AdmissionKeeps DEF AdmitDuplicate, Owned, Deferred, Admission
<1>5. CASE AdmitQueue
  <2>1. UNCHANGED <<closed, seen, offset, deferred>> /\ pc = "admit" /\ Here.status = "working"
    BY <1>0, <1>5 DEF AdmitQueue, Admitting
  <2>2. CASE UNCHANGED sess /\ Goto("defer")
    <3>1. StoreInv'
      BY <2>1, <2>2, StillKeepsStore DEF IInv
    <3> QED BY <1>0, <2>1, <2>2, <3>1, AdmissionKeeps DEF Deferred, Admission
  <2>3. CASE sess' = [sess EXCEPT ![Chat[e0]] = Queue(Here, e0)] /\ Goto("commit")
    <3> DEFINE r == Queue(Here, e0)
    <3>1. /\ InQueue(r, e0) /\ \A x : Owns(r, x) <=> Owns(Here, x) \/ x = e0
          /\ r.messages = Here.messages /\ r.status # "absent"
      BY <1>0, <2>1, QueueOwns
    <3> HIDE DEF r
    <3>2. Carries(Chat[e0], Here, r)
      BY <1>0, <3>1 DEF Carries, GoneOwnsNothing
    <3>3. SessionsCarry
      BY <1>0, <2>1, <2>3, <3>2, OneCarries DEF r, IInv, StoreInv
    <3>4. StoreInv'
      BY <2>1, <3>3, SessionsKeepStore DEF IInv
    <3>5. Owns(sess'[Chat[e0]], e0)
      BY <1>0, <2>3, <3>1 DEF r, Owns
    <3> QED BY <1>0, <2>1, <2>3, <3>4, <3>5, AdmissionKeeps DEF Deferred, Admission
  <2> QED BY <1>0, <1>5, <2>2, <2>3 DEF AdmitQueue
<1>6. CASE AdmitBegin
  <2> DEFINE r == Ensure(Here)
  <2>0. UNCHANGED <<closed, seen, offset>> /\ pc = "admit"
    BY <1>6 DEF AdmitBegin, Admitting
  <2>1. /\ r \in Session /\ r.queued = Here.queued /\ r.inflight = Here.inflight
        /\ \A x : Owns(r, x) <=> Owns(Here, x)
        /\ r.messages \subseteq Here.messages /\ r.status # "absent"
    BY <1>0, EnsureOwns, EnsureType
  <2>2. CASE /\ sess' = [sess EXCEPT ![Chat[e0]] = r]
             /\ BreakBatch /\ UNCHANGED deferred
    <3> HIDE DEF r
    <3>1. Carries(Chat[e0], Here, r)
      BY <2>1 DEF Carries, GoneOwnsNothing
    <3>2. SessionsCarry
      BY <1>0, <2>0, <2>2, <3>1, OneCarries DEF IInv, StoreInv
    <3>3. StoreInv'
      BY <2>0, <2>2, <3>2, SessionsKeepStore DEF IInv
    <3> QED BY <2>2, <3>3, RestingKeeps DEF BreakBatch, Resting
  <2>3. CASE ~BeginRefuses(r, e0) /\ BeginTurn(e0, r) /\ Goto("begun")
    <3>1. r.inflight = NoEvent
      BY <2>3 DEF BeginRefuses
    <3> HIDE DEF r
    <3>2. /\ StoreInv' /\ sess'[Chat[e0]].inflight = e0
          /\ \A x : Deferred(x)' => Deferred(x)
      BY <1>0, <2>0, <2>1, <2>3, <3>1, BegunKeepsStore
    <3> QED BY <1>0, <2>0, <2>3, <3>2, AdmissionKeeps DEF Admission
  <2> QED BY <1>0, <1>6, <2>2, <2>3 DEF AdmitBegin
<1>7. CASE Defer
  <2>0. pc = "defer" /\ UNCHANGED <<sess, closed, seen, offset>>
    BY <1>7 DEF Defer
  <2>1. CASE Deferred(e0) /\ NextEvent /\ UNCHANGED deferred
    <3>1. StoreInv'
      BY <2>0, <2>1, StillKeepsStore DEF IInv
    <3>2. offset' \in Nat
      BY <2>0, Constants DEF TypeOK
    <3>3. Len(batch) # 1 => e0 < offset' /\ \A e \in Events : Deferred(e)' => e \in seen'
      BY <1>0, <2>0, <2>1 DEF IInv, InOrder, DeferredKnown, StoreInv, Cut, Deferred
    <3> QED BY <1>0, <2>1, <3>1, <3>2, <3>3, NextEventKeeps
  <2>2. CASE BreakBatch /\ UNCHANGED deferred
    <3>1. StoreInv'
      BY <2>0, <2>2, StillKeepsStore DEF IInv
    <3> QED BY <2>2, <3>1, RestingKeeps DEF BreakBatch, Resting
  <2>3. CASE deferred' = Append(deferred, e0) /\ Goto("retain")
    <3>1. \A x : Deferred(x)' <=> x = e0 \/ Deferred(x)
      <4> TAKE x
      <4>1. deferred \in Seq(Events)
        BY DEF TypeOK
      <4>2. Holds(Append(deferred, e0), x) <=> x = e0 \/ Holds(deferred, x)
        BY <1>0, <4>1, AppendKeeps
      <4>3. (Deferred(x) <=> Holds(deferred, x)) /\ (Deferred(x)' <=> Holds(deferred', x))
        BY DEF Deferred, Holds
      <4> QED BY <2>3, <4>2, <4>3
    <3>2. SessionsCarry
      BY <2>0, AllCarry DEF IInv, StoreInv
    <3>3. StoreInv'
      BY <1>0, <2>0, <3>1, <3>2, StoreKeeps DEF IInv
    <3>4. Holds(deferred', e0)
      BY <3>1 DEF Deferred, Holds
    <3> QED BY <1>0, <2>0, <2>3, <3>1, <3>3, <3>4, AdmissionKeeps DEF Admission
  <2> QED BY <1>0, <1>7, <2>1, <2>2, <2>3 DEF Defer
<1>8. CASE Commit
  <2>1. /\ CommitEvent(e0, pc = "retain") /\ NextEvent /\ UNCHANGED <<sess, closed>>
        /\ pc \in {"commit", "retain"}
    BY <1>0, <1>8 DEF Commit
  <2>2. IF pc = "retain" THEN Deferred(e0) ELSE e0 \in Permitted => Owned(e0)
    BY <2>1 DEF IInv, InHand
  <2>3. /\ StoreInv' /\ e0 \in seen' /\ e0 < offset' /\ offset <= offset'
        /\ Cursor <= Cursor' /\ seen \subseteq seen'
        /\ \A x : Deferred(x)' => Deferred(x)
    BY <1>0, <2>1, <2>2, CommitKeeps DEF IInv
  <2>4. offset' \in Nat
    BY Constants DEF TypeOK
  <2>5. Len(batch) # 1 => \A e \in Events : Deferred(e)' => e \in seen'
    BY <1>0, <2>1, <2>3 DEF IInv, InOrder, DeferredKnown
  <2> QED BY <1>0, <2>1, <2>3, <2>4, <2>5, NextEventKeeps
<1>9. CASE StartTurn
  <2>0. /\ pc = "begun" /\ pc' = "turn" /\ UNCHANGED <<sess, closed, batch, picked>>
        /\ Here.inflight = e0
    BY <1>9 DEF StartTurn, IInv, InHand, Turning
  <2>1. e0' = e0 /\ Here'.inflight = e0'
    BY <2>0 DEF e0, Here
  <2>2. InHand'
    BY <2>0, <2>1 DEF InHand, Admission
  <2>3. CASE e0 = picked /\ UNCHANGED <<seen, offset, deferred>>
    <3>1. StoreInv'
      BY <2>0, <2>3, StillKeepsStore DEF IInv
    <3>2. Len(batch) = 1
      BY <1>0, <2>3, Constants DEF IInv, InOrder
    <3>3. InOrder'
      BY <1>0, <2>0, <3>2 DEF IInv, InOrder, Consecutive
    <3> QED BY <2>2, <3>1, <3>3 DEF IInv
  <2>4. CASE CommitEvent(e0, FALSE)
    <3>1. Owned(e0)
      BY <2>0 DEF Owned, Owns, Here
    <3>2. /\ StoreInv' /\ e0 \in seen' /\ e0 < offset' /\ offset <= offset'
          /\ Cursor <= Cursor' /\ seen \subseteq seen'
          /\ \A x : Deferred(x)' => Deferred(x)
      BY <1>0, <2>0, <2>4, <3>1, CommitKeeps DEF IInv
    <3>3. InOrder'
      BY <1>0, <2>0, <2>1, <3>2 DEF IInv, InOrder, Consecutive, DeferredKnown
    <3> QED BY <2>2, <3>2, <3>3 DEF IInv
  <2> QED BY <1>0, <1>9, <2>3, <2>4 DEF StartTurn
<1> QED BY <1>1, <1>2, <1>3, <1>4, <1>5, <1>6, <1>7, <1>8, <1>9

LEMMA TurnStepsKeep ==
  ASSUME TypeOK, TypeOK', IInv,
         \/ MutatingTool \/ ToolPush \/ ToolPushed
         \/ FlushFirst \/ FlushEdit \/ Flushed
         \/ \E e \in Events : SideEvent(e)
         \/ SideDefer \/ SideCommit
  PROVE  IInv'
<1> USE DEF store, task, cancelling, bounds, history
<1>0. /\ pc \in Turning /\ pc \notin Resting /\ pc \notin Admission /\ batch # <<>>
      /\ e0 \in Events /\ Chat[e0] \in Sess
      /\ Here \in Session /\ Here = sess[Chat[e0]] /\ Here.inflight = e0
      /\ sess \in [Sess -> Session] /\ Gone
  <2>1. pc \in Turning /\ pc # "begun"
    BY DEF MutatingTool, ToolPush, ToolPushed, FlushFirst, FlushEdit, Flushed,
           SideEvent, SideDefer, SideCommit, Turning
  <2>2. pc \notin Resting /\ pc \notin Admission /\ batch # <<>>
    BY <2>1 DEF TypeOK, Admission, Resting, Turning
  <2>3. e0 \in Events /\ Chat[e0] \in Sess /\ Here \in Session
    BY <2>2, HeadEvent
  <2>4. Here.inflight = e0 /\ Gone
    BY <2>1 DEF IInv, InHand, StoreInv
  <2> QED BY <2>1, <2>2, <2>3, <2>4 DEF TypeOK, Here
<1>1. CASE MutatingTool \/ ToolPush \/ ToolPushed \/ FlushFirst \/ FlushEdit \/ Flushed
  <2>1. UNCHANGED <<closed, seen, offset, deferred, batch, picked>>
    BY <1>1 DEF MutatingTool, ToolPush, ToolPushed, FlushFirst, FlushEdit, Flushed, Goto
  <2>2. pc \in Plain /\ pc' \in Plain
    BY <1>1 DEF MutatingTool, ToolPush, ToolPushed, FlushFirst, FlushEdit, Flushed, Goto, Plain
  <2>3. \/ sess' = sess
        \/ \E r \in {[Here EXCEPT !.phase = "unsafe"], Push(Here), SetStatus(Here, "working"),
                     StartStream(Here, e0)} : sess' = [sess EXCEPT ![Chat[e0]] = r]
    BY <1>0, <1>1 DEF MutatingTool, ToolPush, ToolPushed, FlushFirst, FlushEdit, Flushed
  <2>4. \A s \in Sess : SameMessages(sess[s], sess'[s])
    <3>1. CASE sess' = sess
      BY <3>1 DEF SameMessages
    <3>2. ASSUME NEW r \in {[Here EXCEPT !.phase = "unsafe"], Push(Here),
                            SetStatus(Here, "working"), StartStream(Here, e0)},
                 sess' = [sess EXCEPT ![Chat[e0]] = r]
          PROVE  \A s \in Sess : SameMessages(sess[s], sess'[s])
      <4>1. SameMessages(Here, r)
        BY <1>0, SameOperations
      <4>2. \A s \in Sess : sess'[s] = IF s = Chat[e0] THEN r ELSE sess[s]
        BY <1>0, <3>2
      <4>3. \A x : SameMessages(x, x)
        BY DEF SameMessages
      <4> QED BY <1>0, <4>1, <4>2, <4>3
    <3> QED BY <2>3, <3>1, <3>2
  <2>5. SessionsCarry /\ sess'[Chat[e0]].inflight = e0
    BY <1>0, <2>1, <2>4, AllCarry DEF SameMessages
  <2> QED BY <2>1, <2>2, <2>5, StayKeeps
<1>2. ASSUME NEW e \in Events, SideEvent(e)
      PROVE  IInv'
  <2> DEFINE r == Ensure(sess[Chat[e]])
  <2>1. /\ pc = "turn" /\ cur' = e /\ UNCHANGED <<closed, seen, offset, deferred, batch, picked>>
        /\ Chat[e] \in Sess /\ pc' \in {"sidecommit", "sidedefer"}
    BY <1>2, Constants DEF SideEvent
  <2>2. e <= Cursor
    <3>1. offset \in Nat /\ e \in Nat
      BY Constants, StoreAssumption DEF TypeOK
    <3>2. Cursor \in Nat
      BY <3>1 DEF Cursor
    <3> QED BY <1>2, <3>1, <3>2 DEF SideEvent
  <2>3. /\ r \in Session /\ r.queued = sess[Chat[e]].queued
        /\ r.inflight = sess[Chat[e]].inflight
        /\ \A x : Owns(r, x) <=> Owns(sess[Chat[e]], x)
        /\ r.messages \subseteq sess[Chat[e]].messages /\ r.status # "absent"
    BY <1>0, <2>1, EnsureOwns, EnsureType DEF Gone
  <2>4. \/ /\ sess' = sess
           /\ pc' = "sidecommit" => Known(e) \/ e \notin Permitted
        \/ pc' = "sidedefer" /\ sess' = [sess EXCEPT ![Chat[e]] = r]
        \/ pc' = "sidecommit" /\ sess' = [sess EXCEPT ![Chat[e]] = Queue(r, e)]
    BY <1>2 DEF SideEvent
  <2>5. /\ SessionsCarry /\ sess'[Chat[e0]].inflight = e0
        /\ pc' = "sidecommit" /\ e \in Permitted => Owned(e)'
    <3>1. CASE sess' = sess /\ (pc' = "sidecommit" => Known(e) \/ e \notin Permitted)
      <4>1. SessionsCarry
        BY <1>0, <2>1, <3>1, AllCarry
      <4>2. e \in Permitted /\ Known(e) => Owned(e)
        BY DEF Known, IInv, StoreInv, Kept
      <4> QED BY <1>0, <2>1, <3>1, <4>1, <4>2 DEF Owned
    <3>2. CASE pc' = "sidedefer" /\ sess' = [sess EXCEPT ![Chat[e]] = r]
      <4> HIDE DEF r
      <4>1. Carries(Chat[e], sess[Chat[e]], r)
        BY <2>3 DEF Carries, GoneOwnsNothing
      <4>2. SessionsCarry
        BY <1>0, <2>1, <3>2, <4>1, OneCarries
      <4>3. sess'[Chat[e0]].inflight = sess[Chat[e0]].inflight
        BY <1>0, <2>1, <2>3, <3>2
      <4> QED BY <1>0, <3>2, <4>2, <4>3
    <3>3. CASE pc' = "sidecommit" /\ sess' = [sess EXCEPT ![Chat[e]] = Queue(r, e)]
      <4> DEFINE r2 == Queue(r, e)
      <4>1. /\ \A x : Owns(r2, x) <=> Owns(r, x) \/ x = e
            /\ r2.inflight = r.inflight /\ r2.messages = r.messages /\ r2.status # "absent"
        BY <2>3, QueueOwns
      <4> HIDE DEF r, r2
      <4>2. Carries(Chat[e], sess[Chat[e]], r2)
        BY <2>2, <2>3, <4>1 DEF Carries, GoneOwnsNothing
      <4>3. SessionsCarry
        BY <1>0, <2>1, <3>3, <4>2, OneCarries DEF r2
      <4>4. sess'[Chat[e0]].inflight = sess[Chat[e0]].inflight
        BY <1>0, <2>1, <2>3, <3>3, <4>1 DEF r2
      <4>5. sess'[Chat[e]] = r2
        BY <1>0, <2>1, <3>3 DEF r2
      <4>6. Owned(e)'
        BY <4>1, <4>5 DEF Owned
      <4> QED BY <1>0, <4>3, <4>4, <4>6
    <3> QED BY <2>4, <3>1, <3>2, <3>3
  <2>6. StoreInv'
    BY <2>1, <2>5, SessionsKeepStore DEF IInv
  <2>7. e0' = e0 /\ Here' = sess'[Chat[e0]] /\ Cursor' = Cursor
    BY <2>1 DEF e0, Here, Cursor
  <2>8. InHand'
    BY <2>1, <2>2, <2>5, <2>7 DEF InHand, Owned, Admission
  <2>9. InOrder'
    BY <1>0, <2>1, <2>7 DEF IInv, InOrder, Consecutive, DeferredKnown, Deferred, Resting, Admission
  <2> QED BY <2>6, <2>8, <2>9 DEF IInv
<1>3. CASE SideDefer
  <2>1. /\ pc = "sidedefer" /\ UNCHANGED <<sess, closed, seen, offset, batch, picked>>
        /\ cur <= Cursor /\ cur \in Events
    BY <1>3, Constants DEF SideDefer, BackToTurn, IInv, InHand, TypeOK
  <2>2. e0' = e0 /\ Here' = Here /\ Cursor' = Cursor
    BY <2>1 DEF e0, Here, Cursor
  <2>3. CASE BackToTurn /\ UNCHANGED deferred
    <3>1. StoreInv'
      BY <2>1, <2>3, StillKeepsStore DEF IInv
    <3>2. InHand'
      BY <1>0, <2>2, <2>3 DEF BackToTurn, InHand, Admission
    <3>3. InOrder'
      BY <1>0, <2>1, <2>2, <2>3
      DEF BackToTurn, IInv, InOrder, Consecutive, DeferredKnown, Deferred
    <3> QED BY <3>1, <3>2, <3>3 DEF IInv
  <2>4. CASE deferred' = Append(deferred, cur) /\ pc' = "sideretain" /\ UNCHANGED cur
    <3>1. \A x : Deferred(x)' <=> x = cur \/ Deferred(x)
      <4> TAKE x
      <4>1. deferred \in Seq(Events)
        BY DEF TypeOK
      <4>2. Holds(Append(deferred, cur), x) <=> x = cur \/ Holds(deferred, x)
        BY <2>1, <4>1, AppendKeeps
      <4>3. (Deferred(x) <=> Holds(deferred, x)) /\ (Deferred(x)' <=> Holds(deferred', x))
        BY DEF Deferred, Holds
      <4> QED BY <2>4, <4>2, <4>3
    <3>2. SessionsCarry
      BY <2>1, AllCarry DEF IInv, StoreInv
    <3>3. StoreInv'
      BY <2>1, <3>1, <3>2, StoreKeeps DEF IInv
    <3>4. Holds(deferred', cur)
      BY <3>1 DEF Deferred, Holds
    <3>5. InHand'
      BY <1>0, <2>1, <2>2, <2>4, <3>4 DEF InHand, Deferred, Holds, Admission
    <3>6. InOrder'
      BY <1>0, <2>1, <2>2, <2>4, <3>1 DEF IInv, InOrder, Consecutive, DeferredKnown
    <3> QED BY <3>3, <3>5, <3>6 DEF IInv
  <2> QED BY <1>3, <2>3, <2>4 DEF SideDefer
<1>4. CASE SideCommit
  <2>1. /\ pc \in {"sidecommit", "sideretain"} /\ pc' = "turn"
        /\ CommitEvent(cur, pc = "sideretain") /\ UNCHANGED <<sess, closed, batch, picked>>
        /\ cur <= Cursor /\ cur \in Events
    BY <1>4, Constants DEF SideCommit, BackToTurn, IInv, InHand, TypeOK
  <2>2. IF pc = "sideretain" THEN Deferred(cur) ELSE cur \in Permitted => Owned(cur)
    BY <2>1 DEF IInv, InHand
  <2>3. /\ StoreInv' /\ cur \in seen' /\ cur < offset' /\ offset <= offset'
        /\ Cursor <= Cursor' /\ seen \subseteq seen'
        /\ \A x : Deferred(x)' => Deferred(x)
    BY <2>1, <2>2, CommitKeeps DEF IInv
  <2>4. e0' = e0 /\ Here' = Here
    BY <2>1 DEF e0, Here
  <2>5. InHand'
    BY <1>0, <2>1, <2>4 DEF InHand, Admission
  <2>6. e0 < offset => e0 < offset'
    <3>1. offset \in Nat /\ offset' \in Nat /\ e0 \in Nat
      BY <1>0, Constants, StoreAssumption DEF TypeOK
    <3> QED BY <2>3, <3>1
  <2>7. InOrder'
    BY <1>0, <2>1, <2>3, <2>4, <2>6 DEF IInv, InOrder, Consecutive, DeferredKnown
  <2> QED BY <2>3, <2>5, <2>7 DEF IInv
<1> QED BY <1>1, <1>2, <1>3, <1>4

LEMMA EndStepsKeep ==
  ASSUME TypeOK, TypeOK', IInv,
         \/ TurnCancelled \/ Acknowledge \/ TurnFails \/ TurnFailed \/ TurnAnswers
         \/ ReplySent \/ Settle
  PROVE  IInv'
<1> USE DEF store, task, cancelling, bounds, history
<1>0. /\ pc \in Plain /\ pc \notin Resting /\ batch # <<>>
      /\ e0 \in Events /\ Chat[e0] \in Sess
      /\ Here \in Session /\ Here = sess[Chat[e0]] /\ sess \in [Sess -> Session] /\ Gone
  <2>1. pc \in Plain
    BY DEF TurnCancelled, Acknowledge, TurnFails, TurnFailed, TurnAnswers,
           ReplySent, Settle, Plain
  <2>2. pc \notin Resting /\ batch # <<>>
    BY <2>1 DEF TypeOK, Resting, Plain
  <2>3. e0 \in Events /\ Chat[e0] \in Sess /\ Here \in Session
    BY <2>2, HeadEvent
  <2> QED BY <2>1, <2>2, <2>3 DEF TypeOK, Here, IInv, StoreInv
<1>a. pc \in Turning => Here.inflight = e0
  BY DEF IInv, InHand
(* The end of a turn with the next event of the batch.                     *)
<1>b. ASSUME SessionsCarry, UNCHANGED <<seen, offset, deferred>>, NextEvent
      PROVE  IInv'
  <2>1. StoreInv'
    BY <1>b, SessionsKeepStore DEF IInv
  <2>2. offset' \in Nat
    BY Constants DEF TypeOK
  <2>3. Len(batch) # 1 => e0 < offset' /\ \A e \in Events : Deferred(e)' => e \in seen'
    BY <1>0, <1>b DEF IInv, InOrder, DeferredKnown, Deferred, Plain, Admission
  <2> QED BY <1>0, <1>b, <2>1, <2>2, <2>3, NextEventKeeps
<1>1. CASE TurnCancelled
  <2> DEFINE r == Clear(Here, "cancelled")
  <2>1. /\ UNCHANGED <<seen, offset, deferred, batch, picked>> /\ pc = "turn" /\ pc' = "ack"
        /\ closed' = closed \cup {e0} \cup QueuedEvents(Here)
        /\ sess' = [sess EXCEPT ![Chat[e0]] = r]
    BY <1>1 DEF TurnCancelled, Goto
  <2>2. r.queued = <<>> /\ r.inflight = NoEvent /\ r.messages = Here.messages
    BY <1>0, EndOwns
  <2> HIDE DEF r
  <2>3. \A e : ~InQueue(r, e)
    BY <2>2, EmptyOwnsNothing
  <2>4. \A e : InQueue(Here, e) => e \in closed'
    BY <2>1 DEF InQueue, QueuedEvents
  <2>5. Here.inflight = e0 /\ e0 \in closed'
    BY <1>a, <2>1 DEF Turning
  <2>6. Carries(Chat[e0], Here, r)
    BY <2>2, <2>3, <2>4, <2>5, Constants DEF Carries, Owns, GoneOwnsNothing
  <2>7. SessionsCarry
    BY <1>0, <2>1, <2>6, OneCarries
  <2> QED BY <2>1, <2>7, StayKeeps DEF Plain, Turning
<1>2. CASE Acknowledge
  <2>1. UNCHANGED <<sess, closed, seen, offset, deferred>> /\ NextEvent
    BY <1>2 DEF Acknowledge
  <2> QED BY <1>b, <2>1, StillKeepsStore DEF IInv
<1>3. CASE TurnFails
  <2>1. UNCHANGED <<sess, closed, seen, offset, deferred, batch, picked>>
        /\ pc = "turn" /\ pc' = "failing"
    BY <1>3 DEF TurnFails, Goto
  <2>2. SessionsCarry /\ sess'[Chat[e0]].inflight = e0
    BY <1>0, <1>a, <2>1, StillKeepsStore DEF IInv, Turning
  <2> QED BY <2>1, <2>2, StayKeeps DEF Plain
<1>4. CASE TurnFailed
  <2> DEFINE r == IF ReplyRefuses(outbox, e0) THEN Clear(Here, "interrupted")
                                            ELSE ReplySession(Here)
             next == IF Retries(Here, r, e0) THEN Queue(r, e0) ELSE r
  <2>1. /\ UNCHANGED <<seen, offset, deferred>> /\ NextEvent /\ pc = "failing"
        /\ closed' = (IF Retries(Here, r, e0) THEN closed ELSE closed \cup {e0})
    BY <1>4 DEF TurnFailed
  <2>2. sess' = [sess EXCEPT ![Chat[e0]] = next]
    BY <1>4 DEF TurnFailed
  <2>3. /\ r.inflight = NoEvent /\ r.messages = Here.messages /\ r.queued = Here.queued
        /\ r.status # "absent" /\ r \in Session
    BY <1>0, EndOwns
  <2> HIDE DEF r
  <2>4. Here.inflight = e0 /\ e0 <= Cursor
    <3>1. Here.inflight = e0
      BY <1>a, <2>1 DEF Turning
    <3>2. Owns(Here, e0)
      BY <3>1 DEF Owns
    <3> QED BY <1>0, <3>1, <3>2 DEF IInv, StoreInv, Low
  <2>5. \A x \in Events : InQueue(r, x) <=> InQueue(Here, x)
    BY <2>3 DEF InQueue
  <2>6. Permitted \subseteq Events /\ NoEvent \notin Events
    BY BridgeAssumption, Constants
  <2>7. Carries(Chat[e0], Here, next)
    <3>1. CASE Retries(Here, r, e0)
      <4>1. /\ next = Queue(r, e0) /\ \A x : Owns(next, x) <=> Owns(r, x) \/ x = e0
            /\ next.messages = r.messages /\ next.status # "absent"
        BY <1>0, <2>3, <3>1, QueueOwns
      <4> HIDE DEF next
      <4> QED BY <2>3, <2>4, <2>5, <2>6, <4>1 DEF Carries, Owns, GoneOwnsNothing
    <3>2. CASE ~Retries(Here, r, e0)
      <4>1. next = r /\ e0 \in closed'
        BY <2>1, <3>2
      <4> HIDE DEF next
      <4> QED BY <2>3, <2>4, <2>5, <2>6, <4>1 DEF Carries, Owns, GoneOwnsNothing
    <3> QED BY <3>1, <3>2
  <2>8. closed \subseteq closed'
    BY <2>1
  <2> HIDE DEF next
  <2>9. SessionsCarry
    BY <1>0, <2>2, <2>7, <2>8, OneCarries
  <2> QED BY <1>b, <2>1, <2>9
<1>5. CASE TurnAnswers
  <2>0. UNCHANGED <<seen, offset, deferred>> /\ pc = "turn"
    BY <1>5 DEF TurnAnswers
  <2>1. CASE ReplyRefuses(outbox, e0)
    <3>1. Stopped /\ UNCHANGED <<sess, closed>>
      BY <1>5, <2>1 DEF TurnAnswers
    <3>2. StoreInv'
      BY <2>0, <3>1, StillKeepsStore DEF IInv
    <3> QED BY <3>1, <3>2, RestingKeeps DEF Stopped, Resting
  <2>2. CASE ~ReplyRefuses(outbox, e0)
    <3> DEFINE r == ReplySession(Here)
    <3>1. sess' = [sess EXCEPT ![Chat[e0]] = r] /\ closed' = closed \cup {e0}
      BY <1>5, <2>2 DEF TurnAnswers
    <3>2. \/ NextEvent
          \/ pc' = "reply" /\ UNCHANGED <<batch, picked>>
      BY <1>5, <2>2 DEF TurnAnswers, Goto
    <3>3. /\ r.inflight = NoEvent /\ r.messages = Here.messages /\ r.queued = Here.queued
          /\ r.status # "absent"
      BY <1>0, EndOwns
    <3> HIDE DEF r
    <3>4. Here.inflight = e0 /\ e0 \in closed'
      BY <1>a, <2>0, <3>1 DEF Turning
    <3>5. \A x : InQueue(r, x) <=> InQueue(Here, x)
      BY <3>3 DEF InQueue
    <3>6. Carries(Chat[e0], Here, r)
      BY <3>3, <3>4, <3>5, Constants DEF Carries, Owns, GoneOwnsNothing
    <3>7. SessionsCarry
      BY <1>0, <3>1, <3>6, OneCarries
    <3>8. CASE pc' = "reply" /\ UNCHANGED <<batch, picked>>
      BY <2>0, <3>7, <3>8, StayKeeps DEF Plain, Turning
    <3> QED BY <1>b, <2>0, <3>2, <3>7, <3>8
  <2> QED BY <2>1, <2>2
<1>6. CASE ReplySent
  <2>1. UNCHANGED <<sess, closed, seen, offset, deferred>> /\ pc = "reply"
    BY <1>6 DEF ReplySent
  <2>2. StoreInv' /\ SessionsCarry
    BY <2>1, StillKeepsStore DEF IInv
  <2>3. Stopped \/ (pc' = "settle" /\ UNCHANGED <<batch, picked>>)
    BY <1>6 DEF ReplySent, SendAccepted, SendFailed
  <2>4. CASE Stopped
    BY <2>2, <2>4, RestingKeeps DEF Stopped, Resting
  <2>5. CASE pc' = "settle" /\ UNCHANGED <<batch, picked>>
    BY <2>1, <2>2, <2>5, StayKeeps DEF Plain, Turning
  <2> QED BY <2>3, <2>4, <2>5
<1>7. CASE Settle
  <2>1. UNCHANGED <<closed, seen, offset, deferred>> /\ NextEvent
    BY <1>7 DEF Settle
  <2>2. sess' = [sess EXCEPT ![Chat[e0]] =
                   IF Here.status = "absent" THEN Here ELSE SetStatus(Here, "idle")]
    BY <1>7 DEF Settle, Here
  <2>3. \A s \in Sess : sess'[s] = sess[s] \/ SameMessages(sess[s], sess'[s])
    <3>1. SameMessages(Here, SetStatus(Here, "idle"))
      BY <1>0, SameOperations
    <3> QED BY <1>0, <2>2, <3>1
  <2>4. SessionsCarry
    BY <1>0, <2>1, <2>3, AllCarry
  <2> QED BY <1>b, <2>1, <2>4
<1> QED BY <1>1, <1>2, <1>3, <1>4, <1>5, <1>6, <1>7

LEMMA ClientStepsKeep ==
  ASSUME TypeOK, IInv, Clients
  PROVE  IInv'
<1> USE DEF store, task, cancelling, bounds, history
<1>0. sess \in [Sess -> Session] /\ Gone
  BY DEF TypeOK, IInv, StoreInv
<1>1. UNCHANGED <<seen, offset, deferred, pc, batch, picked, cur>>
  BY DEF Clients, CancelSession, RequestCancel, CancelTimesOut, AppendByClient, DeleteSession,
         TuiReserve, TuiRelease, RetryDelivery, DropDelivery, ClientOp
<1>2. \A s \in Sess : Sessions[s] \in Session /\ SameMessages(sess[s], Sessions[s])
  BY <1>0, RecoveredType, SameOperations DEF Sessions
(* A client never takes the turn away from a session that has one.         *)
<1>3. ASSUME SessionsCarry,
             \A s \in Sess : sess[s].inflight # NoEvent => sess'[s].inflight = sess[s].inflight
      PROVE  IInv'
  <2>1. pc \in Turning => sess'[Chat[e0]].inflight = e0
    <3> SUFFICES ASSUME pc \in Turning PROVE sess'[Chat[e0]].inflight = e0
      OBVIOUS
    <3>1. batch # <<>> /\ Here.inflight = e0
      BY DEF TypeOK, Turning, IInv, InHand
    <3>2. e0 \in Events /\ Chat[e0] \in Sess
      BY <3>1, HeadEvent
    <3> QED BY <1>3, <3>1, <3>2, Constants DEF Here
  <2> QED BY <1>1, <1>3, <2>1, StayKeeps
<1>4. ASSUME NEW s \in Sess, CancelSession(s)
      PROVE  IInv'
  <2> DEFINE r == Cancel(sess[s])
  <2>1. /\ sess' = [sess EXCEPT ![s] = r] /\ closed' = closed \cup QueuedEvents(sess[s])
    BY <1>4 DEF CancelSession
  <2>2. /\ r.queued = <<>> /\ r.inflight = sess[s].inflight /\ r.messages = sess[s].messages
        /\ r.status # "absent"
    <3>1. sess[s].status # "absent" /\ sess[s] \in Session
      BY <1>0, <1>4 DEF CancelSession
    <3>2. r.status # "absent"
      BY <3>1 DEF Cancel, Clear, SetStatus, Session
    <3> QED BY <3>1, <3>2, EndOwns
  <2> HIDE DEF r
  <2>3. \A e : ~InQueue(r, e)
    BY <2>2, EmptyOwnsNothing
  <2>4. \A e : InQueue(sess[s], e) => e \in closed'
    BY <2>1 DEF InQueue, QueuedEvents
  <2>5. Carries(s, sess[s], r)
    BY <2>2, <2>3, <2>4 DEF Carries, Owns, GoneOwnsNothing
  <2>6. SessionsCarry
    BY <1>0, <2>1, <2>5, OneCarries
  <2>7. \A t \in Sess : sess'[t].inflight = sess[t].inflight
    BY <1>0, <2>1, <2>2
  <2> QED BY <1>3, <2>6, <2>7
<1>5. ASSUME NEW s \in Sess, DeleteSession(s)
      PROVE  IInv'
  <2>1. /\ sess' = [Sessions EXCEPT ![s] = NoSession] /\ ~RemoveRefuses(Sessions[s])
        /\ closed' = closed \cup QueuedEvents(sess[s])
    BY <1>5 DEF DeleteSession
  <2>2. sess[s].inflight = NoEvent
    BY <1>2, <2>1 DEF RemoveRefuses, SameMessages
  <2>3. \A e : InQueue(sess[s], e) => e \in closed'
    BY <2>1 DEF InQueue, QueuedEvents
  <2>4. /\ NoSession.queued = <<>> /\ NoSession.inflight = NoEvent /\ NoSession.messages = {}
    BY DEF NoSession
  <2>5. \A e : ~InQueue(NoSession, e)
    BY <2>4, EmptyOwnsNothing
  <2>6. Carries(s, sess[s], NoSession)
    BY <2>2, <2>3, <2>4, <2>5, BridgeAssumption, Constants DEF Carries, Owns, GoneOwnsNothing
  <2>7. \A t \in Sess : sess'[t] = IF t = s THEN NoSession ELSE Sessions[t]
    BY <2>1 DEF Sessions
  <2>8. SessionsCarry
    <3>1. \A t \in Sess : t # s => Carries(t, sess[t], sess'[t])
      BY <1>0, <1>2, <2>7, SameCarries DEF Gone
    <3> QED BY <2>1, <2>6, <2>7, <3>1 DEF SessionsCarry
  <2>9. \A t \in Sess : sess[t].inflight # NoEvent => sess'[t].inflight = sess[t].inflight
    BY <1>2, <2>2, <2>7 DEF SameMessages
  <2> QED BY <1>3, <2>8, <2>9
<1>6. CASE \/ \E s \in Sess : \/ RequestCancel(s) \/ CancelTimesOut(s) \/ AppendByClient(s)
                              \/ TuiReserve(s) \/ TuiRelease(s)
           \/ \E d \in Events : RetryDelivery(d) \/ DropDelivery(d)
  <2>1. closed' = closed
    BY <1>6 DEF RequestCancel, CancelTimesOut, AppendByClient, TuiReserve, TuiRelease,
                RetryDelivery, DropDelivery, ClientOp
  <2>2. \/ sess' = sess \/ sess' = Sessions
        \/ \E s \in Sess :
             \E r \in {AppendMessage(Sessions[s]), Reserve(Sessions[s]), SetStatus(Sessions[s], "idle")} :
               sess' = [Sessions EXCEPT ![s] = r]
    BY <1>6 DEF RequestCancel, CancelTimesOut, AppendByClient, TuiReserve, TuiRelease,
                RetryDelivery, DropDelivery, ClientOp
  <2>3. \A s \in Sess : SameMessages(sess[s], sess'[s])
    <3>1. CASE sess' = sess
      BY <3>1 DEF SameMessages
    <3>2. CASE sess' = Sessions
      BY <1>2, <3>2
    <3>3. ASSUME NEW s \in Sess,
                 NEW r \in {AppendMessage(Sessions[s]), Reserve(Sessions[s]), SetStatus(Sessions[s], "idle")},
                 sess' = [Sessions EXCEPT ![s] = r]
          PROVE  \A t \in Sess : SameMessages(sess[t], sess'[t])
      <4>1. SameMessages(Sessions[s], r)
        BY <1>2, SameOperations
      <4>2. SameMessages(sess[s], r)
        BY <1>2, <4>1 DEF SameMessages
      <4>3. \A t \in Sess : sess'[t] = IF t = s THEN r ELSE Sessions[t]
        BY <3>3 DEF Sessions
      <4> QED BY <1>2, <4>2, <4>3
    <3> QED BY <2>2, <3>1, <3>2, <3>3
  <2>4. SessionsCarry /\ \A s \in Sess : sess'[s].inflight = sess[s].inflight
    BY <1>0, <2>1, <2>3, AllCarry DEF SameMessages
  <2> QED BY <1>3, <2>4
<1> QED BY <1>4, <1>5, <1>6 DEF Clients

-----------------------------------------------------------------------------

LEMMA EnvironmentStepsKeep ==
  ASSUME TypeOK, IInv, Environment
  PROVE  IInv'
<1> USE DEF store, task, cancelling, bounds, history
<1>0. sess \in [Sess -> Session] /\ Gone
  BY DEF TypeOK, IInv, StoreInv
<1>1. CASE Arrive
  <2>1. UNCHANGED <<sess, closed, seen, offset, deferred, pc, batch, picked, cur>>
    BY <1>1 DEF Arrive
  <2>2. SessionsCarry
    BY <2>1, StillKeepsStore DEF IInv
  <2>3. pc' \in Turning => sess'[Chat[e0]].inflight = e0
    BY <2>1 DEF IInv, InHand, Here
  <2> QED BY <2>1, <2>2, <2>3, StayKeeps
<1>2. ASSUME NEW s \in Sess, ReservationExpires(s)
      PROVE  IInv'
  <2>1. UNCHANGED <<closed, seen, offset, deferred, pc, batch, picked, cur>>
    BY <1>2 DEF ReservationExpires
  <2> DEFINE r == [sess[s] EXCEPT !.lease = "expired"]
  <2>2. sess' = [sess EXCEPT ![s] = r] /\ SameMessages(sess[s], r)
    BY <1>0, <1>2, SameOperations DEF ReservationExpires
  <2> HIDE DEF r
  <2>3. \A t \in Sess : sess'[t] = sess[t] \/ SameMessages(sess[t], sess'[t])
    BY <1>0, <2>2
  <2>4. SessionsCarry
    BY <1>0, <2>1, <2>3, AllCarry
  <2>5. pc' \in Turning => sess'[Chat[e0]].inflight = e0
    <3> SUFFICES ASSUME pc \in Turning PROVE sess'[Chat[e0]].inflight = e0
      BY <2>1
    <3>1. batch # <<>> /\ Here.inflight = e0
      BY DEF TypeOK, Turning, IInv, InHand
    <3>2. Chat[e0] \in Sess
      BY <3>1, HeadEvent
    <3> QED BY <2>3, <3>1, <3>2 DEF Here, SameMessages
  <2> QED BY <2>1, <2>4, <2>5, StayKeeps
<1>3. ASSUME NEW signalled \in BOOLEAN, Halt(signalled)
      PROVE  IInv'
  <2>1. UNCHANGED <<closed, seen, offset, deferred>> /\ Stopped
    BY <1>3 DEF Halt
  <2>2. \A s \in Sess : sess'[s] = sess[s] \/ SameMessages(sess[s], sess'[s])
    <3>1. CASE pc \in {"turn", "reply"}
      <4>1. batch # <<>>
        BY <3>1 DEF TypeOK
      <4>2. Chat[e0] \in Sess /\ Here \in Session
        BY <4>1, HeadEvent
      <4>3. SameMessages(Here, SetStatus(Here, "interrupted"))
        BY <4>2, SameOperations
      <4>4. sess' = sess \/ sess' = [sess EXCEPT ![Chat[e0]] = SetStatus(Here, "interrupted")]
        BY <1>3 DEF Halt, Here
      <4> QED BY <1>0, <4>2, <4>3, <4>4 DEF Here
    <3>2. CASE pc \notin {"turn", "reply"}
      BY <1>3, <3>2 DEF Halt
    <3> QED BY <3>1, <3>2
  <2>3. SessionsCarry
    BY <1>0, <2>1, <2>2, AllCarry
  <2>4. StoreInv'
    BY <2>1, <2>3, SessionsKeepStore DEF IInv
  <2> QED BY <2>1, <2>4, RestingKeeps DEF Stopped, Resting
<1>4. CASE Restart
  <2>1. pc' = "top" /\ UNCHANGED <<sess, closed, seen, offset, deferred>>
    BY <1>4 DEF Restart
  <2>2. StoreInv'
    BY <2>1, StillKeepsStore DEF IInv
  <2> QED BY <2>1, <2>2, RestingKeeps DEF Resting
<1> QED BY <1>1, <1>2, <1>3, <1>4 DEF Environment

LEMMA InitKeeps == Init => IInv
<1> SUFFICES ASSUME Init PROVE IInv
  OBVIOUS
<1>1. /\ \A s \in Sess : sess[s] = NoSession
      /\ deferred = <<>> /\ seen = {} /\ offset = 0 /\ pc = "top"
  BY DEF Init
<1>2. \A e : ~InQueue(NoSession, e)
  BY EmptyOwnsNothing DEF NoSession
<1>3. NoEvent \notin Events /\ Events \subseteq Nat \ {0}
  BY Constants, StoreAssumption
<1>4. \A s \in Sess : /\ \A e \in Events : ~Owns(sess[s], e) /\ e \notin sess[s].messages
                      /\ GoneOwnsNothing(sess[s])
  <2>1. NoSession.queued = <<>> /\ NoSession.inflight = NoEvent /\ NoSession.messages = {}
    BY DEF NoSession
  <2> QED BY <1>1, <1>2, <1>3, <2>1 DEF Owns, GoneOwnsNothing
<1>5. \A e : ~Deferred(e)
  BY <1>1 DEF Deferred
<1>6. Permitted \subseteq Events /\ \A e \in Events : Chat[e] \in Sess
  BY BridgeAssumption, Constants
<1>7. StoreInv
  <2>1. Cut
    BY <1>1, <1>3 DEF Cut
  <2>2. Kept
    BY <1>1, <1>4, <1>6 DEF Kept
  <2>3. Low
    BY <1>4, <1>5 DEF Low
  <2> QED BY <1>4, <2>1, <2>2, <2>3 DEF StoreInv, Gone
<1>8. InHand /\ InOrder
  BY <1>1 DEF InHand, InOrder, Turning, Admission, Resting
<1> QED BY <1>7, <1>8 DEF IInv

LEMMA NextKeepsEvents ==
  ASSUME TypeOK, TypeOK', IInv, [Next]_vars
  PROVE  IInv'
<1>1. CASE Bridge
  BY <1>1, TopKeeps, AdmissionStepsKeep, TurnStepsKeep, EndStepsKeep DEF Bridge
<1>2. CASE UNCHANGED vars
  <2>1. UNCHANGED <<sess, closed, seen, offset, deferred, pc, batch, picked, cur>>
    BY <1>2 DEF vars, store, task, history
  <2>2. SessionsCarry
    BY <2>1, StillKeepsStore DEF IInv
  <2>3. pc' \in Turning => sess'[Chat[e0]].inflight = e0
    BY <2>1 DEF IInv, InHand, Here
  <2> QED BY <2>1, <2>2, <2>3, StayKeeps
<1> QED BY <1>1, <1>2, ClientStepsKeep, EnvironmentStepsKeep DEF Next

LEMMA InvariantKeepsEvents == IInv => NoEventLost
<1> SUFFICES ASSUME IInv, NEW e \in Permitted, e \in seen \/ e < offset
             PROVE  Waiting(e) \/ e \in closed
  BY DEF NoEventLost
<1>1. e \in Events
  BY BridgeAssumption
<1> QED BY <1>1 DEF IInv, StoreInv, Cut, Kept, Owned, Owns, Waiting

(* An event the bridge has committed is never lost, whatever fails, is     *)
(* cancelled or crashes, in any number, whatever the limits.               *)
THEOREM NothingLost == Spec => []NoEventLost
<1>1. TypeOK /\ IInv /\ [Next]_vars => (TypeOK /\ IInv)'
  BY NextKeepsType, NextKeepsEvents
<1> QED BY <1>1, InitType, InitKeeps, InvariantKeepsEvents, PTL DEF Spec

-----------------------------------------------------------------------------
(* Turns and their leases.                                                 *)

(* What a step may do to the leases: nothing, as long as the bridge stays  *)
(* in its turn or outside of one; give one to the session of the event in  *)
(* hand, with which its turn begins or its event is deferred; or take the  *)
(* lease of the turn that ends.                                            *)
SameLease(s) == sess'[s].inflight = sess[s].inflight

SameLeases ==
  /\ \A s \in Sess : SameLease(s)
  /\ \/ pc \in Turning /\ pc' \in Turning /\ batch' = batch
     \/ pc \notin Turning /\ pc' \notin Turning
     \/ pc' = "down"

LeaseGiven ==
  /\ \A s \in Sess : s # Chat[e0] => SameLease(s)
  /\ pc \notin Turning /\ sess[Chat[e0]].inflight = NoEvent
  /\ \/ pc' \in Turning /\ batch' = batch /\ sess'[Chat[e0]].inflight = e0
     \/ pc' \notin Turning /\ ScheduledLimit > 0 /\ NoRoom

LeaseTaken ==
  /\ \A s \in Sess : s # Chat[e0] => SameLease(s)
  /\ pc \in Turning /\ pc' \notin Turning /\ sess'[Chat[e0]].inflight = NoEvent

LeaseStep == SameLeases \/ LeaseGiven \/ LeaseTaken

(* There is room for a user's session in a map that is full only where     *)
(* scheduled tasks have sessions.                                          *)
LEMMA RoomTaken ==
  ASSUME NEW scheduled \in 0..ScheduledLimit, MapFull(sess, scheduled), ~SessionsFull(sess)
  PROVE  ScheduledLimit > 0
<1> DEFINE users == {s \in Sess : sess[s].status # "absent"}
<1>1. IsFiniteSet(users)
  BY StoreAssumption, FS_Subset
<1>2. Cardinality(users) \in Nat
  BY <1>1, FS_CardinalityType
<1>3. UserSessions(sess) = Cardinality(users)
  BY DEF UserSessions
<1> HIDE DEF users
<1>4. UserSessions(sess) \in Nat /\ SessLimit \in Nat /\ ScheduledLimit \in Nat
  BY <1>2, <1>3, StoreAssumption
<1> QED BY <1>4 DEF MapFull, SessionsFull

LEMMA AdmissionMovesLease ==
  ASSUME TypeOK, IInv, NoRoom \/ AdmitQueue \/ AdmitBegin \/ Settle
  PROVE  LeaseStep
<1>0. sess \in [Sess -> Session] /\ Gone
  BY DEF TypeOK, IInv, StoreInv
<1>1. pc \in {"admit", "settle"} /\ batch # <<>> /\ pc \notin Turning
  BY DEF NoRoom, AdmitQueue, AdmitBegin, Settle, Admitting, TypeOK, Turning
<1>2. /\ e0 \in Events /\ Chat[e0] \in Sess /\ Here \in Session /\ Here = sess[Chat[e0]]
      /\ GoneOwnsNothing(Here)
  BY <1>0, <1>1, HeadEvent DEF Here, Gone
<1>3. Ensure(Here) \in Session /\ Ensure(Here).inflight = Here.inflight
  BY <1>2, EnsureOwns, EnsureType
<1>4. CASE NoRoom
  <2>1. /\ Here.status = "absent" /\ pc' \notin Turning
        /\ UNCHANGED sess \/ (~SessionsFull(sess) /\ BeginTurn(e0, Ensure(NoSession)))
    BY <1>2, <1>4 DEF NoRoom, Goto, Turning, e0
  <2>2. Here.inflight = NoEvent
    BY <1>2, <2>1 DEF GoneOwnsNothing
  <2>3. CASE UNCHANGED sess
    BY <1>1, <2>1, <2>3 DEF LeaseStep, SameLeases, SameLease
  <2>4. CASE ~SessionsFull(sess) /\ BeginTurn(e0, Ensure(NoSession))
    <3>1. ScheduledLimit > 0
      BY <1>4, <2>4, RoomTaken DEF NoRoom
    <3>2. sess' = [sess EXCEPT ![Chat[e0]] = Begin(Ensure(NoSession), e0)]
      BY <2>4 DEF BeginTurn
    <3>3. \A s \in Sess : s # Chat[e0] => sess'[s] = sess[s]
      BY <1>0, <3>2
    <3> QED BY <1>1, <1>2, <1>4, <2>1, <2>2, <3>1, <3>3 DEF LeaseStep, LeaseGiven, SameLease
  <2> QED BY <2>1, <2>3, <2>4
<1>5. CASE AdmitBegin /\ pc' = "begun"
  <2>1. ~BeginRefuses(Ensure(Here), e0) /\ BeginTurn(e0, Ensure(Here)) /\ batch' = batch
    BY <1>2, <1>5 DEF AdmitBegin, BreakBatch, Goto, e0
  <2>2. Ensure(Here).inflight = NoEvent
    BY <2>1 DEF BeginRefuses
  <2>3. Begin(Ensure(Here), e0).inflight = e0
    BY <1>2, <1>3, <2>2, BeginOwns
  <2>4. /\ sess'[Chat[e0]].inflight = e0
        /\ \A s \in Sess : s # Chat[e0] => sess'[s] = sess[s]
    BY <1>0, <1>2, <2>1, <2>3 DEF BeginTurn
  <2> QED BY <1>1, <1>2, <1>3, <1>5, <2>1, <2>2, <2>4
          DEF LeaseStep, LeaseGiven, SameLease, Turning
<1>6. CASE (AdmitQueue \/ AdmitBegin \/ Settle) /\ ~(AdmitBegin /\ pc' = "begun")
  <2>1. \/ sess' = sess
        \/ \E r \in {Queue(Here, e0), Ensure(Here), SetStatus(Here, "idle"), Here} :
             sess' = [sess EXCEPT ![Chat[e0]] = r]
    BY <1>6 DEF AdmitQueue, AdmitBegin, Settle, Goto, e0, Here
  <2>2. \A r \in {Queue(Here, e0), Ensure(Here), SetStatus(Here, "idle"), Here} :
          r.inflight = Here.inflight
    <3>1. Queue(Here, e0).inflight = Here.inflight
      BY <1>2, QueueOwns
    <3>2. SetStatus(Here, "idle").inflight = Here.inflight
      BY <1>2, SameOperations DEF SameMessages
    <3> QED BY <1>3, <3>1, <3>2
  <2>3. \A s \in Sess : SameLease(s)
    BY <1>0, <1>2, <2>1, <2>2 DEF SameLease
  <2>4. pc' \notin Turning
    BY <1>6 DEF AdmitQueue, AdmitBegin, Settle, Goto, BreakBatch, NextEvent, Turning
  <2> QED BY <1>1, <2>3, <2>4 DEF LeaseStep, SameLeases
<1> QED BY <1>4, <1>5, <1>6

LEMMA BridgeMovesLease ==
  ASSUME TypeOK, IInv, Bridge
  PROVE  LeaseStep
<1> USE DEF store, task, cancelling, bounds, history
<1>0. sess \in [Sess -> Session] /\ Gone
  BY DEF TypeOK, IInv, StoreInv
<1>1. CASE \/ \E d \in Events : SendPending(d)
           \/ PendingSent
           \/ \E s \in Sess : PickQueued(s)
           \/ PickDeferred
           \/ \E first \in Events : Poll(first)
  <2>1. sess' = sess /\ pc \in {"top", "sending"} /\ pc' \in {"top", "sending", "admit", "down"}
    BY <1>1 DEF SendPending, PendingSent, PickQueued, PickDeferred, Poll, SendAccepted,
                SendFailed, Stopped
  <2> QED BY <2>1 DEF LeaseStep, SameLeases, SameLease, Turning
<1>2. CASE \/ Reject \/ Discard \/ AdmitDuplicate \/ Defer \/ Commit \/ Acknowledge
           \/ ReplySent
  <2>1. /\ sess' = sess /\ pc \in {"admit", "defer", "commit", "retain", "ack", "reply"}
        /\ pc' \in {"commit", "top", "admit", "retain", "down", "settle"}
    BY <1>2 DEF Reject, Discard, AdmitDuplicate, Admitting, Defer, Commit, Acknowledge,
                ReplySent, Goto, NextEvent, BreakBatch, SendAccepted, SendFailed, Stopped
  <2> QED BY <2>1 DEF LeaseStep, SameLeases, SameLease, Turning
<1>3. CASE NoRoom \/ AdmitQueue \/ AdmitBegin \/ Settle
  BY <1>3, AdmissionMovesLease
<1>4. CASE \/ StartTurn \/ MutatingTool \/ ToolPush \/ ToolPushed \/ FlushFirst \/ FlushEdit
           \/ Flushed \/ TurnFails \/ SideDefer \/ SideCommit
  <2>1. pc \in Turning /\ pc' \in Turning /\ batch' = batch /\ batch # <<>> /\ pc # "down"
    BY <1>4 DEF StartTurn, MutatingTool, ToolPush, ToolPushed, FlushFirst, FlushEdit, Flushed,
                TurnFails, SideDefer, SideCommit, BackToTurn, Goto, Turning, TypeOK
  <2>2. e0 \in Events /\ Chat[e0] \in Sess /\ Here \in Session /\ Here = sess[Chat[e0]]
    BY <2>1, HeadEvent DEF Here
  <2>3. \/ sess' = sess
        \/ \E r \in {[Here EXCEPT !.phase = "unsafe"], Push(Here), SetStatus(Here, "working"),
                     StartStream(Here, e0)} : sess' = [sess EXCEPT ![Chat[e0]] = r]
    BY <1>4, <2>2 DEF StartTurn, MutatingTool, ToolPush, ToolPushed, FlushFirst, FlushEdit,
                      Flushed, TurnFails, SideDefer, SideCommit
  <2>4. \A r \in {[Here EXCEPT !.phase = "unsafe"], Push(Here), SetStatus(Here, "working"),
                  StartStream(Here, e0)} : r.inflight = Here.inflight
    <3>1. /\ SameMessages(Here, [Here EXCEPT !.phase = "unsafe"])
          /\ SameMessages(Here, Push(Here))
          /\ SameMessages(Here, SetStatus(Here, "working"))
          /\ SameMessages(Here, StartStream(Here, e0))
      BY <2>2, SameOperations
    <3> QED BY <3>1 DEF SameMessages
  <2>5. \A s \in Sess : SameLease(s)
    BY <1>0, <2>2, <2>3, <2>4 DEF SameLease
  <2> QED BY <2>1, <2>5 DEF LeaseStep, SameLeases
<1>5. ASSUME NEW e \in Events, SideEvent(e)
      PROVE  LeaseStep
  <2> DEFINE r == Ensure(sess[Chat[e]])
  <2>1. pc \in Turning /\ pc' \in Turning /\ batch' = batch /\ Chat[e] \in Sess
    BY <1>5, Constants DEF SideEvent, Turning
  <2>2. r \in Session /\ Queue(r, e).inflight = r.inflight
    BY <1>0, <2>1, EnsureType, QueueOwns
  <2>3. r.inflight = sess[Chat[e]].inflight
    BY <1>0, <2>1, EnsureOwns DEF Gone
  <2>4. sess' = sess \/ \E r2 \in {r, Queue(r, e)} : sess' = [sess EXCEPT ![Chat[e]] = r2]
    BY <1>5 DEF SideEvent
  <2> HIDE DEF r
  <2>5. \A s \in Sess : SameLease(s)
    BY <1>0, <2>1, <2>2, <2>3, <2>4 DEF SameLease
  <2> QED BY <2>1, <2>5 DEF LeaseStep, SameLeases
<1>6. CASE TurnCancelled \/ TurnFailed \/ TurnAnswers
  <2>1. pc \in {"turn", "failing"} /\ batch # <<>>
    BY <1>6 DEF TurnCancelled, TurnFailed, TurnAnswers, TypeOK
  <2>2. e0 \in Events /\ Chat[e0] \in Sess /\ Here \in Session /\ Here = sess[Chat[e0]]
    BY <2>1, HeadEvent DEF Here
  <2> DEFINE ends == {Clear(Here, "cancelled"), Clear(Here, "interrupted"), ReplySession(Here)}
  <2>4. \A r \in ends : r.inflight = NoEvent /\ r \in Session
    BY <2>2, EndOwns, ClearType DEF Statuses
  <2>5. \A r \in ends : Queue(r, e0).inflight = NoEvent
    BY <2>2, <2>4, QueueOwns
  <2>6. /\ pc' \notin Turning
        /\ \/ pc' = "down" /\ sess' = sess
           \/ \E r \in ends : \/ sess' = [sess EXCEPT ![Chat[e0]] = r]
                              \/ sess' = [sess EXCEPT ![Chat[e0]] = Queue(r, e0)]
    BY <1>6 DEF TurnCancelled, TurnFailed, TurnAnswers, Stopped, Turning, NextEvent, Goto
  <2> HIDE DEF ends
  <2>7. CASE pc' = "down" /\ sess' = sess
    BY <2>7 DEF LeaseStep, SameLeases, SameLease
  <2>8. ASSUME NEW r \in ends,
               \/ sess' = [sess EXCEPT ![Chat[e0]] = r]
               \/ sess' = [sess EXCEPT ![Chat[e0]] = Queue(r, e0)]
        PROVE  LeaseStep
    <3>1. /\ sess'[Chat[e0]].inflight = NoEvent
          /\ \A s \in Sess : s # Chat[e0] => sess'[s] = sess[s]
      BY <1>0, <2>2, <2>4, <2>5, <2>8
    <3> QED BY <2>1, <2>6, <3>1 DEF LeaseStep, LeaseTaken, SameLease, Turning
  <2> QED BY <2>6, <2>7, <2>8
<1> QED BY <1>1, <1>2, <1>3, <1>4, <1>5, <1>6 DEF Bridge

(* No client touches a turn's lease, or moves the bridge.                  *)
LEMMA ClientsKeepLeases ==
  ASSUME TypeOK, Clients
  PROVE  UNCHANGED <<pc, batch>> /\ \A s \in Sess : SameLease(s)
<1> USE DEF store, task, cancelling, bounds, history
<1>0. sess \in [Sess -> Session]
  BY DEF TypeOK
<1>1. UNCHANGED <<pc, batch>>
  BY DEF Clients, CancelSession, RequestCancel, CancelTimesOut, AppendByClient,
              DeleteSession, TuiReserve, TuiRelease, RetryDelivery, DropDelivery, ClientOp
<1>2. \A s \in Sess : Sessions[s] \in Session /\ Sessions[s].inflight = sess[s].inflight
  BY <1>0, RecoveredType, SameOperations DEF Sessions, SameMessages
<1>3. \/ sess' = sess \/ sess' = Sessions
      \/ \E s \in Sess : sess' = [sess EXCEPT ![s] = Cancel(sess[s])]
      \/ \E s \in Sess :
           /\ ~RemoveRefuses(Sessions[s]) /\ sess' = [Sessions EXCEPT ![s] = NoSession]
      \/ \E s \in Sess :
           \E r \in {AppendMessage(Sessions[s]), Reserve(Sessions[s]),
                     SetStatus(Sessions[s], "idle")} :
             sess' = [Sessions EXCEPT ![s] = r]
  BY DEF Clients, CancelSession, RequestCancel, CancelTimesOut, AppendByClient,
              DeleteSession, TuiReserve, TuiRelease, RetryDelivery, DropDelivery, ClientOp
<1>4. \A s \in Sess : SameLease(s)
  <2>1. ASSUME NEW s \in Sess, sess' = [sess EXCEPT ![s] = Cancel(sess[s])]
        PROVE  \A t \in Sess : SameLease(t)
    BY <1>0, <2>1, EndOwns DEF SameLease
  <2>2. ASSUME NEW s \in Sess, NEW r, r.inflight = sess[s].inflight,
               sess' = [Sessions EXCEPT ![s] = r]
        PROVE  \A t \in Sess : SameLease(t)
    <3>1. \A t \in Sess : sess'[t] = IF t = s THEN r ELSE Sessions[t]
      BY <2>2 DEF Sessions
    <3> QED BY <1>2, <2>2, <3>1 DEF SameLease
  <2>3. ASSUME NEW s \in Sess, ~RemoveRefuses(Sessions[s]),
               sess' = [Sessions EXCEPT ![s] = NoSession]
        PROVE  \A t \in Sess : SameLease(t)
    <3>1. NoSession.inflight = sess[s].inflight
      BY <1>2, <2>3 DEF RemoveRefuses, NoSession
    <3> QED BY <2>2, <2>3, <3>1
  <2>4. ASSUME NEW s \in Sess,
               NEW r \in {AppendMessage(Sessions[s]), Reserve(Sessions[s]),
                          SetStatus(Sessions[s], "idle")},
               sess' = [Sessions EXCEPT ![s] = r]
        PROVE  \A t \in Sess : SameLease(t)
    <3>1. r.inflight = sess[s].inflight
      BY <1>2, <2>4, SameOperations DEF SameMessages
    <3> QED BY <2>2, <2>4, <3>1
  <2>5. CASE sess' = sess \/ sess' = Sessions
    BY <1>2, <2>5 DEF SameLease
  <2> QED BY <1>3, <2>1, <2>3, <2>4, <2>5
<1> QED BY <1>1, <1>4

LEMMA StepMovesLease ==
  ASSUME TypeOK, IInv, [Next]_vars
  PROVE  LeaseStep
<1> USE DEF store, task, cancelling, bounds, history
<1>0. sess \in [Sess -> Session]
  BY DEF TypeOK
<1>1. ASSUME UNCHANGED <<pc, batch>>, \A s \in Sess : SameLease(s)
      PROVE  LeaseStep
  BY <1>1 DEF LeaseStep, SameLeases
<1>2. CASE Clients
  BY <1>1, <1>2, ClientsKeepLeases
<1>3. CASE Arrive \/ UNCHANGED vars
  <2>1. UNCHANGED <<sess, pc, batch>>
    BY <1>3 DEF Arrive, vars
  <2> QED BY <1>1, <2>1 DEF SameLease
<1>4. ASSUME NEW s \in Sess, ReservationExpires(s)
      PROVE  LeaseStep
  <2>1. UNCHANGED <<pc, batch>> /\ \A t \in Sess : sess'[t].inflight = sess[t].inflight
    BY <1>0, <1>4 DEF ReservationExpires, Session
  <2> QED BY <1>1, <2>1 DEF SameLease
<1>5. ASSUME NEW signalled \in BOOLEAN, Halt(signalled)
      PROVE  LeaseStep
  <2>1. pc' = "down"
    BY <1>5 DEF Halt, Stopped
  <2>2. \A s \in Sess : SameLease(s)
    <3>1. CASE sess' = sess
      BY <3>1 DEF SameLease
    <3>2. CASE sess' # sess
      <4>1. /\ pc \in {"turn", "reply"}
            /\ sess' = [sess EXCEPT ![Chat[e0]] = SetStatus(Here, "interrupted")]
        BY <1>5, <3>2 DEF Halt, Here
      <4>2. Chat[e0] \in Sess /\ Here \in Session /\ Here = sess[Chat[e0]]
        <5>1. batch # <<>>
          BY <4>1 DEF TypeOK
        <5> QED BY <5>1, HeadEvent DEF Here
      <4>3. SetStatus(Here, "interrupted").inflight = Here.inflight
        BY <4>2, SameOperations DEF SameMessages
      <4> QED BY <1>0, <4>1, <4>2, <4>3 DEF SameLease
    <3> QED BY <3>1, <3>2
  <2> QED BY <2>1, <2>2 DEF LeaseStep, SameLeases
<1>6. CASE Restart
  <2>1. sess' = sess /\ pc = "down" /\ pc' = "top"
    BY <1>6 DEF Restart
  <2> QED BY <2>1 DEF LeaseStep, SameLeases, SameLease, Turning
<1> QED BY <1>2, <1>3, <1>4, <1>5, <1>6, BridgeMovesLease DEF Next, Environment

TurnHasLease == pc \in Turning => /\ e0 \in Events /\ Chat[e0] \in Sess
                                  /\ sess[Chat[e0]].inflight = e0

LEMMA TurnsHaveLeases == TypeOK /\ IInv => TurnHasLease
<1> SUFFICES ASSUME TypeOK, IInv, pc \in Turning
             PROVE  e0 \in Events /\ Chat[e0] \in Sess /\ sess[Chat[e0]].inflight = e0
  BY DEF TurnHasLease
<1>1. batch # <<>> /\ Here.inflight = e0
  BY DEF TypeOK, IInv, InHand, Turning
<1> QED BY <1>1, HeadEvent DEF Here

LostInTwoWays ==
  \A s \in Sess : LeaseLost(s)' /\ ~LeaseLost(s) =>
    pc' = "down" \/ (ScheduledLimit > 0 /\ NoRoom)

LEMMA StepLosesTwoWays ==
  ASSUME LeaseStep
  PROVE  LostInTwoWays
<1> SUFFICES ASSUME NEW s \in Sess, LeaseLost(s)', ~LeaseLost(s), pc' # "down"
             PROVE  ScheduledLimit > 0 /\ NoRoom
  BY DEF LostInTwoWays
<1>1. /\ sess'[s].inflight # NoEvent
      /\ ~(pc' \in Turning /\ sess'[s].inflight = e0' /\ Chat[e0'] = s)
      /\ sess[s].inflight # NoEvent => pc \in Turning /\ sess[s].inflight = e0 /\ Chat[e0] = s
  BY DEF LeaseLost, InTurn
<1>2. batch' = batch => e0' = e0
  BY DEF e0
<1>3. CASE SameLeases
  BY <1>1, <1>2, <1>3 DEF SameLeases, SameLease
<1>4. CASE LeaseGiven
  BY <1>1, <1>2, <1>4 DEF LeaseGiven, SameLease
<1>5. CASE LeaseTaken
  BY <1>1, <1>2, <1>5 DEF LeaseTaken, SameLease
<1> QED BY <1>3, <1>4, <1>5 DEF LeaseStep

(* A lease comes to be without its turn only where the daemon stops during *)
(* the turn, or where a turn is begun for an event that is then deferred   *)
(* because the sessions of scheduled tasks take up the room in the map     *)
(* (lib.rs:7918 and 8019): for any number of sessions, events and faults.  *)
THEOREM LeasesAreLostTwoWays == Spec => LeasesLostTwoWays
<1>1. TypeOK /\ IInv /\ [Next]_vars => (TypeOK /\ IInv)'
  BY NextKeepsType, NextKeepsEvents
<1>2. TypeOK /\ IInv /\ [Next]_vars =>
        [\A s \in Sess : LeaseLost(s)' /\ ~LeaseLost(s) =>
           pc' = "down" \/ (ScheduledLimit > 0 /\ NoRoom)]_vars
  BY StepMovesLease, StepLosesTwoWays DEF LostInTwoWays
<1> QED BY <1>1, <1>2, InitType, InitKeeps, PTL DEF Spec, LeasesLostTwoWays

LEMMA OnlyRestartCounts ==
  ASSUME [Next]_vars, ~Restart
  PROVE  crashes' = crashes
<1> USE DEF bounds
<1>1. CASE \/ \E d \in Events : SendPending(d)
           \/ PendingSent
           \/ \E s \in Sess : PickQueued(s)
           \/ PickDeferred
           \/ \E first \in Events : Poll(first)
           \/ Reject \/ Discard \/ NoRoom \/ AdmitDuplicate \/ AdmitQueue \/ AdmitBegin
           \/ Defer \/ Commit \/ StartTurn
  BY <1>1 DEF SendPending, PendingSent, PickQueued, PickDeferred, Poll, Reject, Discard, NoRoom,
              AdmitDuplicate, AdmitQueue, AdmitBegin, Defer, Commit, StartTurn
<1>2. CASE \/ MutatingTool \/ ToolPush \/ ToolPushed \/ FlushFirst \/ FlushEdit \/ Flushed
           \/ \E e \in Events : SideEvent(e)
           \/ SideDefer \/ SideCommit \/ TurnCancelled \/ Acknowledge \/ TurnFails
           \/ TurnFailed \/ TurnAnswers \/ ReplySent \/ Settle
  BY <1>2 DEF MutatingTool, ToolPush, ToolPushed, FlushFirst, FlushEdit, Flushed, SideEvent,
              SideDefer, SideCommit, TurnCancelled, Acknowledge, TurnFails, TurnFailed,
              TurnAnswers, ReplySent, Settle
<1>3. CASE Clients \/ UNCHANGED vars
  BY <1>3 DEF Clients, CancelSession, RequestCancel, CancelTimesOut, AppendByClient,
              DeleteSession, TuiReserve, TuiRelease, RetryDelivery, DropDelivery, ClientOp, vars
<1>4. CASE Environment
  BY <1>4 DEF Environment, Arrive, Halt, ReservationExpires
<1> QED BY <1>1, <1>2, <1>3, <1>4 DEF Next, Bridge

LEMMA DownUntilRestart ==
  ASSUME pc = "down", [Next]_vars, ~Restart
  PROVE  pc' = "down"
<1> USE DEF task
<1>1. CASE \/ \E d \in Events : SendPending(d)
           \/ PendingSent
           \/ \E s \in Sess : PickQueued(s)
           \/ PickDeferred
           \/ \E first \in Events : Poll(first)
           \/ Reject \/ Discard \/ NoRoom \/ AdmitDuplicate \/ AdmitQueue \/ AdmitBegin
           \/ Defer \/ Commit \/ StartTurn
  BY <1>1 DEF SendPending, PendingSent, PickQueued, PickDeferred, Poll, Reject, Discard, NoRoom,
              AdmitDuplicate, AdmitQueue, AdmitBegin, Admitting, Defer, Commit, StartTurn
<1>2. CASE \/ MutatingTool \/ ToolPush \/ ToolPushed \/ FlushFirst \/ FlushEdit \/ Flushed
           \/ \E e \in Events : SideEvent(e)
           \/ SideDefer \/ SideCommit \/ TurnCancelled \/ Acknowledge \/ TurnFails
           \/ TurnFailed \/ TurnAnswers \/ ReplySent \/ Settle
  BY <1>2 DEF MutatingTool, ToolPush, ToolPushed, FlushFirst, FlushEdit, Flushed, SideEvent,
              SideDefer, SideCommit, TurnCancelled, Acknowledge, TurnFails, TurnFailed,
              TurnAnswers, ReplySent, Settle
<1>3. CASE Clients \/ UNCHANGED vars
  BY <1>3 DEF Clients, CancelSession, RequestCancel, CancelTimesOut, AppendByClient,
              DeleteSession, TuiReserve, TuiRelease, RetryDelivery, DropDelivery, ClientOp, vars
<1>4. CASE Environment
  BY <1>4 DEF Environment, Arrive, Halt, ReservationExpires
<1> QED BY <1>1, <1>2, <1>3, <1>4 DEF Next, Bridge

(* A lease that has lost its turn never has one again, and the daemon was  *)
(* never stopped if it has not been by now: what holds of an undisturbed   *)
(* daemon can be carried from one state to the next.                       *)
LEMMA UndisturbedRuns ==
  ASSUME TypeOK, Undisturbed
  PROVE  crashes = 0 /\ pc # "down"
<1>1. crashes \in Nat
  BY DEF TypeOK
<1>2. crashes + (IF pc = "down" THEN 1 ELSE 0) = 0
  BY DEF Undisturbed, Stops
<1>3. CASE pc = "down"
  <2>1. crashes + 1 = 0
    BY <1>2, <1>3
  <2> QED BY <1>1, <2>1
<1>4. CASE pc # "down"
  <2>1. crashes + 0 = 0
    BY <1>2, <1>4
  <2> QED BY <1>1, <1>4, <2>1
<1> QED BY <1>3, <1>4

LEMMA CountFromZero == \A c \in Nat : c + 1 # 0 /\ c + 0 = c
  OBVIOUS

LEMMA UndisturbedRan ==
  ASSUME TypeOK, TypeOK', [Next]_vars, Undisturbed'
  PROVE  Stops = 0 /\ crashes' = 0 /\ pc # "down" /\ pc' # "down"
<1> USE DEF store, task, cancelling, bounds, history
<1>1. crashes \in Nat /\ crashes' \in Nat
  BY DEF TypeOK
<1>2. crashes' = 0 /\ pc' # "down"
  <2>1. crashes' + (IF pc' = "down" THEN 1 ELSE 0) = 0
    BY DEF Undisturbed, Stops
  <2>2. CASE pc' = "down"
    <3>1. crashes' + 1 = 0
      BY <2>1, <2>2
    <3> QED BY <1>1, <3>1, CountFromZero
  <2>3. CASE pc' # "down"
    <3>1. crashes' + 0 = 0
      BY <2>1, <2>3
    <3> QED BY <1>1, <2>3, <3>1, CountFromZero
  <2> QED BY <2>2, <2>3
<1>3. ~Restart
  BY <1>1, <1>2 DEF Restart
<1>4. crashes = 0 /\ pc # "down"
  BY <1>2, <1>3, OnlyRestartCounts, DownUntilRestart
<1> QED BY <1>2, <1>4 DEF Stops

LEMMA StaysUndisturbed ==
  ASSUME TypeOK, TypeOK', IInv, [Next]_vars, Undisturbed'
  PROVE  Undisturbed
<1>1. Stops = 0 /\ pc # "down" /\ pc' # "down"
  BY UndisturbedRan
<1>2. LeaseStep /\ TurnHasLease
  BY StepMovesLease, TurnsHaveLeases
<1>3. \A s \in Sess : sess'[s].inflight # NoEvent =>
        pc' \in Turning /\ sess'[s].inflight = e0' /\ Chat[e0'] = s
  BY <1>1 DEF Undisturbed, LeaseHasTurn, InTurn
<1>4. batch' = batch => e0' = e0
  BY DEF e0
<1>5. ASSUME NEW s \in Sess, sess[s].inflight # NoEvent
      PROVE  pc \in Turning /\ sess[s].inflight = e0 /\ Chat[e0] = s
  <2>1. CASE SameLeases
    BY <1>1, <1>3, <1>4, <1>5, <2>1 DEF SameLeases, SameLease
  <2>2. CASE LeaseGiven
    BY <1>3, <1>4, <1>5, <2>2 DEF LeaseGiven, SameLease
  <2>3. CASE LeaseTaken
    BY <1>2, <1>3, <1>4, <1>5, <2>3 DEF LeaseTaken, SameLease, TurnHasLease
  <2> QED BY <1>2, <2>1, <2>2, <2>3 DEF LeaseStep
<1> QED BY <1>1, <1>5 DEF Undisturbed, LeaseHasTurn, InTurn

(* A queue within its bound.                                               *)
Fits(r) == Len(r.queued) <= QueueLimit

LEMMA FitsFacts ==
  ASSUME NEW r \in Session
  PROVE  /\ r.queued \in Seq(Events) /\ Len(r.queued) \in Nat
         /\ QueueLimit \in Nat \ {0}
  BY LenProperties, StoreAssumption DEF Session

LEMMA OperationsFit ==
  ASSUME NEW r \in Session, Fits(r)
  PROVE  /\ Fits(NoSession) /\ Fits(Ensure(r)) /\ Fits(Cancel(r)) /\ Fits(ReplySession(r))
         /\ Fits(Clear(r, "cancelled")) /\ Fits(Clear(r, "interrupted"))
         /\ \A e \in Events : ~QueueRefuses(r, e) => Fits(Queue(r, e))
         /\ \A e \in Events : Fits(Begin(r, e))
         /\ \A r2 : SameMessages(r, r2) => Fits(r2)
<1>0. /\ r.queued \in Seq(Events) /\ Len(r.queued) \in Nat
      /\ QueueLimit \in Nat \ {0}
  BY FitsFacts
<1>1. \A r2 : r2.queued = <<>> => Fits(r2)
  <2> TAKE r2
  <2> HAVE r2.queued = <<>>
  <2>1. Len(<<>>) = 0
    BY EmptySeq
  <2> QED BY <1>0, <2>1 DEF Fits
<1>2. \A r2 : r2.queued = r.queued => Fits(r2)
  BY DEF Fits
<1>3. Fits(NoSession) /\ Fits(Ensure(r))
  <2>1. NoSession.queued = <<>> /\ (Ensure(r).queued = <<>> \/ Ensure(r) = r)
    BY DEF NoSession, Ensure
  <2> QED BY <1>1, <2>1
<1>4. Fits(Cancel(r)) /\ Fits(Clear(r, "cancelled"))
  BY <1>1, EndOwns
<1>5. Fits(Clear(r, "interrupted")) /\ Fits(ReplySession(r))
  BY <1>2, EndOwns
<1>6. ASSUME NEW e \in Events, ~QueueRefuses(r, e)
      PROVE  Fits(Queue(r, e))
  <2>1. CASE InQueue(r, e)
    BY <2>1 DEF Queue
  <2>2. CASE ~InQueue(r, e)
    <3>1. Queue(r, e).queued = Append(r.queued, e)
      BY <2>2 DEF Queue, Session
    <3>2. Len(Append(r.queued, e)) = Len(r.queued) + 1
      BY <1>0, AppendProperties
    <3>3. ~(Len(r.queued) >= QueueLimit)
      <4>1. ~(Len(r.queued) + (IF r.inflight = NoEvent THEN 0 ELSE 1) >= QueueLimit)
        BY <1>6, <2>2 DEF QueueRefuses, QueueFull
      <4>2. CASE r.inflight = NoEvent
        <5>1. ~(Len(r.queued) + 0 >= QueueLimit)
          BY <4>1, <4>2
        <5> QED BY <1>0, <5>1
      <4>3. CASE r.inflight # NoEvent
        <5>1. ~(Len(r.queued) + 1 >= QueueLimit)
          BY <4>1, <4>3
        <5> QED BY <1>0, <5>1
      <4> QED BY <4>2, <4>3
    <3> QED BY <1>0, <3>1, <3>2, <3>3 DEF Fits
  <2> QED BY <2>1, <2>2
<1>7. ASSUME NEW e \in Events
      PROVE  Fits(Begin(r, e))
  <2>1. Begin(r, e).queued = Without(r.queued, e)
    BY DEF Begin, Session
  <2>2. Len(Without(r.queued, e)) \in Nat /\ Len(Without(r.queued, e)) <= Len(r.queued)
    BY <1>0, WithoutType, LenProperties
  <2> QED BY <1>0, <2>1, <2>2 DEF Fits
<1>8. \A r2 : SameMessages(r, r2) => Fits(r2)
  BY <1>2 DEF SameMessages
<1> QED BY <1>3, <1>4, <1>5, <1>6, <1>7, <1>8

LEMMA NextKeepsBound ==
  ASSUME TypeOK, QueueBound, [Next]_vars
  PROVE  QueueBound'
<1> USE DEF store, task, cancelling, bounds, history
<1>0. sess \in [Sess -> Session] /\ \A s \in Sess : sess[s] \in Session /\ Fits(sess[s])
  BY DEF TypeOK, QueueBound, Fits
<1> SUFFICES \A s \in Sess : Fits(sess'[s])
  BY DEF QueueBound, Fits
<1>1. ASSUME NEW c \in Sess, NEW r, Fits(r), sess' = [sess EXCEPT ![c] = r]
      PROVE  \A s \in Sess : Fits(sess'[s])
  BY <1>0, <1>1
<1>2. \A s \in Sess : Sessions[s] \in Session /\ Fits(Sessions[s])
  BY <1>0, RecoveredType, SameOperations, OperationsFit DEF Sessions
<1>3. ASSUME NEW c \in Sess, NEW r, Fits(r), sess' = [Sessions EXCEPT ![c] = r]
      PROVE  \A s \in Sess : Fits(sess'[s])
  <2>1. \A s \in Sess : sess'[s] = IF s = c THEN r ELSE Sessions[s]
    BY <1>3 DEF Sessions
  <2> QED BY <1>2, <1>3, <2>1
<1>4. CASE sess' = sess \/ sess' = Sessions
  BY <1>0, <1>2, <1>4
<1>5. CASE NoRoom \/ AdmitQueue \/ AdmitBegin \/ Settle \/ MutatingTool \/ ToolPush \/ ToolPushed
           \/ FlushFirst \/ TurnCancelled \/ TurnFailed \/ TurnAnswers
  <2>1. batch # <<>>
    BY <1>5 DEF TypeOK, NoRoom, AdmitQueue, AdmitBegin, Admitting, Settle, MutatingTool, ToolPush,
                ToolPushed, FlushFirst, TurnCancelled, TurnFailed, TurnAnswers
  <2>2. e0 \in Events /\ Chat[e0] \in Sess /\ Here \in Session /\ Here = sess[Chat[e0]]
        /\ Fits(Here)
    BY <1>0, <2>1, HeadEvent DEF Here
  <2> DEFINE turned == {[Here EXCEPT !.phase = "unsafe"], Push(Here), SetStatus(Here, "working"),
                        StartStream(Here, e0), SetStatus(Here, "idle")}
             ended == {Clear(Here, "cancelled"), Clear(Here, "interrupted"), ReplySession(Here)}
  <2>3. \A r \in turned : Fits(r)
    <3>1. /\ SameMessages(Here, [Here EXCEPT !.phase = "unsafe"])
          /\ SameMessages(Here, Push(Here)) /\ SameMessages(Here, StartStream(Here, e0))
          /\ SameMessages(Here, SetStatus(Here, "working"))
          /\ SameMessages(Here, SetStatus(Here, "idle"))
      BY <2>2, SameOperations
    <3> QED BY <2>2, <3>1, OperationsFit
  <2>4. \A r \in ended : r \in Session /\ Fits(r)
    BY <2>2, EndOwns, ClearType, OperationsFit DEF Statuses
  <2>5. /\ Ensure(Here) \in Session /\ Fits(Ensure(Here)) /\ Fits(Begin(Ensure(Here), e0))
        /\ ~QueueRefuses(Here, e0) => Fits(Queue(Here, e0))
        /\ \A r \in ended : ~QueueRefuses(r, e0) => Fits(Queue(r, e0))
    BY <2>2, <2>4, EnsureType, OperationsFit
  <2>7. Fits(Begin(Ensure(NoSession), e0))
    BY <2>2, NoSessionType, EnsureType, OperationsFit
  <2>6. \/ sess' = sess
        \/ \E r \in turned \cup ended \cup {Here, Ensure(Here), Begin(Ensure(Here), e0),
                                        Begin(Ensure(NoSession), e0)} :
             sess' = [sess EXCEPT ![Chat[e0]] = r]
        \/ ~QueueRefuses(Here, e0) /\ sess' = [sess EXCEPT ![Chat[e0]] = Queue(Here, e0)]
        \/ \E r \in ended : ~QueueRefuses(r, e0) /\ sess' = [sess EXCEPT ![Chat[e0]] = Queue(r, e0)]
    <3>1. CASE NoRoom \/ AdmitQueue \/ AdmitBegin
      BY <3>1 DEF NoRoom, AdmitQueue, AdmitBegin, BeginTurn, e0, Here
    <3>2. CASE Settle \/ MutatingTool \/ ToolPush \/ ToolPushed \/ FlushFirst
      BY <2>2, <3>2 DEF Settle, MutatingTool, ToolPush, ToolPushed, FlushFirst
    <3>3. CASE TurnCancelled \/ TurnAnswers
      BY <3>3 DEF TurnCancelled, TurnAnswers
    <3>4. CASE TurnFailed
      <4> DEFINE r == IF ReplyRefuses(outbox, e0) THEN Clear(Here, "interrupted")
                                                ELSE ReplySession(Here)
      <4>1. r \in ended
        OBVIOUS
      <4>2. sess' = [sess EXCEPT ![Chat[e0]] = IF Retries(Here, r, e0) THEN Queue(r, e0) ELSE r]
        BY <3>4 DEF TurnFailed
      <4> HIDE DEF r, ended
      <4>3. Retries(Here, r, e0) => ~QueueRefuses(r, e0)
        BY DEF Retries
      <4> QED BY <4>1, <4>2, <4>3
    <3> QED BY <1>5, <3>1, <3>2, <3>3, <3>4
  <2> HIDE DEF turned, ended
  <2> QED BY <1>1, <1>4, <2>2, <2>3, <2>4, <2>5, <2>6, <2>7
<1>6. ASSUME NEW e \in Events, SideEvent(e)
      PROVE  \A s \in Sess : Fits(sess'[s])
  <2> DEFINE r == Ensure(sess[Chat[e]])
  <2>1. Chat[e] \in Sess
    BY Constants
  <2>2. r \in Session /\ Fits(r) /\ (~QueueRefuses(r, e) => Fits(Queue(r, e)))
    BY <1>0, <2>1, EnsureType, OperationsFit
  <2>3. \/ sess' = sess \/ sess' = [sess EXCEPT ![Chat[e]] = r]
        \/ ~QueueRefuses(r, e) /\ sess' = [sess EXCEPT ![Chat[e]] = Queue(r, e)]
    BY <1>6 DEF SideEvent
  <2> HIDE DEF r
  <2> QED BY <1>1, <1>4, <2>1, <2>2, <2>3
<1>7. CASE Clients
  <2>1. \/ sess' = sess \/ sess' = Sessions
        \/ \E s \in Sess : sess' = [sess EXCEPT ![s] = Cancel(sess[s])]
        \/ \E s \in Sess :
             \E r \in {AppendMessage(Sessions[s]), NoSession, Reserve(Sessions[s]),
                       SetStatus(Sessions[s], "idle")} :
               sess' = [Sessions EXCEPT ![s] = r]
    BY <1>7 DEF Clients, CancelSession, RequestCancel, CancelTimesOut, AppendByClient,
                DeleteSession, TuiReserve, TuiRelease, RetryDelivery, DropDelivery, ClientOp
  <2>2. \A s \in Sess : Fits(Cancel(sess[s]))
    BY <1>0, OperationsFit
  <2>3. \A s \in Sess :
          \A r \in {AppendMessage(Sessions[s]), NoSession, Reserve(Sessions[s]),
                    SetStatus(Sessions[s], "idle")} : Fits(r)
    <3> TAKE s \in Sess
    <3>1. /\ SameMessages(Sessions[s], AppendMessage(Sessions[s]))
          /\ SameMessages(Sessions[s], Reserve(Sessions[s]))
          /\ SameMessages(Sessions[s], SetStatus(Sessions[s], "idle"))
      BY <1>2, SameOperations
    <3> QED BY <1>2, <3>1, OperationsFit
  <2> QED BY <1>1, <1>3, <1>4, <2>1, <2>2, <2>3
<1>8. ASSUME NEW s \in Sess, ReservationExpires(s)
      PROVE  \A t \in Sess : Fits(sess'[t])
  <2>1. SameMessages(sess[s], [sess[s] EXCEPT !.lease = "expired"])
    BY <1>0, SameOperations
  <2>2. Fits([sess[s] EXCEPT !.lease = "expired"])
    BY <1>0, <2>1, OperationsFit
  <2> QED BY <1>0, <1>1, <1>8, <2>2 DEF ReservationExpires
<1>9. ASSUME NEW signalled \in BOOLEAN, Halt(signalled)
      PROVE  \A s \in Sess : Fits(sess'[s])
  <2>1. CASE sess' # sess
    <3>1. pc \in {"turn", "reply"} /\ sess' = [sess EXCEPT ![Chat[e0]] = SetStatus(Here, "interrupted")]
      BY <1>9, <2>1 DEF Halt, Here
    <3>2. batch # <<>>
      BY <3>1 DEF TypeOK
    <3>3. Chat[e0] \in Sess /\ Here \in Session /\ Fits(Here)
      BY <1>0, <3>2, HeadEvent DEF Here
    <3>4. SameMessages(Here, SetStatus(Here, "interrupted"))
      BY <3>3, SameOperations
    <3> QED BY <1>1, <3>1, <3>3, <3>4, OperationsFit
  <2> QED BY <1>4, <2>1
<1>10. \/ sess' = sess
       \/ NoRoom \/ AdmitQueue \/ AdmitBegin \/ Settle \/ MutatingTool \/ ToolPush \/ ToolPushed
       \/ FlushFirst \/ TurnCancelled \/ TurnFailed \/ TurnAnswers
       \/ \E e \in Events : SideEvent(e)
       \/ Clients
       \/ \E s \in Sess : ReservationExpires(s)
       \/ Halt(TRUE) \/ Halt(FALSE)
  <2>1. CASE UNCHANGED vars \/ Arrive \/ Restart
    BY <2>1 DEF vars, Arrive, Restart
  <2>2. CASE \/ \E d \in Events : SendPending(d)
             \/ PendingSent
             \/ \E s \in Sess : PickQueued(s)
             \/ PickDeferred
             \/ \E first \in Events : Poll(first)
             \/ Reject \/ Discard \/ AdmitDuplicate \/ Defer \/ Commit \/ StartTurn
             \/ FlushEdit \/ Flushed \/ SideDefer \/ SideCommit \/ Acknowledge \/ TurnFails
             \/ ReplySent
    BY <2>2 DEF SendPending, PendingSent, PickQueued, PickDeferred, Poll, Reject, Discard,
                AdmitDuplicate, Defer, Commit, StartTurn, FlushEdit, Flushed, SideDefer, SideCommit,
                Acknowledge, TurnFails, ReplySent
  <2> QED BY <2>1, <2>2 DEF Next, Bridge, Environment
<1> QED BY <1>4, <1>5, <1>6, <1>7, <1>8, <1>9, <1>10

(* No session queue outgrows its limit, however the daemon is stopped and  *)
(* started again.                                                          *)
THEOREM QueuesBounded == Spec => []QueueBound
<1>1. Init => QueueBound
  <2> SUFFICES ASSUME Init, NEW s \in Sess PROVE Fits(sess[s])
    BY DEF QueueBound, Fits
  <2>1. sess[s] = NoSession /\ NoSession.queued = <<>> /\ Len(<<>>) = 0
    BY EmptySeq DEF Init, NoSession
  <2>2. QueueLimit \in Nat
    BY StoreAssumption
  <2> QED BY <2>1, <2>2 DEF Fits
<1> QED BY <1>1, NextKeepsBound, TypeCorrect, PTL DEF Spec
-----------------------------------------------------------------------------
(* A client is told that its cancellation succeeded after the turn.        *)

(* A turn that is being acknowledged has been cleared, and a client waits  *)
(* for as long as its request stands.                                      *)
ClearedFirst == pc = "ack" => Here.inflight = NoEvent

WaitsForRequest == \A s \in Sess : asked[s] = "waiting" => token[s] = "requested"

ToldWhenOver ==
  \A s \in Sess :
    asked[s] = "waiting" /\ asked'[s] = "no" /\ token'[s] # "requested" /\ pc' # "down"
      => sess'[s].inflight = NoEvent

LEMMA BridgeClearsFirst ==
  ASSUME TypeOK, Bridge
  PROVE  ClearedFirst'
<1> USE DEF Goto, NextEvent, BreakBatch, BackToTurn, Stopped
<1>1. CASE \/ \E d \in Events : SendPending(d)
           \/ PendingSent
           \/ \E s \in Sess : PickQueued(s)
           \/ PickDeferred
           \/ \E first \in Events : Poll(first)
           \/ Settle \/ ReplySent
  <2>1. pc' # "ack"
    BY <1>1 DEF SendPending, PendingSent, PickQueued, PickDeferred, Poll, SendAccepted,
                SendFailed, Settle, ReplySent
  <2> QED BY <2>1 DEF ClearedFirst
<1>2. CASE \/ Reject \/ Discard \/ NoRoom \/ AdmitDuplicate \/ AdmitQueue \/ AdmitBegin
           \/ Defer \/ Commit \/ StartTurn \/ Acknowledge
  <2>1. pc' # "ack"
    BY <1>2 DEF Reject, Discard, NoRoom, AdmitDuplicate, AdmitQueue, AdmitBegin, Defer, Commit,
                StartTurn, Acknowledge
  <2> QED BY <2>1 DEF ClearedFirst
<1>3. CASE \/ MutatingTool \/ ToolPush \/ ToolPushed \/ FlushFirst \/ FlushEdit \/ Flushed
           \/ \E e \in Events : SideEvent(e)
           \/ SideDefer \/ SideCommit \/ TurnFails \/ TurnFailed \/ TurnAnswers
  <2>1. pc' # "ack"
    BY <1>3 DEF MutatingTool, ToolPush, ToolPushed, FlushFirst, FlushEdit, Flushed, SideEvent,
                SideDefer, SideCommit, TurnFails, TurnFailed, TurnAnswers, task
  <2> QED BY <2>1 DEF ClearedFirst
<1>4. CASE TurnCancelled
  <2>1. batch # <<>> /\ sess \in [Sess -> Session]
    BY <1>4 DEF TurnCancelled, TypeOK
  <2>2. Chat[e0] \in Sess /\ Here \in Session
    BY <2>1, HeadEvent
  <2>3. batch' = batch /\ sess' = [sess EXCEPT ![Chat[e0]] = Clear(Here, "cancelled")]
    BY <1>4 DEF TurnCancelled
  <2>4. sess'[Chat[e0]].inflight = NoEvent
    BY <2>1, <2>2, <2>3, EndOwns
  <2> QED BY <2>3, <2>4 DEF ClearedFirst, Here, e0
<1> QED BY <1>1, <1>2, <1>3, <1>4 DEF Bridge

(* What the bridge does to cancellations.                                  *)
LEMMA BridgeCancels ==
  ASSUME Bridge
  PROVE  UNCHANGED cancelling \/ Stopped \/ StartTurn \/ Acknowledge
<1>1. CASE \/ \E d \in Events : SendPending(d)
           \/ PendingSent
           \/ \E s \in Sess : PickQueued(s)
           \/ PickDeferred
           \/ \E first \in Events : Poll(first)
           \/ Settle \/ ReplySent
  BY <1>1 DEF SendPending, PendingSent, PickQueued, PickDeferred, Poll, SendAccepted,
              SendFailed, Settle, ReplySent
<1>2. CASE \/ Reject \/ Discard \/ NoRoom \/ AdmitDuplicate \/ AdmitQueue \/ AdmitBegin
           \/ Defer \/ Commit
  BY <1>2 DEF Reject, Discard, NoRoom, AdmitDuplicate, AdmitQueue, AdmitBegin, Defer, Commit
<1>3. CASE \/ MutatingTool \/ ToolPush \/ ToolPushed \/ FlushFirst \/ FlushEdit \/ Flushed
           \/ \E e \in Events : SideEvent(e)
           \/ SideDefer \/ SideCommit \/ TurnFails \/ TurnFailed \/ TurnAnswers \/ TurnCancelled
  BY <1>3 DEF MutatingTool, ToolPush, ToolPushed, FlushFirst, FlushEdit, Flushed, SideEvent,
              SideDefer, SideCommit, TurnFails, TurnFailed, TurnAnswers, TurnCancelled
<1> QED BY <1>1, <1>2, <1>3 DEF Bridge

LEMMA BridgeTellsWhenOver ==
  ASSUME TypeOK, ClearedFirst, WaitsForRequest, Bridge
  PROVE  WaitsForRequest' /\ ToldWhenOver
<1>0. asked \in [Sess -> {"no", "marked", "waiting", "orphan"}] /\ DOMAIN token = Sess
  BY DEF TypeOK
<1>1. CASE UNCHANGED cancelling
  BY <1>1 DEF cancelling, WaitsForRequest, ToldWhenOver
<1>2. CASE Stopped
  BY <1>2 DEF Stopped, WaitsForRequest, ToldWhenOver
<1>3. CASE StartTurn
  <2>1. /\ UNCHANGED asked
        /\ \A s \in Sess : token[s] = "requested" => token'[s] = "requested"
    BY <1>0, <1>3 DEF StartTurn
  <2> QED BY <2>1 DEF WaitsForRequest, ToldWhenOver
<1>4. CASE Acknowledge
  <2>1. /\ pc = "ack" /\ sess' = sess
        /\ \A s \in Sess : s # Chat[e0] => asked'[s] = asked[s] /\ token'[s] = token[s]
        /\ Chat[e0] \in Sess => asked'[Chat[e0]] \in {"no", "orphan"}
    BY <1>0, <1>4 DEF Acknowledge, store
  <2>2. sess'[Chat[e0]].inflight = NoEvent
    BY <2>1 DEF ClearedFirst, Here
  <2> QED BY <2>1, <2>2 DEF WaitsForRequest, ToldWhenOver
<1> QED BY <1>1, <1>2, <1>3, <1>4, BridgeCancels

LEMMA OthersTellWhenOver ==
  ASSUME TypeOK, ClearedFirst, WaitsForRequest, Clients \/ Environment \/ UNCHANGED vars
  PROVE  ClearedFirst' /\ WaitsForRequest' /\ ToldWhenOver
<1>0. /\ asked \in [Sess -> {"no", "marked", "waiting", "orphan"}] /\ DOMAIN token = Sess
      /\ sess \in [Sess -> Session]
      /\ pc = "ack" => batch # <<>>
  BY DEF TypeOK
<1>1. ASSUME UNCHANGED <<pc, batch>>,
             \A s \in Sess : sess'[s].inflight \in {NoEvent, sess[s].inflight}
      PROVE  ClearedFirst'
  <2>1. CASE pc = "ack"
    <3>1. Chat[e0] \in Sess
      BY <1>0, <2>1, HeadEvent
    <3> QED BY <1>1, <2>1, <3>1 DEF ClearedFirst, Here, e0
  <2>2. CASE pc # "ack"
    BY <1>1, <2>2 DEF ClearedFirst
  <2> QED BY <2>1, <2>2
<1>2. ASSUME UNCHANGED cancelling
      PROVE  WaitsForRequest' /\ ToldWhenOver
  BY <1>2 DEF cancelling, WaitsForRequest, ToldWhenOver
<1>3. CASE Clients
  <2>1. ClearedFirst'
    BY <1>1, <1>3, ClientsKeepLeases DEF SameLease
  <2>2. ASSUME NEW s \in Sess, CancelSession(s)
        PROVE  WaitsForRequest' /\ ToldWhenOver
    <3>1. /\ asked[s] = "no" /\ asked'[s] \in {"no", "marked"}
          /\ \A t \in Sess : t # s => asked'[t] = asked[t] /\ token'[t] = token[t]
      BY <1>0, <2>2 DEF CancelSession
    <3> QED BY <3>1 DEF WaitsForRequest, ToldWhenOver
  <2>3. ASSUME NEW s \in Sess, RequestCancel(s)
        PROVE  WaitsForRequest' /\ ToldWhenOver
    <3>1. /\ asked'[s] = "waiting" /\ token'[s] = "requested"
          /\ \A t \in Sess : t # s => asked'[t] = asked[t] /\ token'[t] = token[t]
      BY <1>0, <2>3 DEF RequestCancel
    <3> QED BY <3>1 DEF WaitsForRequest, ToldWhenOver
  <2>4. ASSUME NEW s \in Sess, CancelTimesOut(s)
        PROVE  WaitsForRequest' /\ ToldWhenOver
    <3>1. /\ asked'[s] = "no" /\ UNCHANGED token
          /\ \A t \in Sess : t # s => asked'[t] = asked[t]
      BY <1>0, <2>4 DEF CancelTimesOut
    <3> QED BY <3>1 DEF WaitsForRequest, ToldWhenOver
  <2>5. ASSUME NEW s \in Sess, DeleteSession(s)
        PROVE  WaitsForRequest' /\ ToldWhenOver
    <3>1. /\ asked'[s] = IF asked[s] = "no" THEN "no" ELSE "orphan"
          /\ \A t \in Sess : t # s => asked'[t] = asked[t] /\ token'[t] = token[t]
      BY <1>0, <2>5 DEF DeleteSession
    <3> QED BY <3>1 DEF WaitsForRequest, ToldWhenOver
  <2>6. CASE \/ \E s \in Sess : AppendByClient(s) \/ TuiReserve(s) \/ TuiRelease(s)
             \/ \E d \in Events : RetryDelivery(d) \/ DropDelivery(d)
    <3>1. UNCHANGED cancelling
      BY <2>6 DEF AppendByClient, TuiReserve, TuiRelease, RetryDelivery, DropDelivery
    <3> QED BY <1>2, <2>1, <3>1
  <2> QED BY <1>3, <2>1, <2>2, <2>3, <2>4, <2>5, <2>6 DEF Clients
<1>4. CASE Arrive \/ UNCHANGED vars
  <2>1. UNCHANGED <<sess, pc, batch, cancelling>>
    BY <1>4 DEF Arrive, vars, store, task
  <2> QED BY <1>1, <1>2, <2>1
<1>5. ASSUME NEW s \in Sess, ReservationExpires(s)
      PROVE  ClearedFirst' /\ WaitsForRequest' /\ ToldWhenOver
  <2>1. /\ UNCHANGED <<pc, batch, cancelling>>
        /\ \A t \in Sess : sess'[t].inflight = sess[t].inflight
    BY <1>0, <1>5 DEF ReservationExpires, Session, task
  <2> QED BY <1>1, <1>2, <2>1
<1>6. CASE Halt(TRUE) \/ Halt(FALSE)
  <2>1. Stopped
    BY <1>6 DEF Halt
  <2> QED BY <2>1 DEF Stopped, ClearedFirst, WaitsForRequest, ToldWhenOver
<1>7. CASE Restart
  <2>1. pc' = "top" /\ UNCHANGED cancelling
    BY <1>7 DEF Restart
  <2> QED BY <1>2, <2>1 DEF ClearedFirst
<1> QED BY <1>3, <1>4, <1>5, <1>6, <1>7 DEF Environment

(* session.cancel answers with success only once the session holds no turn *)
(* any more (cancel and acknowledge, lib.rs), for any number of clients,   *)
(* sessions and crashes.                                                   *)
THEOREM CancelsAreTrue == Spec => CancelMeansStopped
<1>1. Init => ClearedFirst /\ WaitsForRequest
  BY DEF Init, ClearedFirst, WaitsForRequest
<1>2. TypeOK /\ ClearedFirst /\ WaitsForRequest /\ [Next]_vars
        => (ClearedFirst /\ WaitsForRequest)' /\ ToldWhenOver
  BY BridgeClearsFirst, BridgeTellsWhenOver, OthersTellWhenOver DEF Next
<1>3. TypeOK /\ ClearedFirst /\ WaitsForRequest /\ [Next]_vars =>
        [\A s \in Sess :
           asked[s] = "waiting" /\ asked'[s] = "no" /\ token'[s] # "requested" /\ pc' # "down"
             => sess'[s].inflight = NoEvent]_vars
  BY <1>2 DEF ToldWhenOver
<1> QED BY <1>1, <1>2, <1>3, TypeCorrect, PTL DEF Spec, CancelMeansStopped
=============================================================================
