--------------------------------- MODULE Outbox ---------------------------------
(***************************************************************************)
(* What the delivery outbox promises, whatever the daemon does around it:  *)
(* each delivery is a small machine, and a new message is posted to the    *)
(* channel only when the delivery is created or an operator allows another *)
(* try, or after the daemon was stopped while the delivery was being sent. *)
(* A delivery whose last send is in doubt stays so until the operator      *)
(* retries or drops it.                                                    *)
(*                                                                         *)
(* The states are DeliveryStatus of krabb-runtime/src/state.rs: "due" is   *)
(* Pending, "out" Sending, "open" Streaming and "doubt" Uncertain; "cut"   *)
(* is Sending with nobody left who sends.                                  *)
(* "new" counts the messages that the next send will post: one, until the  *)
(* provider's message id is known, and none from then on, because a send   *)
(* then edits that message.                                                *)
(***************************************************************************)
EXTENDS Integers

CONSTANT Deliveries

VARIABLES
  box,
  stops    (* how often the daemon has stopped                               *)

Entry == [state : {"none", "due", "out", "open", "doubt", "cut"}, new : 0..1,
          posted : Nat, granted : Nat]

TypeOK == box \in [Deliveries -> Entry] /\ stops \in Nat

At(state, new, posted, granted) ==
  [state |-> state, new |-> new, posted |-> posted, granted |-> granted]

(* A reply is stored for delivery, or a first text is stored and sent.     *)
Create(b, c) ==
  /\ b.state = "none"
  /\ \/ c = At("due", 1, b.posted, b.granted + 1)
     \/ c = At("out", 1, b.posted + 1, b.granted + 1)

Send(b, c) == b.state = "due" /\ c = At("out", b.new, b.posted + b.new, b.granted)

(* The turn of the message is run again and finds what a stop has cut off. *)
Resend(b, c) == b.state = "cut" /\ c = At("out", b.new, b.posted + b.new, b.granted)

(* A streamed message that is open is edited, or is due for its last edit. *)
Edit(b, c) ==
  /\ b.state = "open" /\ b.new = 0
  /\ c \in {At("out", 0, b.posted, b.granted), At("due", 0, b.posted, b.granted)}

Opened(b, c) == b.state = "out" /\ c = At("open", 0, b.posted, b.granted)

(* The turn that sends is over.                                            *)
InDoubt(b, c) ==
  b.state \in {"out", "open", "cut"} /\ c = At("doubt", b.new, b.posted, b.granted)

(* delivery.retry.                                                         *)
Retry(b, c) == b.state = "doubt" /\ c = At("due", b.new, b.posted, b.granted + b.new)

(* Acknowledged by the channel, or dropped by the operator.                *)
Remove(b, c) == b.state # "none" /\ c = At("none", 1, b.posted, b.granted)

Step(b, c) ==
  \/ Create(b, c) \/ Send(b, c) \/ Resend(b, c) \/ Edit(b, c) \/ Opened(b, c)
  \/ InDoubt(b, c) \/ Retry(b, c) \/ Remove(b, c)

CutOff(b) == IF b.state = "out" THEN [b EXCEPT !.state = "cut"] ELSE b

Init == box = [d \in Deliveries |-> At("none", 1, 0, 0)] /\ stops = 0

Moves ==
  /\ box' = [d \in Deliveries |-> box'[d]]
  /\ \A d \in Deliveries : box'[d] = box[d] \/ Step(box[d], box'[d])
  /\ UNCHANGED stops

Stop == box' = [d \in Deliveries |-> CutOff(box[d])] /\ stops' = stops + 1

Next == Moves \/ Stop

Spec == Init /\ [][Next]_<<box, stops>>

(* No duplicate post: at most one new message per creation or confirmed    *)
(* retry of the delivery, and one for each stop of the daemon.             *)
NoDuplicatePost == \A d \in Deliveries : box[d].posted <= box[d].granted + stops

(* A delivery that is due, or was cut off, still has the post it was       *)
(* allowed.                                                                *)
Allowed(b) ==
  b.posted + (IF b.state \in {"due", "cut"} THEN b.new ELSE 0) <= b.granted + stops

Inv == TypeOK /\ \A d \in Deliveries : Allowed(box[d])
=============================================================================
