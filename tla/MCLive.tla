--------------------------------- MODULE MCLive ---------------------------------
(* An instance for TLC of what must come about: terminal clients whose       *)
(* reservations end, and the channel bridge, whose messages are all handled. *)
(* They share nothing, so each behaviour is one of one of them, the other    *)
(* rests, and what is fair is what moves.                                    *)
EXTENDS SessionLease

VARIABLES
  channel,         (* whether the bridge moves                              *)
  sess, outbox, dead, deferred, seen, offset, pc, batch, picked, cur, msgid, disabled,
  tokens2, asked2, arrived, fails, cancels, crashes, ops, reserves,
  told, posted, granted, turns, again, mutated, answered, closed

Bridge == INSTANCE ChannelBridge WITH
  Sess <- {1}, Events <- {1, 2}, Permitted <- {1, 2}, Chat <- <<1, 1>>,
  SessLimit <- 2, ScheduledLimit <- 0, QueueLimit <- 1, OutLimit <- 2, DeferLimit <- 1,
  Redeliver <- FALSE, Streams <- FALSE,
  MaxFails <- 1, MaxCancels <- 1, MaxCrashes <- 0, MaxClientOps <- 0, MaxReserves <- 1,
  token <- tokens2, asked <- asked2

second ==
  <<sess, outbox, dead, deferred, seen, offset, pc, batch, picked, cur, msgid, disabled,
    tokens2, asked2, arrived, fails, cancels, crashes, ops, reserves,
    told, posted, granted, turns, again, mutated, answered, closed>>

all == <<lease, second, channel>>

LiveInit == channel \in BOOLEAN /\ LeaseInit /\ Bridge!Init

LiveNext ==
  /\ \/ ~channel /\ LeaseNext /\ UNCHANGED second
     \/ channel /\ Bridge!Next /\ UNCHANGED lease
  /\ UNCHANGED channel

LiveSpec ==
  /\ LiveInit /\ [][LiveNext]_all
  /\ channel \/ Fairness
  /\ ~channel \/ Bridge!Fairness

(* EventuallyClosed of ChannelBridge: every permitted message is answered,  *)
(* dropped by a cancellation or reported as failed.                         *)
EventuallyClosed == channel => Bridge!EventuallyClosed

(* SessionComesFree of the terminal clients.                                *)
FreeInTheEnd == ~channel => SessionComesFree
=============================================================================
