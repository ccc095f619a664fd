-------------------------------- MODULE MCBridge --------------------------------
(* Instances for TLC of the channel bridge: with a daemon that crashes and  *)
(* starts again, as the constants of the run say; calm, with cancellations, *)
(* a user of the daemon and a reservation instead of crashes; and at the    *)
(* limits of its sessions, queues and deferred events, with a session of a  *)
(* scheduled task and the theorems that hold there.  Beside them a process  *)
(* of the memory plugin.  Each behaviour is one of one of them.             *)
EXTENDS ChannelBridge, MemoryStore

VARIABLES
  part,            (* which of them                                         *)
  sess2, outbox2, dead2, deferred2, seen2, offset2,
  pc2, batch2, picked2, cur2, msgid2, disabled2, token2, asked2,
  arrived2, fails2, cancels2, crashes2, ops2, reserves2,
  told2, posted2, granted2, turns2, again2, mutated2, answered2, closed2

SameChat == [e \in Events |-> 1]

Calm == INSTANCE ChannelBridge WITH
  QueueLimit <- 1, Redeliver <- FALSE,
  MaxCancels <- 1, MaxCrashes <- 0, MaxClientOps <- 1, MaxReserves <- 1

Full == INSTANCE ChannelOnce_proofs WITH
  Sess <- {1, 2}, Events <- {1, 2, 3}, Permitted <- {1, 2, 3}, Chat <- <<1, 2, 1>>,
  SessLimit <- 1, ScheduledLimit <- 1, QueueLimit <- 1, OutLimit <- 2, DeferLimit <- 1,
  Redeliver <- TRUE, Streams <- FALSE,
  MaxFails <- 1, MaxCancels <- 0, MaxCrashes <- 0, MaxClientOps <- 1, MaxReserves <- 1,
  sess <- sess2, outbox <- outbox2, dead <- dead2, deferred <- deferred2, seen <- seen2,
  offset <- offset2, pc <- pc2, batch <- batch2, picked <- picked2, cur <- cur2,
  msgid <- msgid2, disabled <- disabled2, token <- token2, asked <- asked2,
  arrived <- arrived2, fails <- fails2, cancels <- cancels2, crashes <- crashes2,
  ops <- ops2, reserves <- reserves2, told <- told2, posted <- posted2,
  granted <- granted2, turns <- turns2, again <- again2, mutated <- mutated2,
  answered <- answered2, closed <- closed2

second ==
  <<sess2, outbox2, dead2, deferred2, seen2, offset2, pc2, batch2, picked2, cur2, msgid2,
    disabled2, token2, asked2, arrived2, fails2, cancels2, crashes2, ops2, reserves2,
    told2, posted2, granted2, turns2, again2, mutated2, answered2, closed2>>

all == <<vars, second, memory, part>>

BridgeInit ==
  /\ part \in {"crashes", "calm", "limits", "memory"}
  /\ Init /\ Full!Init /\ MemoryInit

BridgeNext ==
  /\ \/ part = "crashes" /\ Next /\ UNCHANGED <<second, memory>>
     \/ part = "calm" /\ Calm!Next /\ UNCHANGED <<second, memory>>
     \/ part = "limits" /\ Full!Next /\ UNCHANGED <<vars, memory>>
     \/ part = "memory" /\ MemoryNext /\ UNCHANGED <<vars, second>>
  /\ UNCHANGED part

BridgeSpec == BridgeInit /\ [][BridgeNext]_all

(* What ChannelBridge states, of the bridge at its limits, with events      *)
(* repeated by the provider and a scheduled task: no committed event leaves *)
(* the store, queues stay within their limit, and as long as no lease has   *)
(* lost its turn every message is handled once.                             *)
KeptAtLimits == Full!NoEventLost /\ Full!QueueBound /\ Full!HandledOnce
=============================================================================
