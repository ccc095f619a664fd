----------------------------- MODULE DiscordGateway -----------------------------
(* The Discord plugin between Discord's gateway and the daemon's bridge, as *)
(* krabb-plugins/messaging/discord/src/main.rs has it.  Discord numbers the *)
(* dispatches of a session; the plugin reads them from a socket, hands each *)
(* event to the bridge and moves its cursor when the bridge acknowledges    *)
(* it.  A plugin that comes back resumes the session behind the cursor.     *)
(* While an event waits for its acknowledgement the plugin goes on reading, *)
(* for the presses that answer approvals, and keeps messages for later.     *)
EXTENDS Integers, Sequences

CONSTANTS
  MaxDispatches,   (* the dispatches Discord sends, over all sessions          *)
  PendingLimit,    (* PENDING_DISPATCHES                                       *)
  Troubles         (* the bounds on what goes wrong, a set of records: Discord's
                      sessions, answers the bridge does without, failures,
                      processes killed                                         *)

ASSUME DiscordAssumption ==
  /\ {MaxDispatches, PendingLimit} \subseteq Nat
  /\ Troubles \subseteq [sessions : Nat, losses : Nat, fails : Nat, kills : Nat]

VARIABLES
  log,             (* Discord: the dispatches of the session it knows          *)
  session,         (* Discord: the number of that session                      *)
  issued,          (* Discord: the dispatches sent so far                      *)
  wire,            (* the socket: its session and what was read of it          *)
  gateway,         (* the plugin's GatewayState                                *)
  poll,            (* the locals of the poll the plugin works on               *)
  cursor,          (* the file discord-gateway.json                            *)
  dispatches,      (* the file discord-gateway-dispatches.json, and
                      queued_dispatches: a failure between them ends the plugin *)
  bridge,          (* what the bridge does                                     *)
  answer,          (* the events of the last poll it has not dealt with        *)
  committed,       (* the events it has committed                              *)
  left             (* what may still go wrong                                  *)

discord ==
  <<log, session, issued, wire, gateway, poll, cursor, dispatches, bridge, answer, committed, left>>

service == <<log, session, issued>>

Kinds == {"message", "press", "other"}

Closed == [session |-> 0, read |-> -1]

NoPoll == [on |-> FALSE, sequence |-> 0, session_id |-> 0]

(* No event; no sequence and no session_id are 0.                              *)
Nothing == [sequence |-> 0, message |-> 0, kind |-> "none"]

Cursor(sequence, session_id) == [sequence |-> sequence, session_id |-> session_id]

Ready == [message |-> 0, kind |-> "ready"]

(* GatewayState::default, of a process that starts.                            *)
LoadedState(saved) ==
  [sequence |-> saved.sequence, session_id |-> saved.session_id,
   pending |-> Nothing, from_queue |-> FALSE]

DiscordInit ==
  /\ log = <<>> /\ session = 0 /\ issued = 0
  /\ wire = Closed /\ poll = NoPoll
  /\ cursor = Cursor(0, 0) /\ gateway = LoadedState(cursor) /\ dispatches = <<>>
  /\ bridge = "idle" /\ answer = <<>> /\ committed = {}
  /\ left \in Troubles

May(fault) == left[fault] > 0 /\ left' = [left EXCEPT ![fault] = @ - 1]

EventPending == gateway.pending # Nothing

-----------------------------------------------------------------------------
(* Discord.                                                                    *)

Sent(kind) ==
  /\ log # <<>> /\ issued < MaxDispatches
  /\ log' = Append(log, [message |-> issued + 1, kind |-> kind])
  /\ issued' = issued + 1
  /\ UNCHANGED <<session, wire, gateway, poll, cursor, dispatches, bridge, answer, committed, left>>

(* Discord forgets a session, which cannot be resumed from then on.           *)
SessionForgotten ==
  /\ log # <<>> /\ session < left.sessions
  /\ log' = <<>>
  /\ UNCHANGED <<session, issued, wire, gateway, poll, cursor, dispatches, bridge, answer, committed, left>>

-----------------------------------------------------------------------------
(* The end of a request at the plugin.                                         *)

(* The bridge takes the answer of a poll, or no longer waits for it: the wait  *)
(* for an approval is over or its turn cancelled.                              *)
Returned(events) ==
  \/ answer' = events /\ bridge' = (IF events = <<>> THEN "idle" ELSE "handling") /\ UNCHANGED left
  \/ events # <<>> /\ May("losses") /\ UNCHANGED <<answer, bridge>>

(* The process of the plugin starts again.                                     *)
Reloaded == gateway' = LoadedState(cursor') /\ wire' = Closed /\ poll' = NoPoll

(* A poll that failed: recover starts the plugin again, a turn that waits for  *)
(* an approval just fails.                                                     *)
PollFailed(state) ==
  \/ Reloaded
  \/ gateway' = state /\ wire' = Closed /\ poll' = NoPoll

(* The end of gateway(): the state is taken over and the cursor saved.         *)
PollDone(sequence, pending, socket, events) ==
  LET state == [gateway EXCEPT !.sequence = sequence, !.session_id = poll.session_id, !.pending = pending] IN
  \/ /\ cursor' = Cursor(sequence, poll.session_id)
     /\ gateway' = state /\ wire' = socket /\ poll' = NoPoll
     /\ Returned(events)
  \/ /\ May("fails")
     /\ UNCHANGED <<cursor, bridge, answer>>
     /\ PollFailed(state)

-----------------------------------------------------------------------------
(* A poll.                                                                     *)

(* Mutant: also while another event waits.                                     *)
ServesQueueAtOnce == dispatches # <<>>

ServesQueue == ~EventPending /\ dispatches # <<>>

(* queued_dispatch: an event kept while another one waited.                    *)
PollQueued ==
  /\ bridge = "idle" /\ ~poll.on /\ ServesQueue
  /\ cursor' = Cursor(gateway.sequence, gateway.session_id)
  /\ gateway' = [gateway EXCEPT !.pending = Head(dispatches), !.from_queue = TRUE]
  /\ Returned(<<Head(dispatches)>>)
  /\ UNCHANGED <<service, wire, poll, dispatches, committed>>

(* A closed socket is opened: as a new session without a session_id, otherwise *)
(* behind the sequence.                                                        *)
PollStarts ==
  /\ bridge = "idle" /\ ~poll.on /\ ~ServesQueue
  /\ poll' = [on |-> TRUE, sequence |-> gateway.sequence, session_id |-> gateway.session_id]
  /\ \/ wire # Closed /\ UNCHANGED <<log, session, wire>>
     \/ /\ wire = Closed /\ gateway.session_id = 0 /\ session < left.sessions
        /\ session' = session + 1 /\ log' = <<Ready>>
        /\ wire' = [session |-> session', read |-> 0]
     \/ /\ wire = Closed /\ gateway.session_id # 0
        /\ wire' = [session |-> gateway.session_id, read |-> gateway.sequence]
        /\ UNCHANGED <<log, session>>
  /\ UNCHANGED <<issued, gateway, cursor, dispatches, bridge, answer, committed, left>>

(* Discord knows the session of the socket, and the sequence it was resumed at. *)
Known == wire.session = session /\ log # <<>> /\ wire.read <= Len(log)

Read(kinds) == poll.on /\ Known /\ wire.read < Len(log) /\ log[wire.read + 1].kind \in kinds

Further == [wire EXCEPT !.read = @ + 1]

StagedEvent ==
  [sequence |-> wire.read + 1, message |-> log[wire.read + 1].message, kind |-> log[wire.read + 1].kind]

(* READY: the cursor names the new session, with the sequence as it was.       *)
ReadReady ==
  /\ Read({"ready"})
  /\ poll' = [poll EXCEPT !.sequence = wire.read + 1, !.session_id = wire.session]
  /\ cursor' = Cursor(gateway.sequence, wire.session)
  /\ wire' = Further
  /\ UNCHANGED <<service, gateway, dispatches, bridge, answer, committed, left>>

ReadOtherDispatch ==
  /\ Read({"other"})
  /\ poll' = [poll EXCEPT !.sequence = wire.read + 1]
  /\ wire' = Further
  /\ UNCHANGED <<service, gateway, cursor, dispatches, bridge, answer, committed, left>>

(* Mutant: the sequence of an event is taken as it is read.                    *)
ReadEventAhead ==
  /\ ~EventPending /\ Read({"message", "press"})
  /\ PollDone(wire.read + 1, StagedEvent, Further, <<StagedEvent>>)
  /\ UNCHANGED <<service, dispatches, committed>>

(* The sequence of an event is only taken when it is acknowledged.             *)
ReadEvent ==
  /\ ~EventPending /\ Read({"message", "press"})
  /\ PollDone(gateway.sequence, StagedEvent, Further, <<StagedEvent>>)
  /\ UNCHANGED <<service, dispatches, committed>>

(* While an event waits, a message is kept, or left to a later connection when *)
(* too many are.                                                               *)
ReadAwaiting ==
  /\ EventPending /\ Read({"message"})
  /\ IF Len(dispatches) < PendingLimit
       THEN /\ dispatches' = Append(dispatches, StagedEvent)
            /\ PollDone(gateway.sequence, gateway.pending, Further, <<gateway.pending>>)
       ELSE /\ PollDone(gateway.sequence, gateway.pending, Closed, <<gateway.pending>>)
            /\ UNCHANGED dispatches
  /\ UNCHANGED <<service, committed>>

(* A press is handed on at once, and not to be acknowledged.                   *)
ReadPress ==
  /\ EventPending /\ Read({"press"})
  /\ PollDone(gateway.sequence, gateway.pending, Further,
              <<gateway.pending, [StagedEvent EXCEPT !.sequence = 0]>>)
  /\ UNCHANGED <<service, dispatches, committed>>

(* The deadline passes, or Discord closes the socket.                          *)
PollEnds ==
  /\ poll.on
  /\ \E socket \in {wire, Closed} :
       IF EventPending
         THEN PollDone(gateway.sequence, gateway.pending, socket, <<gateway.pending>>)
         ELSE PollDone(poll.sequence, Nothing, socket, <<>>)
  /\ UNCHANGED <<service, dispatches, committed>>

(* Discord asks to reconnect, the connection fails, a file cannot be written.  *)
PollFails ==
  /\ poll.on /\ May("fails")
  /\ UNCHANGED cursor
  /\ PollFailed(gateway)
  /\ UNCHANGED <<service, dispatches, bridge, answer, committed>>

(* Discord does not know the session: the cursor keeps its sequence.           *)
Rejected ==
  /\ poll.on /\ ~Known
  /\ cursor' = Cursor(gateway.sequence, 0)
  /\ PollFailed(gateway)
  /\ UNCHANGED <<service, dispatches, bridge, answer, committed, left>>

-----------------------------------------------------------------------------
(* The bridge.                                                                 *)

Dealt ==
  /\ answer' = Tail(answer)
  /\ bridge' = (IF Len(answer) > 1 THEN "handling" ELSE "idle")

(* commit_event: the event is queued, deferred or dismissed for good, and       *)
(* recorded as seen; then it is acknowledged if it has a sequence.             *)
Commit ==
  /\ bridge = "handling"
  /\ committed' = committed \union {Head(answer).message}
  /\ IF Head(answer).sequence # 0 THEN bridge' = "acking" /\ UNCHANGED answer ELSE Dealt
  /\ UNCHANGED <<service, wire, gateway, poll, cursor, dispatches, left>>

(* Session and deferred events are full: the event is not taken, and polled for *)
(* again; a press behind it counts all the same.                               *)
Blocked ==
  /\ bridge = "handling" /\ Head(answer).kind = "message" /\ May("losses")
  /\ answer' = <<>> /\ bridge' = "idle"
  /\ UNCHANGED <<service, wire, gateway, poll, cursor, dispatches, committed>>

(* acknowledge.                                                                *)
Acknowledged(sequence) ==
  IF gateway.pending.sequence = sequence
    THEN /\ gateway' = [gateway EXCEPT !.sequence = sequence, !.pending = Nothing, !.from_queue = FALSE]
         /\ cursor' = Cursor(sequence, gateway.session_id)
         /\ dispatches' = IF gateway.from_queue THEN Tail(dispatches) ELSE dispatches
    ELSE /\ gateway.sequence = sequence
         /\ cursor' = Cursor(sequence, gateway.session_id)
         /\ UNCHANGED <<gateway, dispatches>>

StaleAck == Head(answer).sequence \notin {gateway.pending.sequence, gateway.sequence}

Ack ==
  /\ bridge = "acking"
  /\ Acknowledged(Head(answer).sequence)
  /\ Dealt
  /\ UNCHANGED <<service, wire, poll, committed, left>>

(* An acknowledgement is not saved, or by half, or its answer is lost; the     *)
(* bridge starts the plugin again and asks again.                              *)
AckFails ==
  /\ bridge = "acking" /\ ~StaleAck /\ May("fails")
  /\ \/ UNCHANGED <<cursor, dispatches>>
     \/ cursor' = Cursor(Head(answer).sequence, gateway.session_id) /\ UNCHANGED dispatches
     \/ /\ gateway.from_queue
        /\ cursor' = Cursor(Head(answer).sequence, gateway.session_id)
        /\ dispatches' = Tail(dispatches)
  /\ Reloaded
  /\ UNCHANGED <<service, bridge, answer, committed>>

(* The daemon stops, with its plugins, and starts again.                       *)
Stopped ==
  /\ UNCHANGED <<cursor, dispatches>>
  /\ Reloaded
  /\ bridge' = "idle" /\ answer' = <<>>
  /\ UNCHANGED <<service, committed>>

(* An acknowledgement that stays stale, ACK_ATTEMPTS times, ends the bridge and *)
(* with it the daemon.                                                         *)
GivenUp == bridge = "acking" /\ StaleAck /\ Stopped /\ UNCHANGED left

DaemonKilled == May("kills") /\ Stopped

(* The process of the plugin ends; who asked it next starts it again.          *)
PluginKilled ==
  /\ May("kills")
  /\ UNCHANGED <<cursor, dispatches>>
  /\ Reloaded
  /\ UNCHANGED <<service, bridge, answer, committed>>

-----------------------------------------------------------------------------
DiscordNext ==
  \/ \E kind \in Kinds : Sent(kind)
  \/ SessionForgotten
  \/ PollQueued \/ PollStarts
  \/ ReadReady \/ ReadOtherDispatch \/ ReadEvent \/ ReadAwaiting \/ ReadPress
  \/ PollEnds \/ PollFails \/ Rejected
  \/ Commit \/ Blocked \/ Ack \/ AckFails \/ GivenUp
  \/ DaemonKilled \/ PluginKilled

DiscordSpec == DiscordInit /\ [][DiscordNext]_discord

-----------------------------------------------------------------------------
(* Properties.                                                                 *)

MessagePlaces == {i \in 1..Len(log) : log[i].kind = "message"}

(* The dispatches of Discord's session that the plugin has behind it: what its *)
(* socket has sent, or, without one, what it resumes behind.                   *)
Behind ==
  IF wire # Closed
    THEN IF wire.session = session THEN wire.read ELSE 0
    ELSE IF gateway.session_id = session THEN gateway.sequence ELSE 0

InHand ==
  {gateway.pending.message} \union {answer[k].message : k \in 1..Len(answer)}
    \union {dispatches[k].message : k \in 1..Len(dispatches)}

(* No message is behind the plugin that was neither committed nor is in hand:  *)
(* its place "advances only after the host acknowledges an accepted event"     *)
(* (krabb-plugins/messaging/discord/README.md:13), whatever ends or fails.     *)
NothingSkipped ==
  \A i \in MessagePlaces : i <= Behind => log[i].message \in committed \union InHand

(* Messages are committed in the order in which Discord sent them, also those  *)
(* kept while another one waited, and after the socket was opened again.       *)
InOrder ==
  \A i, j \in MessagePlaces : i < j /\ log[j].message \in committed => log[i].message \in committed
=============================================================================
