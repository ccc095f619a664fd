# Krabb: TLA+ models

A verification development for Krabb (`airscripts/crabbot`), an agent daemon
written in Rust. The daemon polls chat channels, keeps one durable session per
conversation, runs model turns with tools, and delivers replies through a
durable outbox; terminal clients, a scheduler and plugins work on the same
store. What can go wrong lies between its pieces: a crash in the middle of a
turn, a cancellation between two lock regions, a provider that repeats an
update, an operator who drops a delivery while it is being sent.

All paths below are relative to the repository root.

## 1. The system

| Component | Source | State it keeps | Operations |
| --- | --- | --- | --- |
| Session store | `krabb-runtime/src/state.rs` | sessions (transcript, queue, turn lease `inflight`, `phase`, reservation), outbox, dead letters, deferred events, channel cursors, seen events | `ensure`, `queue`, `begin`, `push`, `reply`, `clear`, `set_status`, `cancel`, `reserve`, `start_stream`, `ack`, `uncertain`, `retry_delivery`, `drop_delivery`, `commit`, `defer_event`, `load` |
| Session catalog | `state.rs` `load_catalog`, `save_catalog` | one record file per session and delivery, three index files | save of the whole store over several files |
| Channel bridge | `krabb-runtime/src/lib.rs` `bridge_with_media` | the event being processed, the streaming state of its turn, cancellation tokens | drain the outbox, pick queued, deferred or polled events, admit, run the turn, stream, reply |
| Terminal client operations | `krabb-runtime/src/ipc.rs` | one connection per client | start, reserve, release, append, answer, command, compact, cancel, status, delivery retry and drop |
| Approval gate | `krabb-runtime/src/approval.rs` | pending approvals with token, owner, age | request, decide, reply, purge, cancel, take |
| Agent turn loop | `lib.rs` `answer`, `session_answer`, `krabb-core/src/agent.rs` | the messages and the tool calls of one turn | model call, tool calls, approvals, marking, limits |
| Plugin process | `krabb-core/src/plugin.rs` | a child process, its worker, pending calls | call, reply, host call, cancel, restart |
| File writer | `krabb-libs/file/src/lib.rs` | a file, its backup, its temporary, its journal | save, load with recovery, append |
| Scheduler | `krabb-plugins/scheduler`, `lib.rs` `run_scheduler` | in the plugin: the table of schedules with status, next time, attempts and the outcome to report; in the daemon: up to four workers, `active_tasks` | `add`, `approve`, `pause`, `resume`, `run`, `retry`, `remove`, `claim`, `finish`, `reports`, `report`, `recover` |
| Plugin installation | `lib.rs` `link_at`, `update_*`, `recover_plugins` | directories of plugins and their backups, `plugins.lock`, `preview.json` | install, preview, update, roll back, remove, recover |
| Messaging plugins | `krabb-plugins/messaging/*` | the place in the provider's stream, what waits for an acknowledgement | poll, acknowledge, send, edit |
| Memory plugins | `krabb-plugins/memory`, `krabb-plugins/sqlite` | an index of what is remembered and a file per record | remember, forget, learning, search, index |
| Other plugins, terminal interface, command line | `krabb-plugins/*`, `krabb/` | credentials, notes, screens | generation, tools, drawing |

**Interactions.** The bridge of each channel, the IPC connections and the
scheduler loop are tasks of one process that share the store behind one mutex
(`Arc<Mutex<Store>>`). Each public method of the store holds the mutex, changes
the tables in memory and saves them (`Store::change`); a failed save rolls the
memory back. Between two such lock regions a task may wait for a plugin (poll,
send, model, tool), so every other task may run. Plugins are child processes
spoken to over pipes, one call at a time; they call back while they work.
Cancellations travel through a map of tokens, approvals through the approval
gate. Commands that install plugins are processes of their own, which share the
files and a lock with each other and speak to the daemon.

**What is hard here.**

- A turn spans many lock regions. Its lease (`inflight`) must outlive crashes,
  cancellations and client operations, and end with the turn.
- The bridge commits an event (moves the cursor, adds it to the seen set) in
  another lock region than the one that admits it; providers repeat updates.
- A send may be accepted by the provider without the daemon learning of it. A
  delivery in doubt must never be posted again on the daemon's own account.
- A turn that ran a mutating tool must not run again, whether it failed, the
  daemon stopped or the machine crashed.
- Turns share the processes of their provider and tools; what one leaves behind
  there is read by the next.
- An approval is given minutes after it was asked for, by someone else, in a
  chat; what it counts for must not have changed meanwhile.
- A client's reservation is a time limit on work whose length nobody bounds the
  same way.
- All queues are bounded; what happens at each limit differs (refuse, defer,
  drop the oldest, end the bridge).
- The scheduler plugin and the daemon share no memory: a claim, a finish or an
  acknowledgement may have been applied when its answer is lost, either side may
  be restarted, and a worker and the main loop report the same outcomes.
- The daemon serves from a catalog of record files, which it reads back as it is:
  whatever a crash leaves half-done, a lease or a delivery being sent, is found
  again in that state. (Only a flat `sessions.json` of an older version is repaired
  when it is opened, once, as it is turned into a catalog.)
- Sessions are counted in two ways: `ensure` counts the users' own, the bridge all,
  those of scheduled tasks with them.
- A plugin is a directory, a line of a lock file, a saved preview and perhaps a
  running process; an update changes them one after the other.
- Each messaging plugin turns another kind of delivery (a cursor, a socket that
  repeats, a history in pages, a command that takes messages for good, a webhook)
  into events handed over until they are acknowledged.

`PROJECT.json` lists the hazards at their lines with the properties that cover
them.

## 2. Modules

| Module | Models | Role |
| --- | --- | --- |
| `SessionStore` | the methods of `Store` on session records and outbox, and the limits on their number | operators, used by `ChannelBridge` and `SessionLease` |
| `ChannelBridge` | `bridge_with_media`, the turn and its streaming, the client requests that interfere, crash and restart | state machine over the store |
| `Outbox` | what the outbox promises for one delivery: posted once per send that was granted, and once more where a stop of the daemon cuts a send off | abstract specification of the store and its bridge |
| `SessionLease` | the reservation of a session by terminal clients, their tasks and cancellations | state machine over one session |
| `SessionCatalog` | `Store::change`, `save_catalog`, `load_catalog`: one change of the store over its files | state machine below the store |
| `FileStore` | `save`, `load`, `recover` of `krabb-libs/file`, call by call | state machine below the catalog |
| `AtomicFile` | a file that holds the old or the new content | abstract specification of the file writer |
| `Schedules` | the scheduler plugin and the daemon's loop, workers and reporting | state machine |
| `ApprovalGate` | `approval.rs` | operators, used by `AgentTurn` |
| `PluginProcess` | the pipe to a plugin and the worker behind it | operators, used by `AgentTurn` |
| `AgentTurn` | the loop of model and tool calls of two turns over shared processes and one gate | composition of the two above |
| `PluginFiles` | install, update, roll-back, removal, recovery and the daemon's own updates | state machine |
| `DiscordGateway` | the Discord plugin between Discord and the bridge | state machine |
| `SlackInbox`, `SignalInbox`, `WhatsAppInbox` | the inboxes of these plugins between the provider and the bridge | state machines |
| `Sorting` | a set of numbers in ascending order | operator, used by two of the inboxes |
| `MemoryStore` | the memory plugin: its index, its record files, its processes | state machine |
| `MC...` | values, symmetry and combinations for TLC | instances |
| `..._proofs` | see section 4 | proofs |

`ChannelBridge` takes one change of the store as one step; `SessionCatalog`
takes that change apart into files, each replaced atomically; `FileStore` takes
the replacement of one file apart into system calls. `AgentTurn` takes apart
what `ChannelBridge` and `SessionLease` take as the course of a turn. Each
assumes of the next what is checked, and found to have its limits, there.

### SessionStore and ChannelBridge

A session record has the fields of `Session` that decide something: `status`,
`queued`, `inflight`, `phase`, `stream` (`stream_delivery`), the reservation
(`lease`), and which messages the transcript holds. A delivery has a status,
whether its message exists at the provider (`edit`) and which text it carries.
The operators carry the names of the methods (`Queue` is `queue_with_roles`,
`Begin` is `begin_with_roles`, `ReplyDelivery` the delivery part of `reply`),
their refusals are operators of their own (`QueueFull`, `RemoveRefuses`,
`ReserveRefuses`). The two counts of sessions are `SessionsFull`, the users' own
against the limit (`ensure`), and `MapFull`, all sessions (the bridge, `lib.rs:7918`);
of the sessions of scheduled tasks only their number matters, at most
`ScheduledLimit`, and it may change at any time.

In `ChannelBridge` one action is one lock region and the control flow up to the
next await or lock; `pc` names where the bridge's task stands: `top` (drain the
outbox, pick an event), `admit`/`defer`/`commit`/`retain` (admission),
`begun`/`turn`/`pushed`/`stream` (the turn), `sidedefer`/`sidecommit`/
`sideretain` (events that arrive while a turn waits for an approval),
`failing`/`ack`/`reply`/`settle` (its end). Client requests of `ipc.rs`
(`CancelSession`, `DeleteSession`, `RetryDelivery`, `TuiReserve`, ...) may come
between any two of them. `Halt` stops the daemon, with or without the
interruption being recorded, and `Restart` opens the catalog again, which repairs
nothing. Where a new event finds the map full (`NoRoom`) the code goes on with its
admission all the same: if users' sessions alone do not fill the map, the session is
created and the turn begun (`BeginTurn`), and then the event is deferred, so that a
lease is left with no turn. The provider may repeat updates (`Redeliver`) and
answers a send with acceptance or with failure after having posted the message.

History variables record what no field of the program keeps: how often a
delivery was `posted` and `granted`, the `turns` of a message and the failures
that queued it `again`, what ran a `mutated` tool, what was `answered` and
`closed`.

### SessionCatalog

One session per event; a session is the stage its event has reached (`queued`,
`turn`, `done`), its record the pair of both. An operation changes the memory
(`Change`), then `save_catalog` writes the records, the client state, the
delivery records, the index of deliveries, the index of sessions, and removes
what no index names any more. Any file may fail, after having been replaced or
not, which rolls back the memory (`RollBack`) and leaves the files; the process
may die between any two.

### FileStore

`save` is write the temporary, journal "prepared", move the old file to the
backup, journal "backed up", install the temporary, journal "installed", remove
the backup and the journal; `recover` goes through the journals in any order and
puts back or installs what they say, then sweeps. `Torn` lets a crash fall
between the truncation of the journal and its write; `StuckMid` lets a save fail
after the old file was moved. Contents are the numbers of the saves that wrote
them.

### Schedules

`tasks` is the plugin's table (`Task` of `scheduler/src/main.rs`). The plugin
answers one request after the other and takes a change into memory only after it
was saved, so a request is one step and a restart of the plugin changes nothing
in the table. What a request does to a task is an operator (`Claimed`,
`Skipped`, `Succeeded`, `Failed`, `Paused`, `Cancelled`, `Interrupted`, and
`AfterRun` that chooses among them in the order of `finish`).

`run_scheduler` is a cycle, `place`: `recover`, if the plugin or its process is not
the one asked before; `reports` and `settle` (`process_pending_schedule_reports`);
`claim`, as long as a worker is free; `wait` for a worker, a change or a second.
A worker (`runs[r].stage`) executes, finishes until it is answered, shows the
report and acknowledges it; it stays a worker until the loop joins it. Every
request to the plugin has a variant whose answer is lost (`RecoverAnswerLost`,
`ClaimAnswerLost`, `FinishAnswerLost`, ...). Users' requests come between any two
steps. `SchedulerRestarts` is a new plugin process, `DaemonStops` the end of the
loop with all its workers.

History: how often an outcome was `recorded`; how often users `resumes` a task and what
they `held`; and for each run its occurrence (`due`), its `cause` and whether it
ran `early`.

### SessionLease

One session between terminal clients. A client reserves it (`session.start`, or
the push of its message), which gives it a `token`; each of its submissions
(`Kinds`: an answer, a shell command, a compaction) is a task of the daemon with
its own snapshot of the session. The reservation ends by its time
(`recover_reservations`), by the end of the task, by a tool exchange
(`push_with_status`), or by a client that leaves; a cancellation waits for the
task to notice. `last`, `acked` and `skipped` are the history the properties
speak of: whose message the transcript ends with, what a client was told, and
which messages a summary stands for.

### ApprovalGate, PluginProcess and AgentTurn

`ApprovalGate` is `approval.rs` as operators on a set of challenges: request,
decision by token or by button, the reply of a chat, expiry, purge and cancel.
`PluginProcess` is a pipe with a worker behind it: the calls sent and not yet
read, those whose caller has gone, the host call the worker waits for, and what
a discarded reply or the end of the process does to them.

`AgentTurn` runs two turns over one provider, one tool process and one gate. A
turn asks the model, which may call a tool itself (`host/tool`) or return tool
calls; each is looked up, approved as the mode of its kind demands (`prompt`,
`auto`, `off`; the proposal of a schedule runs as `auto` in every mode, `ModeFor`),
the lease is marked unsafe before a mutating call is sent, the
call has a time limit, and the turn ends in an answer, a failure that is queued
again only if it is safe, or a cancellation that stops provider and tools first.
What a `Setup` fixes is who runs the turns and what the models will ask for.

### PluginFiles

One plugin: the build in its directory (`dir`), the backups beside it, its line
of `plugins.lock` (`entry`), the saved preview, the lock of the commands
(`holder`), the process the daemon runs of it (`live`). A command (`cmd`) goes
through its steps: recover what an earlier one left, compare with the preview,
unload, move the old files away, install the new ones, save the lock file,
start, or roll back. `Automatic` is the daemon's own update as it starts. Builds
stand for version, revision and digest together.

### DiscordGateway, SlackInbox, SignalInbox and WhatsAppInbox

Four ways from a provider to the bridge. `DiscordGateway` has the numbered
dispatches of a session, the socket (`wire`), the dispatches kept on disk while
an event waits for its acknowledgement, the saved cursor, and the bridge's
poll-and-acknowledge cycle with its retries.

`SlackInbox` has one channel whose messages carry the timestamps 1, 2, ...; some
come over the socket (`envelopes`, repeated until Slack gives up), all are in
the history. `SocketPoll` and `HistoryPoll` fill the inbox, each when nothing is
pending; the watermark (`channel`, `scanned`), the cursor of a history read only
in part (`below`) and the memory of what the socket brought (`socket`) decide what
the next request asks for. Whether Slack, given a cursor, minds the `oldest`
of the first request is left open (`since`).

`SignalInbox` has the steps of one `poll`: `ClearRedundant`, `Receive`, `Spool`,
`StageSpool`, `ClearSpool`, `AnswerPoll`, each of which may fail, and the process may
end before any. `WhatsAppInbox` has webhook requests with several messages,
repeated when the answer is lost, and the ledger of ids that is larger than the
queue.

### MemoryStore

A process holds the whole `State`; a call that changes it (`Remember`,
`ForgetKey`, `SetLearning`) writes the record files one by one (`WriteRecord`),
then the index (`WriteIndex`), then removes the files of what is gone
(`RemoveOrphan`). Replacing a record file takes two steps: the old file is moved to its
backup (`MoveRecord`), then the new one put in its place. The index is loaded with
the recovery of `krabb_file` and so is taken as atomic; the records never are, so
one that was moved away stays away. A file that cannot be written refuses the call
(`Refuse`), the process may end at any step; `broken` remembers what either leaves
moved away, until a save that is done has written all records again. The value of an entry is the number of the call
that saved it; `recent` remembers the order of what was remembered last.

### Instances

`MCBridge`, `MCStorage`, `MCStores` (that and the schedules), `MCPlugins` and
`MCLive` hold several systems that share
nothing: the variable `part` (`scheduled`) says which of them moves, the others stay in an
initial state that is fixed for them. This lets one run of TLC answer for all of
them; it adds no behaviours and takes none away. `MCBridge` has the bridge three
times: with the constants of the run (crashes), with the instance `Calm` over
the same variables (cancellations, an operator, a reservation), and with `Full`
over variables of its own (everything at its limit, with a scheduled session
between the two counts of sessions; it instantiates
`ChannelOnce_proofs`, so that the theorems about the bridge hold of it too). `MCChannelBridge`,
`MCAgentTurn`, `MCDiscordGateway` and `MCSchedules` only give values; `MCInboxes`
combines three inboxes in the same way.

## 3. Runs

| Run | Checks | Shows |
| --- | --- | --- |
| `bridge` | `TypeOK`, `NoEventLost`, `PostedOncePerStop`, `LeasesLostTwoWays`, `OutboxPromise`, `UnsafeNeverReplayed`, `CancelMeansStopped`, `HandledOnce` | the channel bridge with two stops anywhere, after which the catalog is read back as it is; and, without stops, with a failing turn, a cancellation, an operator's request and a reservation |
| | `KeptAtLimits` | repeated updates of three events in two chats against one user's session, one scheduled session, one queue slot and one deferral slot: nothing committed is lost, nothing queued beyond the limit, and nothing handled twice as long as no lease has lost its turn |
| | `RecordsKept`, `NewestKept` | a process of the memory plugin with four changes, a failing file, a clock that goes back, and its end at any step |
| `storage` | `LoadAllowed`, `Atomic` | four saves of a file with crashes, failing calls and interrupted recoveries; the writer implements `AtomicFile` |
| | `SuccessKeptOverLeftovers` | with torn journals and failures at any call, leftovers do not replace a later success while no other save has begun |
| | `AlwaysReadable`, `EventKept`, `AnswerKept` | every interleaving of operations, crashes and failing files of a save of the whole store |
| | `OwnersMessageLast`, `NothingElseSkipped`, `CancelWaits` | two submissions of terminal clients in one session, which may leave, be cancelled or outlive their reservation |
| | `SchedulesTypeOK` with the attempts, `OutcomeRecordedOnce`, `ReportNotLost`, `ReportedOnce`, `OccurrenceRunsOnce`, `HeldNotRun` | three runs of a schedule with a lost answer, a dead worker or a restart, and what a user asks for in between |
| `plugins` | `WaitsForSomething`, `ApprovedOnly`, `MarkedFirst`, `RequeuedHasNoEffect`, `OwnWorkOnly`, `CancelledStops` | two turns over shared processes and one gate |
| | `InstalledAsLocked`, `NeverOlder` | two command lines and a starting daemon at the files of one plugin |
| | `NothingSkipped`, `InOrder` | three dispatches of Discord with failures and kills, or lost answers, or a second session |
| | `MessagesKept` | what Slack or Meta has let go of, or what has reached the spool of Signal, is in the inbox, readable again or accepted, and does not come twice |
| `live` | `EventuallyClosed`, `FreeInTheEnd` | every permitted message is in the end answered, dropped by a cancellation or reported as failed; no terminal session stays reserved |
| `lost_lease`, `cancel_retried`, `posted_twice`, `torn`, `interrupted`, `discarded`, `overrun`, `skipped` | one property each, violated | the disagreements of section 6 |

**Bounds.** `MaxFails`, `MaxCancels`, `MaxCrashes`, `MaxClientOps`,
`MaxReserves` bound how often the environment interferes with the bridge;
without them the model has no end, and each property of the bridge needs at most
two interferences on one message to be violated: the violated runs need one or
two, and every mutant listed in `PROJECT.json` is found within them. Two events
are enough for one message behind another in a queue and one arriving during the
other's turn; the third event of `Full` is the one that meets the full deferral
list. The limits (`QueueLimit`, `OutLimit`, `SessLimit`, `DeferLimit`) are 1 or 2
where the program has 100 or the like, so that they are reached.

In `storage`, two events of the catalog give saves with one record to write and
one to leave alone. Four saves of the file are two failed ones with their
leftovers, one that succeeds and one under way; three, where every call may
fail, are one each. Two submissions are an owner and the one that comes after or
between.

In `plugins`, two turns are the least that can meet in a process or in the gate;
the gate holds one challenge (`GateLimit`), so the second finds it full. A
`Setup` lets a model call nothing, a mutating tool and then the proposal of a
schedule, or a harmless one before a mutating one. Three builds give an update over
an update; two operations and one failure or crash are a command cut off and the one
that recovers. `SomeTroubles` lets one kind of trouble happen to Discord at a time; with a lost answer and a kill
together `skipped` shows a message that is passed over. A page of
Slack's history (two) is smaller than the channel (four), the memory of the
socket (one) smaller than a page. WhatsApp's ledger (three) is larger than the
queue (two) and smaller than what is sent (four), so that it forgets.

The memory plugin has four keys, keeps three of them and shows two, so that
entries give way and are left out; the clock may say 1 after 3.

One task is enough for the schedules in `storage`, since tasks meet only in the
choice of the one due longest and in the number of workers, and a task's own runs
are what interfere: three runs give a first one whose worker lingers, a second and a
third. `MaxFaults` (one) lets an answer be lost or a process restart at any place,
`MaxTime` (one, with a period and a backoff of one) has an occurrence missed and made
up for, one request is a user's pause, removal, retry or run between any two steps,
and `ReplayLimit` is one where the code has five. Two faults with `MaxTime` two, and
two requests with one fault, for two and for three runs, hold as well (up to ten
million states, more than a run is given here), and each of the six properties is
proved for all values (section 4). `Backoff` is a constant where the code doubles it
with each attempt.

Deadlock is checked in `storage`, where something can always go on. It is not
checked where the system may come to rest: when all messages are handled and the
bounds are used up.

**Fairness.** Only `live` uses it; each condition holds for the part that moves.
`WF(Bridge)`: the bridge is a task of the runtime, and each of its awaits is a
plugin call with a timeout or a lock. `SF(TurnEnds)`: a turn may go through tools
and streaming for as long as it likes, but `TURN_LIMIT` (300 s) ends it.
`WF(Arrive)` says only that the messages the property speaks of do arrive.
`WF(ReservationExpires)`: a reservation has an end in wall-clock time and is not
renewed by a client that left; the model bounds the reservations taken. For the
terminal clients, the tasks of the daemon go on and end by their time limits,
and a reservation expires; nothing is assumed of the clients themselves. No
fairness is assumed of operators or restarts, and `live` has no crashes: after
one, `lost_lease` shows that a message may wait forever.

## 4. Proofs

TLAPS checks, for every number of sessions, events and limits:

- `TypeCorrect`: the bridge keeps its types. Its lemmas on the store
  (the first part of `ChannelBridge_proofs`) say what each method does to a queue and to a record;
  queues are sequences, so the facts about removing a message from the middle of
  one carry the weight.
- `NothingLost`: over any number of failures, cancellations
  and crashes an event that the bridge has committed is with its session, deferred
  or closed. The invariant (`IInv`) says which events the bridge answers for: those
  it has seen are those below its cursor (`Cut`), and one it has seen is in the
  queue or the turn of its session, deferred or closed, as is one in a transcript
  (`Kept`), since that is what the store deduplicates by; nothing beyond the cursor
  is owned or deferred (`Low`), so that an event read later is new; a session that is gone owns
  nothing (`Gone`). Two parts are about the bridge's own position: that the event
  it is about to commit is owned and the one it is about to retain is deferred
  (`InHand`), and that its batch is consecutive (`InOrder`), without which
  committing an event would move the cursor past one that nobody
  owns. The theorem has no condition: the catalog trims no queue.
- `LeasesAreLostTwoWays`: what is left of the claim that `lost_lease` violates. A lease
  comes to be without its turn only where the daemon stops during the turn, or in
  `NoRoom`, where a turn is begun for an event that is then deferred; every other
  step keeps lease and turn together (`StepMovesLease`), whatever fails, is cancelled
  or is asked for. `QueuesBounded`: a queue keeps within its limit, since the one
  that queues a message again counts the running turn (`Fits`).
- `MessagesHandledOnce`, `UnsafeStaysOver` (`ChannelOnce_proofs`): until the daemon
  stops or a lease loses its turn (`Undisturbed`) a message has one turn and one more for every failure that queued it
  again, its answer is stored or delivered, it is never queued twice, and after a
  turn with effects it has no other; and over restarts too, such a message is not
  put back into the queue. The first invariant (`Once`) counts: an event that is
  queued, or that the bridge does not know yet, has a turn left (`HasTurnLeft`); a
  queued one is known, or is the one in hand and about to be; and the one whose turn
  runs has none left. So a repeated update is either new, and then was never begun,
  or known and dropped; a queued event is begun as the one picked; and only
  `TurnFailed`, which counts, queues one again. `Spent` adds that the lease of
  a turn with effects says so while the turn goes on, which is what `TurnFailed` reads.
  The second (`Answers`) follows the text: before its first turn a message has no
  delivery, during it only the stream of that turn, and what is sent as an answer
  counts as told; so no other text can replace a first turn's answer. How
  the steps change the sessions is said once (`Eases`, `TakesIn`, `Begins`).
- `OnlyFailureUndoesCancel`, `CancelFinalWithoutFailure`: what is left of the claim
  that `cancel_retried` violates. While `Undisturbed`, no step but that of
  the failure path of a turn (`pc = "failing"`) puts the message of a cancelled turn
  back into its queue; so where no turn fails either `CancelIsFinal` holds. The first
  follows from the invariant of `MessagesHandledOnce`: the event of a turn is not in
  the queue of its session, so one that gets there is no longer that of the turn
  or came by a failure. That the daemon was not restarted is needed: after a
  restart the provider may repeat the message during an approval wait, and what
  comes then is queued without being compared (section 6).
- `CancelsAreTrue`: the invariant is that a turn being acknowledged has been cleared
  (`ClearedFirst`: no client and no other step of the bridge gives its session a
  lease) and that a client waits only while its request stands
  (`WaitsForRequest`), so that no time-out is taken for an acknowledgement.
- `OutboxRefined`, `PostedOnceForEachStop`: the bridge, its stops included, implements
  `Outbox`. There a send that a stop has cut off (`cut`) may be sent again by the turn
  that follows, which is what the code does and `posted_twice` shows; every other send
  in doubt waits for an operator. The invariant is `TypeOK` with
  `SenderKnowsDelivery`: while a send or a stream is under way, its delivery has the
  status that the bridge left, or was dropped by an operator; without it a failing
  send could mark a delivery that someone else has changed. `PostedOncePerStop` then
  follows from `PromiseNeverDuplicates`, which is about `Outbox` alone: a stop cuts off
  at most one send of a delivery, and what was posted is within what was granted and
  these.
- `LoadsAllowed`, `FileIsAtomic`: with whole journals and no failure half-way
  (`Whole`; section 6 shows that both are needed), a load returns the
  content of the last save that succeeded or of one begun since, and the writer
  implements `AtomicFile`. The invariant relates the state of the current
  save's journal, temporary, backup and file to its phase (`Progress`), bounds
  what the file may hold (`FileInReach`), and says that the leftovers of other
  saves are in a state that recovery will not install from (`OthersQuiet`).
- `SuccessOverLeftovers`: with torn journals, failures at any call and any number
  of leftovers, what a successful save or a load has settled is what is loaded
  until another save begins. The invariant (`SuccessInv`) says that only a save
  adds to the contents a load may return, and never leaves just its own before it
  has succeeded (`SaveInPlace`); and that where one content is left the file holds
  it, or there is no file and no journal (`OnlyOneLeft`), so that recovery has
  nothing to move, whatever it finds.
- `CatalogReadable`, `EventsKept`, `AnswersKept`: over crashes and failing
  files the catalog keeps what it promised. The invariant adds to the three
  properties how far the save has got (`Reached`), that neither the memory nor
  what a failed save restores is ahead of the files (`NothingAhead`), and that an
  answer is in memory, on disk and in what would be restored (`AnswersHeld`);
  each is needed because a failed save leaves files newer than the memory, from
  which the next save starts.
- `OneOutcome`, `OutcomeKept`, `OneNotice`, `HeldTasksWait` (and the types):
  for any tasks, runs, faults and requests, an outcome is recorded once, stays
  with its task until it was shown, and is shown once; a task held by a user is
  not claimed. The invariant says that the `run_id` of a running task is a leased run
  of that task without an outcome, and no report of it is pending (`RunningRun`);
  that `finished_run_id` is a run of it with one (`FinishedRun`); that leases not
  yet given out have left no trace (`LeasesFresh`); that what the loop or a worker
  is about to show was recorded, and what it is about to acknowledge was shown
  (`ReportsKnown`); that a held task is stopped or is about to be
  (`HeldStopped`); and, for the bound on attempts, that a task that may be claimed
  has one left (`AttemptsLeft`). They are needed because `finish` and `recover` compare IDs
  and the daemon reports what it read earlier. The argument for `OutcomeKept`
  is that `ready_for_claim` waits for the acknowledgement, which follows
  the notice. The assumption is `ScheduleAssumption`: finite, non-empty tasks,
  bounds that are numbers and a period above zero.
- `OccurrencesRunOnce`: an occurrence that was run when it was due is run again
  only as a retry or because a user asked. With the invariant above goes `PastRuns`:
  the due time of a task is never before that of such a run, and where they are
  equal an active task is to be retried or was asked for (`finish` and `claim` move
  it on, `recover` and a failure pause the task). Runs that a user had ahead of
  time are exempt: the task keeps its due time and runs then.
- `LiveRunsKeptByOneWorker`: when the claim that `interrupted` violates holds. As long
  as no task has two workers (`OneWorker`), recovery leaves every run in progress
  alone, whatever dies, is lost or asked for. The invariant (`Registered`) is that
  what is worked on is in `active_tasks`, which recovery leaves out; a second worker
  breaks it, since joining either takes the task out for both.
- `MessageLast`, `SkipsNothing`: for any number of submissions, cancellations and
  clients that leave. That an owner's message is followed by nothing of others
  (`LeaseKept`) needs that whoever owns the session has a working session with a
  deadline (`LeaseTypeOK`), so that a tool exchange and a stored answer take the
  reservation from its owner, and that only a submission that has reserved the
  session can be its owner or the holder of a summary: otherwise a new reservation
  could fall to the holder of a summary that has missed something.
- `CancelsWait`: the invariant (`TurnsStopped`) is that the token in use is not an
  acknowledged one, that the turns a request was to stop have begun, and that they
  have stopped when its token is acknowledged: the turn that acknowledges has
  ended, and was the only one unless turns have overlapped, which `overrun` shows
  they may.
- `OneTurnUndisturbed`: in which ways they may. For any number of submissions, one
  terminal turn of a session runs at a time if none of five things happens
  (`Undisturbed`): a turn under way is cancelled; its reservation runs out; its client
  leaves and may give the session back; another client reserves the session between
  the two steps of a tool exchange; or between an answer and the step that sets the
  session idle whoever has it. The invariant (`Alone`) is that at most one turn
  is unfinished, and that while it is under way nobody else owns the session, which is
  `working` except between the steps of a tool exchange.
- `OnlyApproved` (of every mutating call but the proposal of a schedule, which the code
  exempts from approval), `LeaseMarkedFirst`, `RequeuedUntouched`, `OnlyOwnWork`,
  `NoLostWait`, `NothingAfterCancel`: for any number of turns, setups and limits that fit
  `TurnAssumption`. The invariant (`Inv` of `AgentTurn`) says of a turn which calls it
  still has and what was approved and marked for the one in hand (`Sound`), that one
  that waits at the gate has a pending challenge or a decision (`Heard`), and what
  of its requests is in the pipes (`Backed`). For turns of the bridge, which come
  one after the other (`OneByOne`), it adds that between them the tool process is
  empty, because a turn that ends early has it restarted, and that within one it
  holds that turn's request alone (`Tidy`): so a late reply has no one else to
  reach. The lemma `KeptPlan` says that `keep_one_mutation` leaves a prefix of the
  calls with at most one that mutates.
- `OnlyDroppedCallsMix`: the same for turns of terminal clients too, which cross each
  other and the bridge's and after which nothing is restarted. Where no turn ends,
  and no client leaves, while the provider owes it a reply (`CallDropped`), every call
  is carried out for the turn whose request made it, each turn takes its own
  reply, and `DiscardedStays`, which `discarded` violates, holds. The invariant
  (`Separate`) is that one turn at a time reads from the provider, and finds its one
  request there and nothing else, and that when none does the process is empty or
  dead; it needs no order of the turns. Dropped calls are what breaks it: TLC finds
  a call carried out for another turn with each of the kinds by itself (cancelled,
  timed out, its client gone).
- `RecordsAlwaysKept`: for any keys, limits and clock, a process of the memory
  plugin that is alone never has a record file older than its entry of the index, and
  serves nothing but its index. A file may be missing only while a save is replacing
  it (`away`), or where a save was refused or cut off in just that step (`broken`),
  until the next save is done: see section 6. The condition is `OneProcess`;
  section 6 says what two do to each other. The invariant (`RecordsInv`) adds
  that a State being saved has no entry older than that of the index and no value
  of a call not made (`Advances`), that the record files it has written so far
  hold its values or later ones, and that what is left to remove has no entry in
  the index: a record is replaced before the index, so its file may be newer.
- `NewestAlwaysKept`: under the same condition, and for any `INDEX_LIMIT` of two or
  more (the code has 32). The history `recent` holds for each key the call that last
  remembered it; the invariant (`RecencyInv`) says that the index and what is being
  saved have just those values (`Told`) and that their times are in the order of
  the calls (`Ordered`), which `next_timestamp` keeps also if the clock goes back. So
  the entry with the least time is the one remembered before all others. The
  lemma `NewestSize`, that the n newest of a set are n or all of it, counts what a
  turn is shown; with an `INDEX_LIMIT` of one the entries of the chat would leave no
  place, or only that, to a global one that is the last.

- `UpdatesNeverOlder`, `InstalledWhereOneIsLeft`, `InstalledAfterOneFault`: for any
  number of commands, builds, failing calls and crashes. The invariant (`Basis`)
  says that only the holder of `.plugins.lock` is between moving files and
  releasing it (`Locked`), that a backup carries the number of the one command that
  made it (`Numbered`), what the holder has put where (`Replacing`), and that what it
  will write is no older than what it found (`Newer`), because the comparison with
  the lock and the lock's acquisition are one step: so an update never brings an
  older build. `Undisturbed` adds that the files are those of the entry, or the
  directory is missing after a crash and a backup of that build is left. It is kept
  as long as recovery has no choice (`OneToRestore`): a backup whose removal failed
  and one that a crash left may be there together, and then `recover_plugins` puts
  back whichever `read_dir` names first (section 6). With one fault between two
  recoveries (`OneFault`) there never are two, which is the bound of the run.
- `InboxesKeepMessages`: a message that Slack or Meta has let go of, or that has reached
  the spool of Signal, is in the inbox, readable again or accepted, for any number of
  messages, pages, repetitions and files that cannot be written or removed. (A spool
  that cannot be read is removed by the code, section 6; the model takes it to be
  readable.) For Slack the invariant (`Sound`) says that every message not
  yet known lies above the watermark, or below the page the history was read down to
  and above the mark it started from, and that an entry from the newest page stands
  for everything before it. For Signal (`SignalInv`) the spool, the inbox and the
  answers under way divide what has been received. For WhatsApp (`Ordered`) an id in
  the queue is in the ledger, the ledger is in the order of acceptance, and an id it
  has forgotten has more than `IdLimit` - `QueueLimit` messages behind it. This needs
  `QueueLimit <= IdLimit` (256 and 1024 in the code). What staging a batch does is
  shown by the least number of messages at which it would fail.

- `NothingIsSkipped`, `CommittedInOrder`: for any number of dispatches, any limit of
  kept ones and any amount of trouble of one kind (`OfOneKind`), that is polls whose
  answer the bridge does without, or failing calls and killed processes, both in
  one session; or any number of sessions. Two kinds together do lead past
  messages: `skipped` has lost answers with a kill, and for a second session with
  a kill see section 6. Each kind has an invariant of its own. In one session (`One`) a dispatch that was
  read and is owed, a message not committed, waits for its acknowledgement or is
  kept (`FromSocket`), what is owed before a kept one is kept before it, or is the
  waiting one as long as that cannot be lost (`InQueue`), and the places from which
  the plugin may resume are below everything owed (`Caught`). Over several sessions
  (`Many`) nothing waits between two polls (`AtHand`), since nothing fails, and
  what was read of the last session is committed, but for what is dealt with
  (`Followed`). Either way the event that is committed next is the first that is owed
  (`CommitsNext`), from which the order follows.

- `LimitsKept`: what `NothingLost`, `MessagesHandledOnce` and `QueuesBounded` say of
  every instance they say of `Full`, whose sessions, queues and deferred events are
  at their limits, with a scheduled session between the two counts: `LimitsFit` shows that its constants satisfy the assumptions, and
  a step of `MCBridge` is one of `Full` or leaves its variables alone.

Each of the eight claims that a run shows violated has a theorem that says when
it holds, or which steps alone break it: `LeasesAreLostTwoWays` (`lost_lease`),
`OnlyFailureUndoesCancel` (`cancel_retried`), `PostedOnceForEachStop` (`posted_twice`),
`LoadsAllowed` (`torn`), `LiveRunsKeptByOneWorker` (`interrupted`),
`OnlyDroppedCallsMix` (`discarded`), `OneTurnUndisturbed` (`overrun`) and
`NothingIsSkipped` (`skipped`).

Only model-checked: liveness (`EventuallyClosed`, `FreeInTheEnd`), which is out of
the prover's reach: it rests on fairness and so on ENABLED.
`NoSecondMessage` is stated until a stop only: after one an event that was
queued and not yet committed is delivered again during its own turn.

## 5. What is abstracted, and what is not modelled

- The bridge's channel has its cursor in the event id (Telegram). Channels whose
  gateway is acknowledged take the same path with one call more, which is left
  out of `ChannelBridge` and is at the other end of `DiscordGateway` and the
  inboxes.
- In `ChannelBridge` a turn is its calls of the store: model, tools and approvals
  are the choice between tool, stream, approval wait, failure, cancellation and
  answer. `AgentTurn` has the calls and leaves out the store, and with it notes,
  text streams, compaction and memory before the turn, the stop of the daemon,
  torn writes to a pipe, colliding ids of tool replies, and a reservation that
  expires before a mutating call.
- After a restart an event that the provider repeats may be queued and begun once
  more, and one whose lease `NoRoom` left without a turn, which is also deferred, may
  be queued again: `HandledOnce` is stated until the first of either.
- The flat `sessions.json` of older versions, and what opening it repairs
  (`state.rs:245`), is left out: the daemon opens the catalog, and reads the flat file
  once, as it makes a catalog of it (`state.rs:2227`).
- A change of the store is one step in `ChannelBridge`. That a change may fail is
  in `SessionCatalog`, where the operations are not interleaved with the bridge's
  awaits. Wall-clock time is a choice: a reservation may expire at any moment.
- `FileStore` assumes that renames reach the disk in order, that the removals of
  recovery succeed, that a process loads before it saves and that one process
  writes a file at a time. `append`, permissions and credentials are left out.
- `SessionCatalog` assumes that a single file is atomic, which `FileStore` shows
  under its conditions for files that are loaded with recovery; so do the inboxes, and
  `MemoryStore` for its index alone. The migration of older layouts is left out.
- `SessionLease` leaves out `session.append` without a reservation and every
  request that only reads.
- `Schedules` has tasks that a terminal session created, whose reports go into
  that session, and takes the session to exist and to keep its notices. All tasks
  fit into one page of reports. The lock on a workspace and the monitor that looks
  for a removal are folded into `Execute`, whose outcome is any of the four a run
  may have. Listing, the import of timers, validation and the limit on tasks are
  left out.
- `PluginFiles` has one plugin; staging, sources and permissions are left out,
  looking at a process and starting it are one step, and a second failure while
  rolling back is left out. `Forms <- {FALSE}` leaves out linked plugins.
- `DiscordGateway` leaves out heartbeats, attachments and the limit on bytes.
- The inboxes leave out attachments, limits on bytes and the pacing of requests.
  `SlackInbox` has one channel: channels meet only in the capacity of the inbox
  and in the limit on remembered events. `SignalInbox` assumes that a file that is
  there can be read.
- `MemoryStore` leaves out search, listing, audit and older layouts, the
  recovery that a load runs while another process saves, and a save of the index that
  fails after it has put the new file in place (section 6).
- The Telegram plugin keeps no state. The sqlite plugin runs one statement at a
  time in a database with its own transactions. Intelligence and tool plugins,
  the bridges to other protocols, the terminal interface, the support libraries
  and the command line are I/O and conversion: what they do to the daemon's state
  goes through the calls modelled here. `PROJECT.json` lists each component with
  what is left out of it.

## 6. Disagreements between code and documentation

Documents are in `krabb-docs/` where no other path is given.

| Run | The code | The documents |
| --- | --- | --- |
| `lost_lease` | the catalog is read back as written; a lease cut off by a crash stays and its session refuses every later turn | `concepts.md:73` |
| `cancel_retried` | a cancellation between two lock regions of the failure path is overwritten and the message queued again | `concepts.md:75` |
| `posted_twice` | the failure notice of a first attempt, cut off by a stop while it was sent, stays `sending` in the catalog, and the turn that tries the message again sends it once more (`lib.rs:8418`) | `architecture.md:121` |
| `torn` | the journal is rewritten in place; a crash in between loses the file | `architecture.md:137` |
| `interrupted` | joining the worker of an earlier run takes the task out of `active_tasks` while a later run is in progress; after a restart of the plugin that run is recorded as interrupted | `krabb-plugins/scheduler/src/main.rs:2312`, `krabb-plugins/scheduler/README.md:50` |
| `discarded` | a cancelled turn of a terminal client leaves its request in the provider; the calls of that request are carried out as those of the next turn | `safety.md:48` |
| `overrun` | a reservation ends after 120 s or at a tool exchange while its turn runs; another client's turn starts beside it | `concepts.md:38` |
| `skipped` | a dispatch kept on disk overtakes the event that waited in memory when the plugin starts again; its acknowledgement moves the cursor past that event | `krabb-plugins/messaging/discord/README.md:13` |

More of the kind was met while modelling; no run is kept for these.

*Bridge and store*

- `NoSecondMessage` with the constants of `lost_lease`, two sessions,
  `QueueLimit = 2` and the first event in another chat: events that arrive during
  an approval wait are not compared with the transcript and the running turn
  (`lib.rs:9926`), against `concepts.md:68`. A message that was cancelled comes back
  the same way if the provider repeats it after a restart.
- `LeaseHasTurn` with `SessLimit = 1`, `ScheduledLimit = 1` and `MaxCrashes = 0`: with a
  scheduled session in the map the bridge takes it as full (`lib.rs:7918`) where `ensure`
  does not (`state.rs:424`), begins the turn (`lib.rs:8019`) and defers its event
  (`lib.rs:8056`). The lease stays without a turn and holds up the session as that
  of `lost_lease` does; a deferred event does not count as known, so if the provider
  repeats it during another turn's approval wait it is queued behind its own lease.
  The test at `state.rs:2796` has the scheduled sessions outside the limit, but only
  for `ensure`.
- A delivery that a stop found `sending` stays so, out of reach of the bridge (which
  takes `pending`) and of `delivery.retry` (which takes `uncertain`), unless its message
  is tried again.
- `AnswerNotLost` without its first disjunct: when the failure notice of a first
  attempt is in doubt, `reply` of the retried turn finds a delivery under its id
  and keeps the old text (`state.rs:1120`).
- `ReplyWithTranscript` with the constants of `storage`: the index of deliveries
  is replaced before that of the sessions (`state.rs:2456`), so a crash in between
  brings back the reply in the outbox and its session still in its turn.
- `LoadAllowed` with `StuckMid = TRUE`: recovery takes journals in directory
  order, so the backup of an older failed save may win over the content of a later
  one (`krabb-libs/file/src/lib.rs:251`).

*Terminal clients, approvals*

- `OneTurnAtATime` with three submissions: a stored answer takes the reservation from
  its owner, another client may reserve the session at once, and the first one's last
  step sets the session idle (`ipc.rs:375`), for the third to start beside the second.
- A second `session.cancel` succeeds while the cancelled turn still runs
  (`concepts.md:77`); a cancelled shell command is never acknowledged and its token
  stays among the cancellations; a tool exchange gives up the reservation, so a
  later `/approve` cannot write its note; what a compaction stands for is taken
  when it is stored, not when it began.
- A turn waits until the whole gate is empty, not only its own challenge; an
  approval within a call of the provider has that call's 120 s, where the
  documents say five minutes.

*Plugin files*

- A linked plugin updated from a preview is copied (`lib.rs:16403`) while its
  entry still says `linked`, so its binary is refused afterwards (`lib.rs:14630`,
  against `plugins.md:229`). `Forms <- {TRUE, FALSE}` has it.
- A crash between the replacement of the files and the save of `plugins.lock`:
  recovery deletes the backup, and the files are newer than their entry (`cut`).
- `plugin update --yes` uses the preview that an earlier one left, and a second
  one fails as stale (`workflows.md:55`).
- Two backups of a plugin whose directory is missing are put back in directory
  order (`lib.rs:6672`), so the older one may be taken: `MaxFaults <- 2` has it, with
  a backup that could not be removed and a crash before the next recovery.
- A scheduled task, a starting daemon or another command may start the plugin
  between its unloading and its replacement (`plugins.md:243`); an update that
  fails as the daemon starts keeps it from starting (`product.md:170`).

*Messaging and memory plugins*

- Discord: a new session is saved with the number of the old one
  (`Troubles <- Renumbered`); the end of the plugin between an answer and its
  acknowledgement makes every retry of it stale and ends the bridge.
- Signal: what `signal-cli` printed is removed with the temporary file when it
  takes too long, fails or prints too much (`main.rs:541`), and a spool that
  cannot be read, for whatever reason, is removed (`main.rs:725`): the server has
  let go of those messages (`krabb-plugins/messaging/signal/README.md:14`).
- Slack: requests with a cursor name no `oldest`; should Slack then not mind that
  of the first request, a backlog larger than the inbox is fetched over and over.
  A cursor that Slack refuses is tried for ever. Event ids are timestamps, unique
  in their channel only, where the daemon deduplicates by plugin and id.
- Memory: `krabb memory` commands (`lib.rs:14285`) and one-shot questions
  (`lib.rs:2485`) start processes of their own. The daemon's keeps the State it
  has read and writes all of it at its next save, so what a command forgot is
  still served and comes back, and a learning mode set by a command is reverted
  (`product.md:127`). `RecordsKept` and `NewestKept` fail with
  `Procs = {"daemon", "command"}`; hence the condition of the theorem. Record
  files of forgotten entries stay after a crash or a removal that fails.
- Memory: a save of a record moves the old file to its backup first
  (`krabb-libs/file/src/lib.rs:104`); refused or cut off there it leaves the index naming
  a file that is missing, which no load brings back, since only the index is loaded
  with recovery (`krabb-plugins/memory/src/main.rs:620`). The next save that is done
  writes all records again. A save of the index that fails after its file is in place
  is reported as refused, though the next process reads the new index.

Hazards of the code that `PROJECT.json` does not list, since no property is near
them: the outbox filling up while a turn runs ends the bridge with its reply
(`lib.rs:8399`); an event deferred while all session slots are taken is retried
for ever at the head (`lib.rs:7586`); the unsafe phase of a scheduled turn is
cleared before its answer is appended (`lib.rs:6277`); a finish that recovery has
overtaken is refused for ever (`lib.rs:5619`); a claim whose answer is lost is
found by recovery only (`lib.rs:5315`); a report to a channel is deduplicated
against the outbox only (`state.rs:704`).

## 7. What is left

1. `DiscordGateway` with trouble of two kinds: under which conditions on their order
   a message is still not passed over.
2. `Schedules`: reports to channels through the outbox; the turn of a scheduled
   task (`execute_scheduled_task`); that every claimed run ends and every due task
   is claimed, under fairness of the joins.
3. The services of the operating system and their roll-back (`lib.rs:12942`), the
   restart of the daemon, and rename, fork and worktrees of sessions in
   `state.rs`.
4. `ChannelBridge` with gateway acknowledgements, composed with `DiscordGateway`,
   and several bridges on one store.
