------------------------------- MODULE Schedules -------------------------------
(***************************************************************************)
(* Scheduled tasks: the scheduler plugin that keeps them                   *)
(* (krabb-plugins/scheduler/src/main.rs) and the daemon loop that runs     *)
(* them (run_scheduler and what it calls in krabb-runtime/src/lib.rs).     *)
(*                                                                         *)
(* The plugin answers one request at a time and swaps its memory only      *)
(* after the file was saved, so a request is one action, and the table is  *)
(* what a restarted plugin loads.  A request of the daemon may be applied  *)
(* and its answer lost (a timeout, a plugin that died); one that is not    *)
(* applied at all changes nothing but what the caller does next.           *)
(*                                                                         *)
(* A run is known by its lease.  Its worker executes it, records the       *)
(* outcome until the plugin accepts it, shows the report in the session    *)
(* it came from, and acknowledges the report.  The main loop does the last *)
(* two for the reports it finds pending, and the two may meet.             *)
(***************************************************************************)
EXTENDS Naturals, FiniteSets

CONSTANTS
  Tasks,        (* schedule IDs                                              *)
  Policies,     (* what a schedule may be created with                       *)
  MaxRuns,      (* leases given out, a bound                                 *)
  MaxTime,      (* the clock, a bound                                        *)
  MaxFaults,    (* lost answers, dead workers, restarts: a bound             *)
  MaxRequests,  (* what users ask of schedules they created, a bound         *)
  Concurrency,  (* SCHEDULE_CONCURRENCY                                      *)
  Period,       (* of a recurring schedule                                   *)
  Backoff,      (* of a retry, which the code doubles each time              *)
  ReplayLimit   (* missed occurrences that are made up for                   *)

Policy == [kind : {"once", "every", "cron"}, missed : {"skip", "coalesce", "replay"},
           on_failure : {"pause", "continue"}, retries : Nat, delay : Nat]

ASSUME ScheduleAssumption ==
  /\ IsFiniteSet(Tasks) /\ Tasks # {} /\ Policies \subseteq Policy
  /\ {MaxRuns, MaxTime, MaxFaults, MaxRequests, Concurrency, Backoff, ReplayLimit} \subseteq Nat
  /\ Period \in Nat \ {0}

RunIds == 1..MaxRuns

Never == MaxTime + Period + Backoff + 1

VARIABLES
  tasks,      (* the plugin's table                                          *)
  runs,       (* the runs, as the daemon's workers know them                 *)
  active,     (* active_tasks                                                *)
  daemon,     (* whether it is up                                            *)
  place,      (* where run_scheduler is                                      *)
  recovered,  (* recovered_scheduler is this scheduler process               *)
  batch,      (* pending reports read and not dealt with                     *)
  since,      (* when the daemon started                                     *)
  now, leases, faults,
  recorded,   (* history: outcomes recorded of each run                      *)
  shown,      (* the notices of each run in the session it came from         *)
  requests,   (* how often users asked for something                         *)
  resumes,    (* history: tasks a user resumed, retried or ran since a claim *)
  held        (* history: tasks a user paused, or removed while they ran     *)

plugin == <<tasks, recorded>>
loop == <<active, place, recovered, batch>>
clock == <<daemon, since, now, faults>>
users == <<requests, resumes, held>>
scheduling == <<plugin, runs, loop, clock, leases, shown, users>>

Statuses == {"pending", "active", "running", "paused", "completed", "skipped", "cancelled"}

(* A worker is live until the loop joined it; no worker has a lost lease,  *)
(* and none is started for an occurrence that was skipped.                 *)
Live == {"running", "finish", "report", "ack", "done", "dead"}

WorkerStages == {"free", "lost", "skipped", "joined"} \cup Live

Outcomes == {"none", "done", "failed", "paused", "cancelled"}

Report == [task : Tasks, run : RunIds, shown : BOOLEAN]

Workers == {r \in RunIds : runs[r].stage \in Live}

Bump(n) == IF n = 0 THEN 1 ELSE 2

NoTask(s) ==
  [status |-> s, kind |-> "once", missed |-> "skip", on_failure |-> "pause",
   retries |-> 0, due |-> 0, attempts |-> 0, retry_at |-> Never, replay_count |-> 0,
   manual_run |-> FALSE, manual_retry |-> FALSE, manual_origin |-> FALSE,
   cancel_requested |-> FALSE, pause_requested |-> FALSE,
   run_id |-> 0, finished_run_id |-> 0, report_pending |-> FALSE]

Listed(t) == tasks[t].status \in Statuses

SchedulesInit ==
  /\ tasks = [t \in Tasks |-> NoTask("unused")]
  /\ runs = [r \in RunIds |-> [stage |-> "free", task |-> CHOOSE t \in Tasks : TRUE,
                               due |-> 0, cause |-> "due", early |-> FALSE,
                               manual |-> FALSE, result |-> "none"]]
  /\ active = {} /\ daemon = TRUE /\ place = "recover" /\ recovered = FALSE
  /\ batch = {} /\ since = 0 /\ now = 0 /\ leases = 0 /\ faults = 0
  /\ recorded = [r \in RunIds |-> 0] /\ shown = [r \in RunIds |-> 0]
  /\ requests = 0 /\ resumes = {} /\ held = {}

-----------------------------------------------------------------------------
(* What the plugin does to one task.                                       *)

Recurring(x) == x.kind # "once"

(* repeat counts from a time, cron finds the next one after it.            *)
NextDue(x, from) ==
  IF x.kind = "every" THEN from + Period ELSE (from \div Period + 1) * Period

(* Mutant: a schedule whose last report is pending may be claimed.         *)
ReadyUnreported(x) ==
  /\ x.status = "active"
  /\ \/ x.manual_run
     \/ IF x.retry_at # Never THEN x.retry_at <= now ELSE x.due <= now

ReadyForClaim(x) ==
  /\ x.status = "active" /\ ~x.report_pending
  /\ \/ x.manual_run
     \/ IF x.retry_at # Never THEN x.retry_at <= now ELSE x.due <= now

ScheduledRun(x) == ~x.manual_run /\ ~x.manual_retry /\ x.retry_at = Never

SkippedByPolicy(x) ==
  /\ ScheduledRun(x)
  /\ \/ x.missed = "skip" /\ x.due < since
     \/ x.missed = "replay" /\ x.replay_count >= ReplayLimit

Skipped(x, lease) ==
  [x EXCEPT !.status = IF Recurring(x) THEN @ ELSE "skipped",
            !.due = IF Recurring(x) THEN NextDue(x, now) ELSE @,
            !.replay_count = IF Recurring(x) THEN 0 ELSE @,
            !.finished_run_id = lease, !.report_pending = TRUE]

ManualOrigin(x) == x.manual_origin \/ (x.manual_run /\ ~x.manual_retry)

Claimed(x, lease) ==
  [x EXCEPT !.status = "running", !.run_id = lease,
            !.manual_origin = ManualOrigin(x),
            !.manual_run = FALSE, !.manual_retry = FALSE, !.retry_at = Never,
            !.attempts = @ + 1,
            !.replay_count = IF ScheduledRun(x) /\ x.due < now /\ x.missed = "replay"
                             THEN @ + 1 ELSE @]

Cancelled(x) == [x EXCEPT !.status = "cancelled", !.pause_requested = FALSE]

Paused(x) ==
  [x EXCEPT !.status = "paused", !.retry_at = Never, !.manual_run = FALSE,
            !.manual_retry = FALSE, !.pause_requested = FALSE]

(* Only replay keeps to the occurrences that were missed.                  *)
CatchingUp(x, manual) ==
  ~manual /\ x.missed = "replay" /\ NextDue(x, x.due) <= now /\ x.replay_count < ReplayLimit

(* Mutant: the next occurrence is the one that was run.                    *)
SucceededInPlace(x, manual) ==
  [x EXCEPT !.status = "active", !.attempts = 0, !.retry_at = Never,
            !.manual_run = FALSE, !.manual_origin = FALSE]

Succeeded(x, manual) ==
  LET keeps == manual /\ x.due > now
  IN [x EXCEPT !.status = "active", !.attempts = 0, !.retry_at = Never,
               !.manual_run = FALSE, !.manual_origin = FALSE,
               !.due = IF keeps THEN @
                       ELSE IF CatchingUp(x, manual) THEN NextDue(x, @)
                       ELSE NextDue(x, now),
               !.replay_count = IF keeps \/ CatchingUp(x, manual) THEN @ ELSE 0]

(* Mutant: one attempt too many.                                           *)
FailedOnceMore(x) ==
  IF x.attempts <= x.retries + 1
  THEN [x EXCEPT !.status = "active", !.retry_at = now + Backoff, !.manual_run = FALSE]
  ELSE [x EXCEPT !.status = "paused", !.retry_at = Never, !.manual_run = FALSE]

Failed(x) ==
  IF x.attempts <= x.retries
  THEN [x EXCEPT !.status = "active", !.retry_at = now + Backoff, !.manual_run = FALSE]
  ELSE IF x.on_failure = "continue" /\ Recurring(x)
  THEN [x EXCEPT !.status = "active", !.due = NextDue(x, now), !.replay_count = 0,
                 !.attempts = 0, !.retry_at = Never,
                 !.manual_run = FALSE, !.manual_retry = FALSE, !.manual_origin = FALSE]
  ELSE [x EXCEPT !.status = "paused", !.retry_at = Never, !.manual_run = FALSE]

(* Mutant: a pause that was asked for only counts once a run fails.        *)
SettledThenPaused(x, result, manual) ==
  IF x.cancel_requested \/ result = "cancelled" THEN Cancelled(x)
  ELSE IF result = "done"
  THEN IF Recurring(x) THEN Succeeded(x, manual) ELSE [x EXCEPT !.status = "completed"]
  ELSE IF x.pause_requested \/ result = "paused" THEN Paused(x)
  ELSE Failed(x)

AfterRun(x, result, manual) ==
  IF x.cancel_requested \/ result = "cancelled" THEN Cancelled(x)
  ELSE IF x.pause_requested \/ result = "paused" THEN Paused(x)
  ELSE IF result = "done"
  THEN IF Recurring(x) THEN Succeeded(x, manual) ELSE [x EXCEPT !.status = "completed"]
  ELSE Failed(x)

(* finish answers a run it has finished before with what it said then.     *)
AlreadyFinished(x, r) == x.finished_run_id = r

(* Mutant: whatever run reports is taken for the one that is running.      *)
FinishesAnyRun(x, r) == x.status = "running"

FinishesRun(x, r) == x.status = "running" /\ x.run_id = r

(* recover, for one task; one that was to be removed is gone for good.     *)
Interrupted(x) ==
  IF x.cancel_requested THEN NoTask("removed")
  ELSE [x EXCEPT !.status = "paused", !.retry_at = Never,
                 !.manual_run = FALSE, !.manual_retry = FALSE,
                 !.cancel_requested = FALSE, !.pause_requested = FALSE,
                 !.finished_run_id = x.run_id, !.run_id = 0, !.report_pending = TRUE]

-----------------------------------------------------------------------------
(* The main loop, run_scheduler.                                           *)

Fault == faults < MaxFaults /\ faults' = faults + 1

(* The top of the loop: recover first, if this process has not been asked. *)
Top == IF recovered THEN "reports" ELSE "recover"

Stale(t) == tasks[t].status = "running" /\ t \notin active

Recovery ==
  /\ tasks' = [t \in Tasks |-> IF Stale(t) THEN Interrupted(tasks[t]) ELSE tasks[t]]
  /\ recorded' = [r \in RunIds |->
       IF \E t \in Tasks : Stale(t) /\ tasks[t].run_id = r /\ ~tasks[t].cancel_requested
       THEN Bump(recorded[r]) ELSE recorded[r]]

Recover ==
  /\ daemon /\ place = "recover"
  /\ Recovery
  /\ recovered' = TRUE /\ place' = "reports"
  /\ UNCHANGED <<runs, active, batch, clock, leases, shown, users>>

RecoverAnswerLost ==
  /\ daemon /\ place = "recover" /\ Fault
  /\ Recovery
  /\ UNCHANGED <<runs, loop, daemon, since, now, leases, shown, users>>

(* process_pending_schedule_reports: a page of reports is read, then each  *)
(* is shown and acknowledged.                                              *)
ReadReports ==
  /\ daemon /\ place = "reports"
  /\ batch' = {[task |-> t, run |-> tasks[t].finished_run_id, shown |-> FALSE]
                 : t \in {u \in Tasks : tasks[u].report_pending}}
  /\ place' = "settle"
  /\ UNCHANGED <<plugin, runs, active, recovered, clock, leases, shown, users>>

(* A page that could not be read is left for the next time round.          *)
ReportsNotRead ==
  /\ daemon /\ place = "reports" /\ Fault
  /\ place' = "claim"
  /\ UNCHANGED <<plugin, runs, active, recovered, batch, daemon, since, now, leases, shown, users>>

(* Mutant: a notice is appended whether or not the session has it.         *)
NoticedAgain(r) == [shown EXCEPT ![r] = Bump(@)]

(* report_scheduled_result finds a notice of the run by its ID.            *)
Noticed(r) == [shown EXCEPT ![r] = IF @ = 0 THEN 1 ELSE @]

(* The reports of a page are dealt with one after the other.               *)
ShowReport(b) ==
  /\ daemon /\ place = "settle" /\ b \in batch /\ \A c \in batch : ~c.shown
  /\ shown' = Noticed(b.run)
  /\ batch' = (batch \ {b}) \cup {[b EXCEPT !.shown = TRUE]}
  /\ UNCHANGED <<plugin, runs, active, place, recovered, clock, leases, users>>

(* A notice that cannot be saved is left for the next time round.          *)
ReportNotShown(b) ==
  /\ daemon /\ place = "settle" /\ Fault /\ b \in batch /\ ~b.shown
  /\ batch' = batch \ {b}
  /\ UNCHANGED <<plugin, runs, active, place, recovered, daemon, since, now, leases, shown, users>>

Acknowledged(t, r) ==
  IF Listed(t) /\ tasks[t].finished_run_id = r
  THEN [tasks EXCEPT ![t].report_pending = FALSE] ELSE tasks

(* Whether the request gets through makes no difference to what follows.   *)
AcknowledgeReport(b) ==
  /\ daemon /\ place = "settle" /\ b \in batch /\ b.shown
  /\ batch' = batch \ {b}
  /\ \/ tasks' = Acknowledged(b.task, b.run) /\ UNCHANGED faults
     \/ Fault /\ UNCHANGED tasks
  /\ UNCHANGED <<recorded, runs, active, place, recovered, daemon, since, now, leases, shown, users>>

ReportsSettled ==
  /\ daemon /\ place = "settle" /\ batch = {}
  /\ place' = "claim"
  /\ UNCHANGED <<plugin, runs, active, recovered, batch, clock, leases, shown, users>>

(* claim takes the task that has been due longest.                         *)
NextTask(t) ==
  /\ ReadyForClaim(tasks[t])
  /\ \A u \in Tasks : ReadyForClaim(tasks[u]) => tasks[t].due <= tasks[u].due

Cause(t) ==
  IF t \in resumes THEN "user" ELSE IF tasks[t].retry_at # Never THEN "retry" ELSE "due"

Claim(t, stage) ==
  /\ leases < MaxRuns /\ NextTask(t)
  /\ leases' = leases + 1
  /\ LET lease == leases + 1
     IN IF SkippedByPolicy(tasks[t])
        THEN /\ tasks' = [tasks EXCEPT ![t] = Skipped(@, lease)]
             /\ recorded' = [recorded EXCEPT ![lease] = Bump(@)]
             /\ runs' = [runs EXCEPT ![lease] = [@ EXCEPT !.stage = "skipped", !.task = t]]
             /\ UNCHANGED users
        ELSE /\ tasks' = [tasks EXCEPT ![t] = Claimed(@, lease)]
             /\ runs' = [runs EXCEPT ![lease] =
                  [stage |-> stage, task |-> t, due |-> tasks[t].due, cause |-> Cause(t),
                   early |-> tasks[t].due > now, manual |-> ManualOrigin(tasks[t]), result |-> "none"]]
             /\ resumes' = resumes \ {t}
             /\ UNCHANGED <<recorded, requests, held>>

ClaimWork ==
  /\ daemon /\ place = "claim" /\ Cardinality(Workers) < Concurrency
  /\ \E t \in Tasks :
       /\ Claim(t, "running")
       /\ IF SkippedByPolicy(tasks[t])
          THEN place' = "reports" /\ UNCHANGED active
          ELSE active' = active \cup {t} /\ UNCHANGED place
  /\ UNCHANGED <<recovered, batch, clock, shown>>

(* A claim that failed makes the loop ask for recovery again.              *)
ClaimAnswerLost ==
  /\ daemon /\ place = "claim" /\ Cardinality(Workers) < Concurrency /\ Fault
  /\ \/ \E t \in Tasks : Claim(t, "lost")
     \/ UNCHANGED <<plugin, runs, leases, users>>
  /\ recovered' = FALSE /\ place' = "wait"
  /\ UNCHANGED <<active, batch, daemon, since, now, shown>>

NothingToClaim ==
  /\ daemon /\ place = "claim"
  /\ \/ Cardinality(Workers) >= Concurrency
     \/ leases = MaxRuns
     \/ \A t \in Tasks : ~ReadyForClaim(tasks[t])
  /\ place' = "wait"
  /\ UNCHANGED <<plugin, runs, active, recovered, batch, clock, leases, shown, users>>

(* The loop sleeps until a worker ends, or for a while.                    *)
JoinWorker(r) ==
  /\ daemon /\ place = "wait" /\ runs[r].stage \in {"done", "dead"}
  /\ runs' = [runs EXCEPT ![r].stage = "joined"]
  /\ active' = active \ {runs[r].task}
  /\ recovered' = (recovered /\ runs[r].stage = "done")
  /\ place' = IF recovered' THEN "reports" ELSE "recover"
  /\ UNCHANGED <<plugin, batch, clock, leases, shown, users>>

WakeUp ==
  /\ daemon /\ place = "wait"
  /\ place' = Top
  /\ UNCHANGED <<plugin, runs, active, recovered, batch, clock, leases, shown, users>>

-----------------------------------------------------------------------------
(* A worker, run_scheduled_task.                                           *)

(* The outcome is what the first word of the reply says, or what the error *)
(* of a turn that failed or was cut off by a removal makes of it.          *)
Execute(r) ==
  /\ daemon /\ runs[r].stage = "running"
  /\ \E result \in Outcomes \ {"none"} :
       runs' = [runs EXCEPT ![r].stage = "finish", ![r].result = result]
  /\ UNCHANGED <<plugin, loop, clock, leases, shown, users>>

WorkerDies(r) ==
  /\ daemon /\ runs[r].stage = "running" /\ Fault
  /\ runs' = [runs EXCEPT ![r].stage = "dead"]
  /\ UNCHANGED <<plugin, loop, daemon, since, now, leases, shown, users>>

RecordFinish(r) ==
  LET t == runs[r].task
  IN /\ tasks' = [tasks EXCEPT ![t] =
                    [AfterRun(@, runs[r].result, runs[r].manual) EXCEPT
                       !.finished_run_id = r, !.report_pending = TRUE]]
     /\ recorded' = [recorded EXCEPT ![r] = Bump(@)]

(* retry_schedule_finish asks until the plugin accepts.                    *)
FinishRun(r) ==
  LET x == tasks[runs[r].task]
  IN /\ daemon /\ runs[r].stage = "finish" /\ Listed(runs[r].task)
     /\ \/ AlreadyFinished(x, r) /\ UNCHANGED plugin
        \/ ~AlreadyFinished(x, r) /\ FinishesRun(x, r) /\ RecordFinish(r)
     /\ runs' = [runs EXCEPT ![r].stage = "report"]
     /\ UNCHANGED <<loop, clock, leases, shown, users>>

FinishAnswerLost(r) ==
  LET x == tasks[runs[r].task]
  IN /\ daemon /\ runs[r].stage = "finish" /\ Listed(runs[r].task) /\ Fault
     /\ ~AlreadyFinished(x, r) /\ FinishesRun(x, r) /\ RecordFinish(r)
     /\ UNCHANGED <<runs, loop, daemon, since, now, leases, shown, users>>

WorkerShows(r) ==
  /\ daemon /\ runs[r].stage = "report"
  /\ \/ shown' = Noticed(r) /\ runs' = [runs EXCEPT ![r].stage = "ack"] /\ UNCHANGED faults
     \/ Fault /\ runs' = [runs EXCEPT ![r].stage = "done"] /\ UNCHANGED shown
  /\ UNCHANGED <<plugin, loop, daemon, since, now, leases, users>>

WorkerAcknowledges(r) ==
  /\ daemon /\ runs[r].stage = "ack"
  /\ runs' = [runs EXCEPT ![r].stage = "done"]
  /\ \/ tasks' = Acknowledged(runs[r].task, r) /\ UNCHANGED faults
     \/ Fault /\ UNCHANGED tasks
  /\ UNCHANGED <<recorded, loop, daemon, since, now, leases, shown, users>>

-----------------------------------------------------------------------------
(* What users ask of the plugin through the daemon.                        *)

ChangeTask(t, x) ==
  /\ daemon
  /\ tasks' = [tasks EXCEPT ![t] = x]
  /\ UNCHANGED <<recorded, runs, loop, clock, leases, shown>>

UserRequest(t, x) ==
  /\ requests < MaxRequests /\ requests' = requests + 1
  /\ ChangeTask(t, x)

Add(t) ==
  /\ tasks[t].status = "unused"
  /\ \E p \in Policies, s \in {"pending", "active"} :
       /\ p.on_failure = "continue" => p.kind # "once"
       /\ ChangeTask(t, [NoTask(s) EXCEPT !.kind = p.kind, !.missed = p.missed,
                           !.on_failure = p.on_failure, !.retries = p.retries,
                           !.due = IF p.kind = "cron" THEN NextDue(p, now) ELSE now + p.delay])
  /\ UNCHANGED users

Approve(t) ==
  /\ tasks[t].status = "pending"
  /\ UserRequest(t, [tasks[t] EXCEPT !.status = "active"])
  /\ UNCHANGED <<resumes, held>>

Reset(x) ==
  [x EXCEPT !.attempts = 0, !.retry_at = Never, !.manual_run = FALSE,
            !.manual_retry = FALSE, !.manual_origin = FALSE, !.pause_requested = FALSE]

Pause(t) ==
  /\ \/ /\ tasks[t].status = "running"
        /\ UserRequest(t, [tasks[t] EXCEPT !.pause_requested = TRUE])
     \/ /\ tasks[t].status = "active"
        /\ UserRequest(t, [Reset(tasks[t]) EXCEPT !.status = "paused"])
  /\ held' = held \cup {t}
  /\ UNCHANGED resumes

Resume(t) ==
  /\ tasks[t].status = "paused"
  /\ UserRequest(t, [Reset(tasks[t]) EXCEPT !.status = "active", !.cancel_requested = FALSE])
  /\ resumes' = resumes \cup {t} /\ held' = held \ {t}

Requested(x) ==
  [x EXCEPT !.status = "active", !.manual_run = TRUE, !.cancel_requested = FALSE,
            !.retry_at = Never, !.attempts = 0, !.pause_requested = FALSE]

RunNow(t) ==
  /\ tasks[t].status \in {"active", "completed", "skipped"}
  /\ UserRequest(t, [Requested(tasks[t]) EXCEPT !.manual_retry = FALSE, !.manual_origin = TRUE])
  /\ resumes' = resumes \cup {t} /\ UNCHANGED held

Retry(t) ==
  /\ tasks[t].status \in {"paused", "skipped"}
  /\ UserRequest(t, [Requested(tasks[t]) EXCEPT !.manual_retry = TRUE])
  /\ resumes' = resumes \cup {t} /\ held' = held \ {t}

(* A task that runs is only marked; its worker's monitor sees the mark.    *)
Remove(t) ==
  /\ Listed(t)
  /\ IF tasks[t].status = "running"
     THEN UserRequest(t, [tasks[t] EXCEPT !.cancel_requested = TRUE]) /\ held' = held \cup {t}
     ELSE UserRequest(t, NoTask("removed")) /\ UNCHANGED held
  /\ UNCHANGED resumes

-----------------------------------------------------------------------------
(* The world.                                                              *)

Tick ==
  /\ now < MaxTime /\ now' = now + 1
  /\ UNCHANGED <<plugin, runs, loop, daemon, since, faults, leases, shown, users>>

(* The plugin's process is replaced; its table is what it saved.           *)
SchedulerRestarts ==
  /\ daemon /\ Fault
  /\ recovered' = FALSE
  /\ UNCHANGED <<plugin, runs, active, place, batch, daemon, since, now, leases, shown, users>>

DaemonStops ==
  /\ daemon /\ Fault
  /\ daemon' = FALSE
  /\ runs' = [r \in RunIds |-> IF r \in Workers THEN [runs[r] EXCEPT !.stage = "joined"] ELSE runs[r]]
  /\ active' = {} /\ batch' = {} /\ recovered' = FALSE /\ place' = "recover"
  /\ UNCHANGED <<plugin, since, now, leases, shown, users>>

DaemonStarts ==
  /\ ~daemon
  /\ daemon' = TRUE /\ since' = now
  /\ UNCHANGED <<plugin, runs, loop, now, faults, leases, shown, users>>

Loop ==
  \/ Recover \/ RecoverAnswerLost \/ ReadReports \/ ReportsNotRead
  \/ ReportsSettled
  \/ \E b \in batch : ShowReport(b) \/ ReportNotShown(b) \/ AcknowledgeReport(b)
  \/ ClaimWork \/ ClaimAnswerLost \/ NothingToClaim \/ WakeUp
  \/ \E r \in RunIds : JoinWorker(r)

Worker ==
  \E r \in RunIds : \/ Execute(r) \/ WorkerDies(r) \/ FinishRun(r) \/ FinishAnswerLost(r)
                    \/ WorkerShows(r) \/ WorkerAcknowledges(r)

User ==
  \E t \in Tasks : \/ Add(t) \/ Approve(t) \/ Pause(t) \/ Resume(t)
                   \/ RunNow(t) \/ Retry(t) \/ Remove(t)

World == Tick \/ SchedulerRestarts \/ DaemonStops \/ DaemonStarts

SchedulesNext == Loop \/ Worker \/ User \/ World

SchedulesSpec == SchedulesInit /\ [][SchedulesNext]_scheduling

-----------------------------------------------------------------------------
(* Every variable in its range; a task is tried no more often than its     *)
(* retries allow, and one that runs has a lease and no report to give.     *)
TaskEntry ==
  [status : Statuses \cup {"unused", "removed"},
   kind : {"once", "every", "cron"}, missed : {"skip", "coalesce", "replay"},
   on_failure : {"pause", "continue"}, retries : Nat, due : Nat, attempts : Nat,
   retry_at : Nat, replay_count : Nat, manual_run : BOOLEAN, manual_retry : BOOLEAN,
   manual_origin : BOOLEAN, cancel_requested : BOOLEAN, pause_requested : BOOLEAN,
   run_id : 0..MaxRuns, finished_run_id : 0..MaxRuns, report_pending : BOOLEAN]

Run == [stage : WorkerStages, task : Tasks, due : Nat, cause : {"due", "retry", "user"},
        early : BOOLEAN, manual : BOOLEAN, result : Outcomes]

SchedulesTypeOK ==
  /\ tasks \in [Tasks -> TaskEntry] /\ runs \in [RunIds -> Run]
  /\ active \subseteq Tasks /\ daemon \in BOOLEAN /\ recovered \in BOOLEAN
  /\ place \in {"recover", "reports", "settle", "claim", "wait"}
  /\ batch \subseteq Report /\ since \in 0..now /\ now \in 0..MaxTime
  /\ leases \in 0..MaxRuns /\ faults \in 0..MaxFaults
  /\ recorded \in [RunIds -> 0..2] /\ shown \in [RunIds -> 0..2]
  /\ requests \in 0..MaxRequests /\ resumes \subseteq Tasks /\ held \subseteq Tasks
  /\ \A t \in Tasks : tasks[t].attempts <= tasks[t].retries + 1

(* finish is asked again until it is answered, and workers outlive their   *)
(* plugin: still the outcome of a run is recorded only once.               *)
OutcomeRecordedOnce == \A r \in RunIds : recorded[r] <= 1

(* A recorded outcome stays with its task until the user has seen it: no   *)
(* later run, recovery or acknowledgement takes its place before that.     *)
ReportNotLost ==
  \A r \in RunIds : recorded[r] > 0 /\ shown[r] = 0 =>
    LET x == tasks[runs[r].task]
    IN x.status = "removed" \/ (x.report_pending /\ x.finished_run_id = r)

(* The worker and the main loop both report a run: the session it came     *)
(* from gets one notice, and none of a run without an outcome.             *)
ReportedOnce == \A r \in RunIds : shown[r] <= recorded[r]

(* Whoever dies in between, an occurrence that was run when it was due is  *)
(* run again only as a retry, or after a user resumed the task or asked.   *)
OccurrenceRunsOnce ==
  \A p, r \in RunIds :
    /\ p < r /\ r <= leases /\ runs[p].task = runs[r].task /\ runs[p].due = runs[r].due
    /\ runs[p].stage # "skipped" /\ ~runs[p].early
    /\ runs[r].stage # "skipped"
    => runs[r].cause # "due"

(* What a user paused, or removed while it ran, does not run again before  *)
(* the user resumes or retries it, however the run in progress ends.       *)
HeldNotRun ==
  [][\A r \in RunIds : runs[r].stage = "free" /\ runs'[r].stage \in {"running", "lost"}
       => runs'[r].task \notin held]_scheduling

(* Recovery leaves alone the runs that a worker is executing.              *)
LiveRunsKept ==
  [][\A r \in RunIds : runs[r].stage = "running" /\ daemon' /\ recorded[r] = 0
       => recorded'[r] = 0]_scheduling
=============================================================================
