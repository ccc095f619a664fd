---------------------------- MODULE Schedules_proofs ----------------------------
(***************************************************************************)
(* Over lost answers, dead workers and restarts of either side, every      *)
(* outcome of a scheduled run is recorded once, kept until it was shown,   *)
(* and shown once; what a user holds is not run, and what was run when it  *)
(* was due is not due again.  A run in progress is left alone while no     *)
(* task has two workers.                                                   *)
(*                                                                         *)
(* The argument is about the two run IDs of a task: run_id is a run        *)
(* without an outcome as long as the task runs, and finished_run_id one    *)
(* with an outcome.                                                        *)
(***************************************************************************)
EXTENDS Schedules, TLAPS

(* A task that may be claimed has an attempt left.                         *)
AttemptsLeft ==
  \A t \in Tasks : tasks[t].status \notin {"running", "paused", "completed", "skipped", "cancelled"}
    => tasks[t].attempts <= tasks[t].retries

(* A lease that was not given out has left no trace.                       *)
LeasesFresh ==
  \A r \in RunIds : r > leases => runs[r].stage = "free" /\ recorded[r] = 0 /\ shown[r] = 0

(* A running task is known by the run it was leased for, which has no      *)
(* outcome yet.                                                            *)
RunningRun ==
  \A t \in Tasks : tasks[t].status = "running" =>
    /\ tasks[t].run_id \in RunIds /\ tasks[t].run_id <= leases
    /\ runs[tasks[t].run_id].task = t /\ recorded[tasks[t].run_id] = 0
    /\ ~tasks[t].report_pending

(* The last finished run of a task is one of its own, with an outcome.     *)
FinishedRun ==
  \A t \in Tasks :
    /\ tasks[t].finished_run_id # 0 =>
         /\ tasks[t].finished_run_id \in RunIds /\ tasks[t].finished_run_id <= leases
         /\ runs[tasks[t].finished_run_id].task = t /\ recorded[tasks[t].finished_run_id] > 0
    /\ tasks[t].report_pending => tasks[t].finished_run_id # 0
    /\ tasks[t].status = "unused" => tasks[t].finished_run_id = 0

(* What a worker or the loop is about to show or to acknowledge.           *)
ReportsKnown ==
  /\ \A r \in RunIds : /\ runs[r].stage = "report" => recorded[r] > 0
                       /\ runs[r].stage = "ack" => shown[r] > 0
  /\ \A b \in batch : recorded[b.run] > 0 /\ (b.shown => shown[b.run] > 0)

(* What a user holds is stopped, or will be when its run finishes.         *)
HeldStopped ==
  \A t \in held :
    \/ tasks[t].status \in {"paused", "cancelled", "removed"}
    \/ tasks[t].status = "running" /\ (tasks[t].pause_requested \/ tasks[t].cancel_requested)

IInv ==
  /\ SchedulesTypeOK /\ AttemptsLeft /\ LeasesFresh /\ RunningRun /\ FinishedRun /\ ReportsKnown
  /\ HeldStopped /\ OutcomeRecordedOnce /\ ReportNotLost /\ ReportedOnce

-----------------------------------------------------------------------------
(* What a request does to one task.                                        *)

TaskOK(x) ==
  /\ x \in TaskEntry /\ x.attempts <= x.retries + 1
  /\ x.status \notin {"running", "paused", "completed", "skipped", "cancelled"}
       => x.attempts <= x.retries

LEMMA BoundsNat ==
  /\ MaxRuns \in Nat /\ MaxTime \in Nat /\ MaxFaults \in Nat /\ MaxRequests \in Nat
  /\ Backoff \in Nat /\ Period \in Nat \ {0} /\ Never \in Nat
BY ScheduleAssumption DEF ScheduleAssumption, Never

LEMMA NextDueNat ==
  ASSUME NEW x, NEW from \in Nat
  PROVE  NextDue(x, from) \in Nat
<1>1. from + Period \in Nat
  BY BoundsNat
<1>2. from \div Period \in Nat
  BY BoundsNat
<1>3. (from \div Period + 1) * Period \in Nat
  BY <1>2, BoundsNat
<1> QED
  BY <1>1, <1>3 DEF NextDue

LEMMA NoTaskOK ==
  ASSUME NEW s \in Statuses \cup {"unused", "removed"}
  PROVE  TaskOK(NoTask(s)) /\ NoTask(s).status = s
BY BoundsNat DEF TaskOK, NoTask, TaskEntry

LEMMA ClaimedOK ==
  ASSUME NEW x, TaskOK(x), x.status = "active", NEW lease \in RunIds
  PROVE  /\ TaskOK(Claimed(x, lease)) /\ Claimed(x, lease).status = "running"
         /\ Claimed(x, lease).run_id = lease
         /\ Claimed(x, lease).finished_run_id = x.finished_run_id
         /\ Claimed(x, lease).report_pending = x.report_pending
<1>1. ManualOrigin(x) \in BOOLEAN
  BY DEF ManualOrigin, TaskOK, TaskEntry
<1>2. Claimed(x, lease) \in TaskEntry
  <2> DEFINE c == IF ScheduledRun(x) /\ x.due < now /\ x.missed = "replay"
                  THEN x.replay_count + 1 ELSE x.replay_count
             a == x.attempts + 1
             m == ManualOrigin(x)
  <2>1. x \in TaskEntry /\ m \in BOOLEAN
    BY <1>1 DEF TaskOK
  <2>2. x.replay_count \in Nat /\ x.attempts \in Nat
    BY DEF TaskOK, TaskEntry
  <2>3. a \in Nat /\ c \in Nat
    BY <2>2
  <2>4. Never \in Nat /\ lease \in 0..MaxRuns
    BY BoundsNat DEF RunIds
  <2>5. Claimed(x, lease) =
          [x EXCEPT !.status = "running", !.run_id = lease, !.manual_origin = m,
                    !.manual_run = FALSE, !.manual_retry = FALSE, !.retry_at = Never,
                    !.attempts = a, !.replay_count = c]
    BY DEF Claimed
  <2> HIDE DEF a, c, m
  <2> QED
    BY <2>1, <2>3, <2>4, <2>5 DEF TaskEntry, Statuses
<1>3. Claimed(x, lease).attempts = x.attempts + 1 /\ Claimed(x, lease).retries = x.retries
  BY DEF Claimed, TaskOK, TaskEntry
<1>4. x.attempts \in Nat /\ x.retries \in Nat
  BY DEF TaskOK, TaskEntry
<1>5. Claimed(x, lease).attempts <= Claimed(x, lease).retries + 1
  BY <1>3, <1>4 DEF TaskOK
<1>6. Claimed(x, lease).status = "running" /\ Claimed(x, lease).run_id = lease
  BY DEF Claimed, TaskOK, TaskEntry
<1>7. /\ Claimed(x, lease).finished_run_id = x.finished_run_id
      /\ Claimed(x, lease).report_pending = x.report_pending
  BY DEF Claimed, TaskOK, TaskEntry
<1> QED
  BY <1>2, <1>5, <1>6, <1>7 DEF TaskOK

LEMMA SkippedOK ==
  ASSUME NEW x, TaskOK(x), x.status = "active", NEW lease \in RunIds, now \in Nat
  PROVE  /\ TaskOK(Skipped(x, lease)) /\ Skipped(x, lease).status \in {"active", "skipped"}
         /\ Skipped(x, lease).finished_run_id = lease
         /\ Skipped(x, lease).report_pending = TRUE
<1>1. NextDue(x, now) \in Nat
  BY NextDueNat
<1>2. Skipped(x, lease) \in TaskEntry
  <2>1. x \in TaskEntry /\ lease \in 0..MaxRuns
    BY BoundsNat DEF TaskOK, RunIds
  <2>2. CASE Recurring(x)
    <3> DEFINE d == NextDue(x, now)
               zero == 0
    <3>1. Skipped(x, lease) =
            [x EXCEPT !.due = d, !.replay_count = zero,
                      !.finished_run_id = lease, !.report_pending = TRUE]
      BY <2>1, <2>2 DEF Skipped, TaskEntry
    <3>2. d \in Nat /\ zero \in Nat
      BY <1>1
    <3> HIDE DEF d, zero
    <3> QED
      BY <2>1, <3>1, <3>2 DEF TaskEntry
  <2>3. CASE ~Recurring(x)
    <3>1. Skipped(x, lease) =
            [x EXCEPT !.status = "skipped", !.finished_run_id = lease, !.report_pending = TRUE]
      BY <2>1, <2>3 DEF Skipped, TaskEntry
    <3> QED
      BY <2>1, <3>1 DEF TaskEntry, Statuses
  <2> QED
    BY <2>2, <2>3
<1>3. Skipped(x, lease).attempts = x.attempts /\ Skipped(x, lease).retries = x.retries
  BY DEF Skipped, TaskOK, TaskEntry
<1>4. Skipped(x, lease).status \in {"active", "skipped"}
  BY DEF Skipped, TaskOK, TaskEntry
<1>5. Skipped(x, lease).finished_run_id = lease /\ Skipped(x, lease).report_pending = TRUE
  BY DEF Skipped, TaskOK, TaskEntry
<1> QED
  BY <1>2, <1>3, <1>4, <1>5 DEF TaskOK

LEMMA InterruptedOK ==
  ASSUME NEW x, TaskOK(x), x.run_id \in RunIds
  PROVE  /\ TaskOK(Interrupted(x)) /\ Interrupted(x).status \in {"paused", "removed"}
         /\ x.cancel_requested => /\ Interrupted(x).status = "removed"
                                  /\ Interrupted(x).finished_run_id = 0
                                  /\ ~Interrupted(x).report_pending
         /\ ~x.cancel_requested => /\ Interrupted(x).finished_run_id = x.run_id
                                   /\ Interrupted(x).report_pending
<1>1. CASE x.cancel_requested
  <2>1. TaskOK(NoTask("removed")) /\ NoTask("removed").status = "removed"
    BY NoTaskOK
  <2>2. NoTask("removed").finished_run_id = 0 /\ ~NoTask("removed").report_pending
    BY DEF NoTask
  <2> QED
    BY <1>1, <2>1, <2>2 DEF Interrupted
<1>2. CASE ~x.cancel_requested
  <2>1. Interrupted(x) \in TaskEntry
    <3>1. Interrupted(x) =
            [x EXCEPT !.status = "paused", !.retry_at = Never,
                      !.manual_run = FALSE, !.manual_retry = FALSE,
                      !.cancel_requested = FALSE, !.pause_requested = FALSE,
                      !.finished_run_id = x.run_id, !.run_id = 0, !.report_pending = TRUE]
      BY <1>2 DEF Interrupted
    <3>2. x.run_id \in 0..MaxRuns /\ 0 \in 0..MaxRuns /\ Never \in Nat
      BY BoundsNat DEF RunIds
    <3>3. x \in TaskEntry
      BY DEF TaskOK
    <3> QED
      BY <3>1, <3>2, <3>3 DEF TaskEntry, Statuses
  <2>2. /\ Interrupted(x).attempts = x.attempts /\ Interrupted(x).retries = x.retries
        /\ Interrupted(x).status = "paused"
    BY <1>2 DEF Interrupted, TaskOK, TaskEntry
  <2>3. Interrupted(x).finished_run_id = x.run_id /\ Interrupted(x).report_pending
    BY <1>2 DEF Interrupted, TaskOK, TaskEntry
  <2> QED
    BY <1>2, <2>1, <2>2, <2>3 DEF TaskOK
<1> QED
  BY <1>1, <1>2

LEMMA SucceededOK ==
  ASSUME NEW x, TaskOK(x), NEW manual \in BOOLEAN, now \in Nat
  PROVE  TaskOK(Succeeded(x, manual)) /\ Succeeded(x, manual).status = "active"
<1> DEFINE keeps == manual /\ x.due > now
           d == IF keeps THEN x.due
                ELSE IF CatchingUp(x, manual) THEN NextDue(x, x.due) ELSE NextDue(x, now)
           c == IF keeps \/ CatchingUp(x, manual) THEN x.replay_count ELSE 0
           zero == 0
<1>1. x \in TaskEntry /\ x.due \in Nat /\ x.replay_count \in Nat /\ x.retries \in Nat
  BY DEF TaskOK, TaskEntry
<1>2. d \in Nat /\ c \in Nat /\ zero \in Nat
  BY <1>1, NextDueNat
<1>3. Succeeded(x, manual) =
        [x EXCEPT !.status = "active", !.attempts = zero, !.retry_at = Never,
                  !.manual_run = FALSE, !.manual_origin = FALSE, !.due = d, !.replay_count = c]
  BY DEF Succeeded
<1>4. Never \in Nat
  BY BoundsNat
<1> HIDE DEF d, c, zero
<1>5. Succeeded(x, manual) \in TaskEntry
  BY <1>1, <1>2, <1>3, <1>4 DEF TaskEntry, Statuses
<1>6. /\ Succeeded(x, manual).attempts = 0 /\ Succeeded(x, manual).retries = x.retries
      /\ Succeeded(x, manual).status = "active"
  BY <1>1, <1>3 DEF TaskEntry, zero
<1> QED
  BY <1>1, <1>5, <1>6 DEF TaskOK

LEMMA FailedOK ==
  ASSUME NEW x, TaskOK(x), now \in Nat
  PROVE  TaskOK(Failed(x)) /\ Failed(x).status \in {"active", "paused"}
<1>1. x \in TaskEntry /\ x.attempts \in Nat /\ x.retries \in Nat /\ x.attempts <= x.retries + 1
  BY DEF TaskOK, TaskEntry
<1>2. CASE x.attempts <= x.retries
  <2> DEFINE a == now + Backoff
  <2>1. a \in Nat
    BY BoundsNat
  <2>2. Failed(x) = [x EXCEPT !.status = "active", !.retry_at = a, !.manual_run = FALSE]
    BY <1>2 DEF Failed
  <2> HIDE DEF a
  <2>3. Failed(x) \in TaskEntry
    BY <1>1, <2>1, <2>2 DEF TaskEntry, Statuses
  <2>4. /\ Failed(x).attempts = x.attempts /\ Failed(x).retries = x.retries
        /\ Failed(x).status = "active"
    BY <1>1, <2>2 DEF TaskEntry
  <2> QED
    BY <1>1, <1>2, <2>3, <2>4 DEF TaskOK
<1>3. CASE ~(x.attempts <= x.retries) /\ x.on_failure = "continue" /\ Recurring(x)
  <2> DEFINE d == NextDue(x, now)
             zero == 0
  <2>1. d \in Nat /\ zero \in Nat /\ Never \in Nat
    BY NextDueNat, BoundsNat
  <2>2. Failed(x) = [x EXCEPT !.status = "active", !.due = d, !.replay_count = zero,
                              !.attempts = zero, !.retry_at = Never, !.manual_run = FALSE,
                              !.manual_retry = FALSE, !.manual_origin = FALSE]
    BY <1>3 DEF Failed
  <2> HIDE DEF d, zero
  <2>3. Failed(x) \in TaskEntry
    BY <1>1, <2>1, <2>2 DEF TaskEntry, Statuses
  <2>4. Failed(x).attempts = 0 /\ Failed(x).retries = x.retries /\ Failed(x).status = "active"
    BY <1>1, <2>2 DEF TaskEntry, zero
  <2> QED
    BY <1>1, <2>3, <2>4 DEF TaskOK
<1>4. CASE ~(x.attempts <= x.retries) /\ ~(x.on_failure = "continue" /\ Recurring(x))
  <2>1. Failed(x) = [x EXCEPT !.status = "paused", !.retry_at = Never, !.manual_run = FALSE]
    BY <1>4 DEF Failed
  <2>2. Never \in Nat
    BY BoundsNat
  <2>3. Failed(x) \in TaskEntry
    BY <1>1, <2>1, <2>2 DEF TaskEntry, Statuses
  <2>4. /\ Failed(x).attempts = x.attempts /\ Failed(x).retries = x.retries
        /\ Failed(x).status = "paused"
    BY <1>1, <2>1 DEF TaskEntry
  <2> QED
    BY <1>1, <2>3, <2>4 DEF TaskOK
<1> QED
  BY <1>2, <1>3, <1>4

(* A pause or a removal that was asked for decides what a run ends as.     *)
LEMMA SettledOK ==
  ASSUME NEW x, TaskOK(x), now \in Nat, NEW result \in Outcomes, NEW manual \in BOOLEAN
  PROVE  /\ TaskOK(AfterRun(x, result, manual))
         /\ AfterRun(x, result, manual).status \in {"active", "paused", "completed", "cancelled"}
         /\ x.pause_requested \/ x.cancel_requested =>
              AfterRun(x, result, manual).status \in {"paused", "cancelled"}
<1>1. x \in TaskEntry /\ Never \in Nat /\ x.attempts <= x.retries + 1
  BY BoundsNat DEF TaskOK
<1>2. TaskOK(Cancelled(x)) /\ Cancelled(x).status = "cancelled"
  <2>1. Cancelled(x) \in TaskEntry
    BY <1>1 DEF Cancelled, TaskEntry, Statuses
  <2>2. /\ Cancelled(x).attempts = x.attempts /\ Cancelled(x).retries = x.retries
        /\ Cancelled(x).status = "cancelled"
    BY <1>1 DEF Cancelled, TaskEntry
  <2> QED
    BY <1>1, <2>1, <2>2 DEF TaskOK
<1>3. TaskOK(Paused(x)) /\ Paused(x).status = "paused"
  <2>1. Paused(x) \in TaskEntry
    BY <1>1 DEF Paused, TaskEntry, Statuses
  <2>2. /\ Paused(x).attempts = x.attempts /\ Paused(x).retries = x.retries
        /\ Paused(x).status = "paused"
    BY <1>1 DEF Paused, TaskEntry
  <2> QED
    BY <1>1, <2>1, <2>2 DEF TaskOK
<1>4. TaskOK([x EXCEPT !.status = "completed"]) /\ [x EXCEPT !.status = "completed"].status = "completed"
  <2>1. [x EXCEPT !.status = "completed"] \in TaskEntry
    BY <1>1 DEF TaskEntry, Statuses
  <2>2. /\ [x EXCEPT !.status = "completed"].attempts = x.attempts
        /\ [x EXCEPT !.status = "completed"].retries = x.retries
        /\ [x EXCEPT !.status = "completed"].status = "completed"
    BY <1>1 DEF TaskEntry
  <2> QED
    BY <1>1, <2>1, <2>2 DEF TaskOK
<1>5. TaskOK(Succeeded(x, manual)) /\ Succeeded(x, manual).status = "active"
  BY SucceededOK
<1>6. TaskOK(Failed(x)) /\ Failed(x).status \in {"active", "paused"}
  BY FailedOK
<1> QED
  BY <1>2, <1>3, <1>4, <1>5, <1>6 DEF AfterRun

-----------------------------------------------------------------------------
(* Types.                                                                  *)

LEMMA TasksOK ==
  ASSUME SchedulesTypeOK, AttemptsLeft
  PROVE  \A t \in Tasks : TaskOK(tasks[t])
BY DEF SchedulesTypeOK, AttemptsLeft, TaskOK

LEMMA NowNat ==
  ASSUME SchedulesTypeOK
  PROVE  now \in Nat /\ leases \in Nat /\ faults \in Nat /\ requests \in Nat
BY BoundsNat DEF SchedulesTypeOK

LEMMA FaultType ==
  ASSUME SchedulesTypeOK, Fault \/ UNCHANGED faults
  PROVE  faults' \in 0..MaxFaults
BY BoundsNat DEF SchedulesTypeOK, Fault

LEMMA StageType ==
  ASSUME SchedulesTypeOK, NEW r \in RunIds, NEW s \in WorkerStages
  PROVE  [runs EXCEPT ![r].stage = s] \in [RunIds -> Run]
<1>1. runs \in [RunIds -> Run] /\ runs[r] \in Run
  BY DEF SchedulesTypeOK
<1>2. [runs[r] EXCEPT !.stage = s] \in Run
  BY <1>1 DEF Run
<1> QED
  BY <1>1, <1>2

(* The steps that leave the plugin and the sessions alone.                 *)
Quiet ==
  \/ ReadReports \/ ReportsNotRead \/ ReportsSettled \/ NothingToClaim \/ WakeUp
  \/ \E b \in batch : ReportNotShown(b)
  \/ \E r \in RunIds : JoinWorker(r) \/ Execute(r) \/ WorkerDies(r)
  \/ Tick \/ SchedulerRestarts \/ DaemonStops \/ DaemonStarts

LEMMA QuietUnchanged ==
  ASSUME Quiet
  PROVE  UNCHANGED <<tasks, recorded, leases, shown, requests, resumes, held>>
BY DEF Quiet, ReadReports, ReportsNotRead, ReportsSettled, NothingToClaim, WakeUp, ReportNotShown,
       JoinWorker, Execute, WorkerDies, Tick, SchedulerRestarts, DaemonStops, DaemonStarts,
       plugin, users

LEMMA QuietType ==
  ASSUME IInv, Quiet
  PROVE  SchedulesTypeOK'
<1>0. SchedulesTypeOK
  BY DEF IInv
<1>1. UNCHANGED <<tasks, recorded, leases, shown, requests, resumes, held>>
  BY QuietUnchanged
<1>2. runs' \in [RunIds -> Run]
  <2>1. CASE UNCHANGED runs
    BY <1>0, <2>1 DEF SchedulesTypeOK
  <2>2. ASSUME NEW r \in RunIds, JoinWorker(r) \/ WorkerDies(r)
        PROVE  runs' \in [RunIds -> Run]
    <3>1. "joined" \in WorkerStages /\ "dead" \in WorkerStages
      BY DEF WorkerStages, Live
    <3>2. \/ runs' = [runs EXCEPT ![r].stage = "joined"]
          \/ runs' = [runs EXCEPT ![r].stage = "dead"]
      BY <2>2 DEF JoinWorker, WorkerDies
    <3>3. /\ [runs EXCEPT ![r].stage = "joined"] \in [RunIds -> Run]
          /\ [runs EXCEPT ![r].stage = "dead"] \in [RunIds -> Run]
      BY <1>0, <3>1, StageType
    <3> QED
      BY <3>2, <3>3
  <2>3. ASSUME NEW r \in RunIds, Execute(r)
        PROVE  runs' \in [RunIds -> Run]
    <3>1. PICK result \in Outcomes :
            runs' = [runs EXCEPT ![r].stage = "finish", ![r].result = result]
      BY <2>3 DEF Execute
    <3>2. runs \in [RunIds -> Run] /\ runs[r] \in Run
      BY <1>0 DEF SchedulesTypeOK
    <3>3. [runs[r] EXCEPT !.stage = "finish", !.result = result] \in Run
      BY <3>2 DEF Run, WorkerStages, Live
    <3> QED
      BY <3>1, <3>2, <3>3
  <2>4. CASE DaemonStops
    <3>1. \A r \in RunIds : runs[r] \in Run /\ [runs[r] EXCEPT !.stage = "joined"] \in Run
      BY <1>0 DEF SchedulesTypeOK, Run, WorkerStages
    <3> QED
      BY <2>4, <3>1 DEF DaemonStops
  <2>5. UNCHANGED runs \/ DaemonStops \/ \E r \in RunIds : JoinWorker(r) \/ WorkerDies(r) \/ Execute(r)
    BY DEF Quiet, ReadReports, ReportsNotRead, ReportsSettled, NothingToClaim, WakeUp,
           ReportNotShown, Tick, SchedulerRestarts, DaemonStarts
  <2> QED
    BY <2>1, <2>2, <2>3, <2>4, <2>5
<1>3. faults' \in 0..MaxFaults
  <2>1. Fault \/ UNCHANGED faults
    BY DEF Quiet, ReadReports, ReportsNotRead, ReportsSettled, NothingToClaim, WakeUp,
           ReportNotShown, JoinWorker, Execute, WorkerDies, Tick, SchedulerRestarts, DaemonStops,
           DaemonStarts, clock
  <2> QED
    BY <1>0, <2>1, FaultType
<1>4. since' \in 0..now' /\ now' \in 0..MaxTime
  <2>1. UNCHANGED <<since, now>> \/ Tick \/ DaemonStarts
    BY DEF Quiet, ReadReports, ReportsNotRead, ReportsSettled, NothingToClaim, WakeUp,
           ReportNotShown, JoinWorker, Execute, WorkerDies, SchedulerRestarts, DaemonStops, clock
  <2> QED
    BY <1>0, <2>1, BoundsNat DEF Tick, DaemonStarts, SchedulesTypeOK
<1>5. /\ active' \subseteq Tasks /\ daemon' \in BOOLEAN /\ recovered' \in BOOLEAN
      /\ place' \in {"recover", "reports", "settle", "claim", "wait"}
  BY <1>0 DEF Quiet, ReadReports, ReportsNotRead, ReportsSettled, NothingToClaim, WakeUp, Top,
       ReportNotShown, JoinWorker, Execute, WorkerDies, Tick, SchedulerRestarts, DaemonStops,
       DaemonStarts, loop, clock, SchedulesTypeOK
<1>6. batch' \subseteq Report
  <2>1. CASE ReadReports
    <3>1. ASSUME NEW t \in Tasks, tasks[t].report_pending
          PROVE  [task |-> t, run |-> tasks[t].finished_run_id, shown |-> FALSE] \in Report
      <4>1. tasks[t].finished_run_id \in RunIds
        BY <3>1 DEF IInv, FinishedRun
      <4> QED
        BY <4>1 DEF Report
    <3> QED
      BY <2>1, <3>1 DEF ReadReports
  <2>2. CASE ~ReadReports
    BY <1>0, <2>2 DEF Quiet, ReportsNotRead, ReportsSettled, NothingToClaim, WakeUp,
       ReportNotShown, JoinWorker, Execute, WorkerDies, Tick, SchedulerRestarts, DaemonStops,
       DaemonStarts, loop, SchedulesTypeOK
  <2> QED
    BY <2>1, <2>2
<1> QED
  BY <1>0, <1>1, <1>2, <1>3, <1>4, <1>5, <1>6 DEF SchedulesTypeOK

(* What the rest of the invariant needs of a step that leaves the plugin   *)
(* and the sessions alone.                                                 *)
LEMMA QuietRuns ==
  ASSUME IInv, Quiet, NEW r \in RunIds
  PROVE  /\ runs'[r].task = runs[r].task
         /\ runs[r].stage = "free" => runs'[r].stage = "free"
         /\ runs'[r].stage \in {"report", "ack", "free", "running", "lost"}
              => runs'[r].stage = runs[r].stage
<1>1. runs \in [RunIds -> Run] /\ runs[r] \in Run
  BY DEF IInv, SchedulesTypeOK
<1>2. CASE UNCHANGED runs
  BY <1>2
<1>3. ASSUME NEW q \in RunIds, JoinWorker(q) \/ WorkerDies(q) \/ Execute(q)
      PROVE  /\ runs'[r].task = runs[r].task
             /\ runs[r].stage = "free" => runs'[r].stage = "free"
             /\ runs'[r].stage \in {"report", "ack", "free", "running", "lost"}
                  => runs'[r].stage = runs[r].stage
  <2>1. CASE q = r
    BY <1>1, <1>3, <2>1 DEF JoinWorker, WorkerDies, Execute, Run
  <2>2. CASE q # r
    BY <1>1, <1>3, <2>2 DEF JoinWorker, WorkerDies, Execute
  <2> QED
    BY <2>1, <2>2
<1>4. CASE DaemonStops
  <2>1. runs'[r] = runs[r] \/ (r \in Workers /\ runs'[r] = [runs[r] EXCEPT !.stage = "joined"])
    BY <1>4 DEF DaemonStops
  <2>2. CASE r \in Workers /\ runs'[r] = [runs[r] EXCEPT !.stage = "joined"]
    BY <1>1, <2>2 DEF Run, Workers, Live
  <2> QED
    BY <2>1, <2>2
<1>5. UNCHANGED runs \/ DaemonStops \/ \E q \in RunIds : JoinWorker(q) \/ WorkerDies(q) \/ Execute(q)
  BY DEF Quiet, ReadReports, ReportsNotRead, ReportsSettled, NothingToClaim, WakeUp,
         ReportNotShown, Tick, SchedulerRestarts, DaemonStarts
<1> QED
  BY <1>2, <1>3, <1>4, <1>5

LEMMA QuietBatch ==
  ASSUME IInv, Quiet, NEW b \in batch'
  PROVE  recorded[b.run] > 0 /\ (b.shown => shown[b.run] > 0)
<1>1. CASE ReadReports
  <2>1. PICK t \in Tasks : /\ tasks[t].report_pending
                           /\ b = [task |-> t, run |-> tasks[t].finished_run_id, shown |-> FALSE]
    BY <1>1 DEF ReadReports
  <2>2. recorded[b.run] > 0 /\ ~b.shown
    BY <2>1 DEF IInv, FinishedRun
  <2> QED
    BY <2>2
<1>2. CASE ~ReadReports
  <2>1. batch' \subseteq batch
    BY <1>2 DEF Quiet, ReportsNotRead, ReportsSettled, NothingToClaim, WakeUp,
       ReportNotShown, JoinWorker, Execute, WorkerDies, Tick, SchedulerRestarts, DaemonStops,
       DaemonStarts, loop
  <2> QED
    BY <2>1 DEF IInv, ReportsKnown
<1> QED
  BY <1>1, <1>2

LEMMA QuietStep ==
  ASSUME IInv, Quiet
  PROVE  IInv'
<1>1. SchedulesTypeOK'
  BY QuietType
<1>2. UNCHANGED <<tasks, recorded, leases, shown, requests, resumes, held>>
  BY QuietUnchanged
<1>3. AttemptsLeft'
  BY <1>2 DEF IInv, AttemptsLeft
<1>4. LeasesFresh'
  BY <1>2, QuietRuns DEF IInv, LeasesFresh
<1>5. RunningRun'
  BY <1>2, QuietRuns DEF IInv, RunningRun
<1>6. FinishedRun'
  BY <1>2, QuietRuns DEF IInv, FinishedRun
<1>7. ReportsKnown'
  BY <1>2, QuietRuns, QuietBatch DEF IInv, ReportsKnown
<1>8. HeldStopped'
  BY <1>2 DEF IInv, HeldStopped
<1>9. OutcomeRecordedOnce' /\ ReportedOnce'
  BY <1>2 DEF IInv, OutcomeRecordedOnce, ReportedOnce
<1>10. ReportNotLost'
  BY <1>2, QuietRuns DEF IInv, ReportNotLost
<1> QED
  BY <1>1, <1>3, <1>4, <1>5, <1>6, <1>7, <1>8, <1>9, <1>10 DEF IInv

-----------------------------------------------------------------------------
(* The steps that change the plugin's table or a session.                  *)

LEMMA RecoverStep ==
  ASSUME IInv, Recover \/ RecoverAnswerLost
  PROVE  IInv'
<1>0. SchedulesTypeOK /\ AttemptsLeft
  BY DEF IInv
<1>1. /\ Recovery
      /\ UNCHANGED <<runs, active, batch, daemon, since, now, leases, shown, requests, resumes, held>>
  BY DEF Recover, RecoverAnswerLost, clock, users, loop
<1>2. ASSUME NEW t \in Tasks
      PROVE  tasks'[t] = IF Stale(t) THEN Interrupted(tasks[t]) ELSE tasks[t]
  BY <1>1 DEF Recovery
<1>3. ASSUME NEW t \in Tasks, Stale(t)
      PROVE  /\ TaskOK(tasks'[t]) /\ tasks'[t].status \in {"paused", "removed"}
             /\ tasks[t].status = "running"
             /\ tasks[t].cancel_requested => /\ tasks'[t].status = "removed"
                                             /\ tasks'[t].finished_run_id = 0
                                             /\ ~tasks'[t].report_pending
             /\ ~tasks[t].cancel_requested => /\ tasks'[t].finished_run_id = tasks[t].run_id
                                              /\ tasks'[t].report_pending
  <2>1. tasks'[t] = Interrupted(tasks[t])
    BY <1>2, <1>3
  <2>2. TaskOK(tasks[t]) /\ tasks[t].status = "running" /\ tasks[t].run_id \in RunIds
    BY <1>0, <1>3, TasksOK DEF Stale, IInv, RunningRun
  <2> QED
    BY <2>1, <2>2, InterruptedOK
<1>4. ASSUME NEW r \in RunIds
      PROVE  /\ recorded'[r] \in {recorded[r], 1} /\ recorded'[r] >= recorded[r]
             /\ recorded'[r] # recorded[r] =>
                  \E t \in Tasks : Stale(t) /\ tasks[t].run_id = r /\ ~tasks[t].cancel_requested
             /\ (\E t \in Tasks : Stale(t) /\ tasks[t].run_id = r /\ ~tasks[t].cancel_requested)
                  => recorded'[r] = 1
  <2>1. CASE \E t \in Tasks : Stale(t) /\ tasks[t].run_id = r /\ ~tasks[t].cancel_requested
    <3>1. recorded[r] = 0
      BY <2>1 DEF Stale, IInv, RunningRun
    <3>2. recorded'[r] = 1
      BY <1>1, <2>1, <3>1 DEF Recovery, Bump
    <3> QED
      BY <2>1, <3>1, <3>2
  <2>2. CASE ~\E t \in Tasks : Stale(t) /\ tasks[t].run_id = r /\ ~tasks[t].cancel_requested
    <3>1. recorded'[r] = recorded[r]
      BY <1>1, <2>2 DEF Recovery
    <3>2. recorded[r] \in Nat
      BY <1>0 DEF SchedulesTypeOK
    <3> QED
      BY <2>2, <3>1, <3>2
  <2> QED
    BY <2>1, <2>2
<1>5. \A t \in Tasks : TaskOK(tasks'[t])
  BY <1>0, <1>2, <1>3, TasksOK
<1>6. tasks' \in [Tasks -> TaskEntry]
  <2>1. tasks' = [t \in Tasks |-> tasks'[t]]
    BY <1>1 DEF Recovery
  <2> QED
    BY <1>5, <2>1 DEF TaskOK
<1>7. recorded' \in [RunIds -> 0..2]
  <2>1. recorded' = [r \in RunIds |-> recorded'[r]]
    BY <1>1 DEF Recovery
  <2>2. \A r \in RunIds : recorded'[r] \in 0..2
    BY <1>0, <1>4 DEF SchedulesTypeOK
  <2> QED
    BY <2>1, <2>2
<1>8. SchedulesTypeOK'
  <2>1. faults' \in 0..MaxFaults
    BY <1>0, FaultType DEF Recover, RecoverAnswerLost, clock
  <2>2. place' \in {"recover", "reports", "settle", "claim", "wait"} /\ recovered' \in BOOLEAN
    BY <1>0 DEF Recover, RecoverAnswerLost, loop, SchedulesTypeOK
  <2>3. \A t \in Tasks : tasks'[t].attempts <= tasks'[t].retries + 1
    BY <1>5 DEF TaskOK
  <2> QED
    BY <1>0, <1>1, <1>6, <1>7, <2>1, <2>2, <2>3 DEF SchedulesTypeOK
<1>9. AttemptsLeft'
  BY <1>5 DEF AttemptsLeft, TaskOK
<1>10. LeasesFresh'
  <2>1. ASSUME NEW r \in RunIds, r > leases
        PROVE  recorded'[r] = 0
    <3>1. ~\E t \in Tasks : Stale(t) /\ tasks[t].run_id = r
      BY <2>1, NowNat, <1>0, BoundsNat DEF IInv, RunningRun, Stale, RunIds
    <3> QED
      BY <1>4, <2>1, <3>1 DEF IInv, LeasesFresh
  <2> QED
    BY <1>1, <2>1 DEF IInv, LeasesFresh
<1>11. RunningRun'
  <2>1. ASSUME NEW t \in Tasks, tasks'[t].status = "running"
        PROVE  ~Stale(t) /\ tasks'[t] = tasks[t]
    BY <1>2, <1>3, <2>1
  <2>2. ASSUME NEW t \in Tasks, tasks'[t].status = "running"
        PROVE  recorded'[tasks[t].run_id] = 0
    <3>1. /\ tasks[t].run_id \in RunIds /\ runs[tasks[t].run_id].task = t
          /\ recorded[tasks[t].run_id] = 0
      BY <2>1, <2>2 DEF IInv, RunningRun
    <3>2. ~\E u \in Tasks : Stale(u) /\ tasks[u].run_id = tasks[t].run_id
      BY <2>1, <2>2, <3>1 DEF IInv, RunningRun, Stale
    <3> QED
      BY <1>4, <3>1, <3>2
  <2> QED
    BY <1>1, <2>1, <2>2 DEF IInv, RunningRun
<1>12. FinishedRun'
  <2>1. ASSUME NEW t \in Tasks, Stale(t)
        PROVE  /\ tasks'[t].finished_run_id # 0 =>
                    /\ tasks'[t].finished_run_id \in RunIds /\ tasks'[t].finished_run_id <= leases
                    /\ runs[tasks'[t].finished_run_id].task = t
                    /\ recorded'[tasks'[t].finished_run_id] > 0
               /\ tasks'[t].report_pending => tasks'[t].finished_run_id # 0
               /\ tasks'[t].status # "unused"
    <3>1. /\ tasks[t].run_id \in RunIds /\ tasks[t].run_id <= leases
          /\ runs[tasks[t].run_id].task = t
      BY <2>1 DEF IInv, RunningRun, Stale
    <3>2. tasks[t].run_id # 0
      BY <3>1, BoundsNat DEF RunIds
    <3>3. CASE tasks[t].cancel_requested
      BY <1>3, <2>1, <3>3
    <3>4. CASE ~tasks[t].cancel_requested
      <4>1. tasks'[t].finished_run_id = tasks[t].run_id
        BY <1>3, <2>1, <3>4
      <4>2. recorded'[tasks[t].run_id] = 1
        BY <1>4, <2>1, <3>1, <3>4
      <4> QED
        BY <1>3, <2>1, <3>1, <3>2, <4>1, <4>2
    <3> QED
      BY <3>3, <3>4
  <2>2. ASSUME NEW t \in Tasks, ~Stale(t), tasks[t].finished_run_id # 0
        PROVE  recorded'[tasks[t].finished_run_id] > 0
    <3>1. tasks[t].finished_run_id \in RunIds /\ recorded[tasks[t].finished_run_id] > 0
      BY <2>2 DEF IInv, FinishedRun
    <3> QED
      BY <1>4, <3>1
  <2> QED
    BY <1>1, <1>2, <2>1, <2>2 DEF IInv, FinishedRun
<1>13. ReportsKnown'
  <2>1. \A r \in RunIds : recorded[r] > 0 => recorded'[r] > 0
    BY <1>4
  <2>2. \A b \in batch : b.run \in RunIds
    BY <1>0 DEF SchedulesTypeOK, Report
  <2> QED
    BY <1>1, <2>1, <2>2 DEF IInv, ReportsKnown
<1>14. HeldStopped'
  BY <1>0, <1>1, <1>2, <1>3 DEF IInv, HeldStopped, SchedulesTypeOK
<1>15. OutcomeRecordedOnce'
  BY <1>4 DEF IInv, OutcomeRecordedOnce
<1>16. ReportedOnce'
  <2>1. \A r \in RunIds : shown[r] \in Nat /\ recorded[r] \in Nat
    BY <1>0 DEF SchedulesTypeOK
  <2> QED
    BY <1>1, <1>4, <2>1 DEF IInv, ReportedOnce
<1>17. ReportNotLost'
  <2>1. ASSUME NEW r \in RunIds, recorded'[r] > 0, shown[r] = 0, tasks'[runs[r].task].status # "removed"
        PROVE  /\ tasks'[runs[r].task].report_pending
               /\ tasks'[runs[r].task].finished_run_id = r
    <3> DEFINE t == runs[r].task
    <3>1. t \in Tasks
      BY <1>0 DEF SchedulesTypeOK, Run
    <3>2. CASE Stale(t)
      <4>1. ~tasks[t].cancel_requested
        BY <1>3, <2>1, <3>1, <3>2
      <4>2. recorded[r] = 0
        <5>1. ~tasks[t].report_pending /\ tasks[t].status # "removed"
          BY <3>1, <3>2 DEF IInv, RunningRun, Stale
        <5>2. ~(recorded[r] > 0)
          BY <2>1, <5>1 DEF IInv, ReportNotLost
        <5> QED
          BY <1>0, <5>2 DEF SchedulesTypeOK
      <4>3. PICK u \in Tasks : Stale(u) /\ tasks[u].run_id = r
        BY <1>4, <2>1, <4>2
      <4>4. u = t
        BY <4>3 DEF IInv, RunningRun, Stale
      <4> QED
        BY <1>3, <3>1, <3>2, <4>1, <4>3, <4>4
    <3>3. CASE ~Stale(t)
      <4>1. tasks'[t] = tasks[t]
        BY <1>2, <3>1, <3>3
      <4>2. recorded'[r] = recorded[r]
        <5>1. ~\E u \in Tasks : Stale(u) /\ tasks[u].run_id = r
          BY <3>3 DEF IInv, RunningRun, Stale
        <5> QED
          BY <1>4, <5>1
      <4> QED
        BY <2>1, <4>1, <4>2 DEF IInv, ReportNotLost
    <3> QED
      BY <3>2, <3>3
  <2> QED
    BY <1>1, <2>1 DEF ReportNotLost
<1> QED
  BY <1>8, <1>9, <1>10, <1>11, <1>12, <1>13, <1>14, <1>15, <1>16, <1>17 DEF IInv

LEMMA StageSet ==
  ASSUME SchedulesTypeOK, NEW r \in RunIds, NEW s \in WorkerStages, runs' = [runs EXCEPT ![r].stage = s]
  PROVE  /\ runs' \in [RunIds -> Run]
         /\ \A q \in RunIds : /\ runs'[q].task = runs[q].task
                              /\ q # r => runs'[q] = runs[q]
         /\ runs'[r].stage = s
<1>1. runs \in [RunIds -> Run] /\ \A q \in RunIds : runs[q] \in Run
  BY DEF SchedulesTypeOK
<1>2. runs' \in [RunIds -> Run]
  BY StageType
<1>3. runs'[r] = [runs[r] EXCEPT !.stage = s]
  BY <1>1
<1>4. runs'[r].stage = s /\ runs'[r].task = runs[r].task
  BY <1>1, <1>3 DEF Run
<1>5. \A q \in RunIds : q # r => runs'[q] = runs[q]
  BY <1>1
<1> QED
  BY <1>2, <1>4, <1>5

LEMMA NoticedOK ==
  ASSUME IInv, NEW r \in RunIds, recorded[r] > 0, shown' = Noticed(r)
  PROVE  /\ shown' \in [RunIds -> 0..2] /\ shown'[r] > 0
         /\ \A q \in RunIds : /\ shown'[q] >= shown[q] /\ shown'[q] <= recorded[q]
                              /\ q # r => shown'[q] = shown[q]
<1>1. shown \in [RunIds -> 0..2] /\ recorded \in [RunIds -> 0..2]
  BY DEF IInv, SchedulesTypeOK
<1>2. \A q \in RunIds : shown[q] \in 0..2 /\ recorded[q] \in 0..2 /\ shown[q] <= recorded[q]
  BY <1>1 DEF IInv, ReportedOnce
<1>3. shown'[r] = IF shown[r] = 0 THEN 1 ELSE shown[r]
  BY <1>1 DEF Noticed
<1>4. \A q \in RunIds : q # r => shown'[q] = shown[q]
  BY <1>1 DEF Noticed
<1>5. shown'[r] > 0 /\ shown'[r] >= shown[r] /\ shown'[r] <= recorded[r] /\ shown'[r] \in 0..2
  BY <1>2, <1>3
<1>6. shown' \in [RunIds -> 0..2]
  BY <1>1, <1>2, <1>4, <1>5 DEF Noticed
<1>7. \A q \in RunIds : shown'[q] >= shown[q] /\ shown'[q] <= recorded[q]
  BY <1>2, <1>4, <1>5
<1> QED
  BY <1>4, <1>5, <1>6, <1>7

(* Showing a report of a run that has an outcome.                          *)
LEMMA NoticeKeeps ==
  ASSUME IInv, SchedulesTypeOK', ReportsKnown', UNCHANGED <<tasks, recorded, leases, held>>,
         NEW r \in RunIds, recorded[r] > 0, shown' = Noticed(r),
         \A q \in RunIds : /\ runs'[q].task = runs[q].task
                           /\ q # r => runs'[q].stage = runs[q].stage
  PROVE  IInv'
<1>0. /\ shown' \in [RunIds -> 0..2] /\ shown'[r] > 0
      /\ \A q \in RunIds : /\ shown'[q] >= shown[q] /\ shown'[q] <= recorded[q]
                           /\ q # r => shown'[q] = shown[q]
  BY NoticedOK, Zenon
<1>1. AttemptsLeft' /\ HeldStopped' /\ OutcomeRecordedOnce'
  BY DEF IInv, AttemptsLeft, HeldStopped, OutcomeRecordedOnce
<1>2. LeasesFresh'
  <2>1. ~(r > leases)
    BY DEF IInv, LeasesFresh
  <2> QED
    BY <1>0, <2>1 DEF IInv, LeasesFresh
<1>3. RunningRun' /\ FinishedRun'
  BY DEF IInv, RunningRun, FinishedRun
<1>4. ReportedOnce'
  BY <1>0 DEF ReportedOnce
<1>5. ReportNotLost'
  <2>1. \A q \in RunIds : shown'[q] = 0 => shown[q] = 0
    <3>1. \A q \in RunIds : shown[q] \in 0..2 /\ shown'[q] \in 0..2
      BY <1>0 DEF IInv, SchedulesTypeOK
    <3> QED
      BY <1>0, <3>1
  <2> QED
    BY <2>1 DEF IInv, ReportNotLost
<1> QED
  BY <1>1, <1>2, <1>3, <1>4, <1>5 DEF IInv

LEMMA ShowReportStep ==
  ASSUME IInv, NEW b \in batch, ShowReport(b)
  PROVE  IInv'
<1>1. /\ UNCHANGED <<tasks, recorded, runs, active, place, recovered, daemon, since, now, faults,
                     leases, requests, resumes, held>>
      /\ shown' = Noticed(b.run) /\ batch' = (batch \ {b}) \cup {[b EXCEPT !.shown = TRUE]}
  BY DEF ShowReport, plugin, clock, users
<1>2. b \in Report /\ b.run \in RunIds /\ recorded[b.run] > 0
  BY DEF IInv, SchedulesTypeOK, Report, ReportsKnown
<1>3. [b EXCEPT !.shown = TRUE] \in Report /\ [b EXCEPT !.shown = TRUE].run = b.run
  BY <1>2 DEF Report
<1>4. /\ shown' \in [RunIds -> 0..2] /\ shown'[b.run] > 0
      /\ \A q \in RunIds : /\ shown'[q] >= shown[q] /\ shown'[q] <= recorded[q]
                           /\ q # b.run => shown'[q] = shown[q]
  BY <1>1, <1>2, NoticedOK, Zenon
<1>5. SchedulesTypeOK'
  <2>1. SchedulesTypeOK
    BY DEF IInv
  <2> QED
    BY <1>1, <1>3, <1>4, <2>1 DEF SchedulesTypeOK
<1>6. ReportsKnown'
  <2>1. \A q \in RunIds : shown[q] > 0 => shown'[q] > 0
    <3>1. \A q \in RunIds : shown[q] \in Nat /\ shown'[q] \in Nat
      BY <1>4 DEF IInv, SchedulesTypeOK
    <3> QED
      BY <1>4, <3>1
  <2>2. \A c \in batch : c.run \in RunIds
    BY DEF IInv, SchedulesTypeOK, Report
  <2>3. \A c \in batch' : c \in batch \/ c = [b EXCEPT !.shown = TRUE]
    BY <1>1
  <2> QED
    BY <1>1, <1>2, <1>3, <1>4, <2>1, <2>2, <2>3 DEF IInv, ReportsKnown
<1> QED
  BY <1>1, <1>2, <1>5, <1>6, NoticeKeeps

LEMMA WorkerShowsStep ==
  ASSUME IInv, NEW r \in RunIds, WorkerShows(r)
  PROVE  IInv'
<1>0. SchedulesTypeOK
  BY DEF IInv
<1>1. /\ UNCHANGED <<tasks, recorded, active, place, recovered, batch, daemon, since, now,
                     leases, requests, resumes, held>>
      /\ runs[r].stage = "report"
  BY DEF WorkerShows, plugin, loop, users
<1>2. recorded[r] > 0
  BY <1>1 DEF IInv, ReportsKnown
<1>3. "ack" \in WorkerStages /\ "done" \in WorkerStages
  BY DEF WorkerStages, Live
<1>4. faults' \in 0..MaxFaults
  BY <1>0, FaultType DEF WorkerShows
<1>5. CASE shown' = Noticed(r) /\ runs' = [runs EXCEPT ![r].stage = "ack"]
  <2>1. /\ runs' \in [RunIds -> Run]
        /\ \A q \in RunIds : /\ runs'[q].task = runs[q].task
                             /\ q # r => runs'[q] = runs[q]
        /\ runs'[r].stage = "ack"
    BY <1>0, <1>3, <1>5, StageSet, Zenon
  <2>2. /\ shown' \in [RunIds -> 0..2] /\ shown'[r] > 0
        /\ \A q \in RunIds : /\ shown'[q] >= shown[q] /\ shown'[q] <= recorded[q]
                             /\ q # r => shown'[q] = shown[q]
    BY <1>2, <1>5, NoticedOK, Zenon
  <2>3. SchedulesTypeOK'
    BY <1>0, <1>1, <1>4, <2>1, <2>2 DEF SchedulesTypeOK
  <2>4. ReportsKnown'
    <3>1. \A q \in RunIds : shown[q] > 0 => shown'[q] > 0
      <4>1. \A q \in RunIds : shown[q] \in Nat /\ shown'[q] \in Nat
        BY <1>0, <2>2 DEF SchedulesTypeOK
      <4> QED
        BY <2>2, <4>1
    <3>2. \A c \in batch : c.run \in RunIds
      BY <1>0 DEF SchedulesTypeOK, Report
    <3> QED
      BY <1>1, <2>1, <2>2, <3>1, <3>2 DEF IInv, ReportsKnown
  <2> QED
    BY <1>1, <1>2, <1>5, <2>1, <2>3, <2>4, NoticeKeeps
<1>6. CASE runs' = [runs EXCEPT ![r].stage = "done"] /\ UNCHANGED shown
  <2>1. /\ runs' \in [RunIds -> Run]
        /\ \A q \in RunIds : /\ runs'[q].task = runs[q].task
                             /\ q # r => runs'[q] = runs[q]
        /\ runs'[r].stage = "done"
    BY <1>0, <1>3, <1>6, StageSet, Zenon
  <2>2. SchedulesTypeOK'
    BY <1>0, <1>1, <1>4, <1>6, <2>1 DEF SchedulesTypeOK
  <2>3. AttemptsLeft' /\ HeldStopped' /\ OutcomeRecordedOnce' /\ ReportedOnce'
    BY <1>1, <1>6 DEF IInv, AttemptsLeft, HeldStopped, OutcomeRecordedOnce, ReportedOnce
  <2>4. LeasesFresh'
    BY <1>1, <1>6, <2>1 DEF IInv, LeasesFresh
  <2>5. RunningRun' /\ FinishedRun' /\ ReportsKnown'
    BY <1>1, <1>6, <2>1 DEF IInv, RunningRun, FinishedRun, ReportsKnown
  <2>6. ReportNotLost'
    BY <1>1, <1>6, <2>1 DEF IInv, ReportNotLost
  <2> QED
    BY <2>2, <2>3, <2>4, <2>5, <2>6 DEF IInv
<1> QED
  BY <1>5, <1>6 DEF WorkerShows

(* An acknowledgement clears the mark of the report it is about.           *)
LEMMA AcknowledgedOK ==
  ASSUME SchedulesTypeOK, NEW t \in Tasks, NEW r \in RunIds, tasks' = Acknowledged(t, r) \/ UNCHANGED tasks,
         NEW u \in Tasks
  PROVE  /\ tasks' \in [Tasks -> TaskEntry]
         /\ tasks'[u].status = tasks[u].status /\ tasks'[u].run_id = tasks[u].run_id
         /\ tasks'[u].finished_run_id = tasks[u].finished_run_id
         /\ tasks'[u].attempts = tasks[u].attempts /\ tasks'[u].retries = tasks[u].retries
         /\ tasks'[u].pause_requested = tasks[u].pause_requested
         /\ tasks'[u].cancel_requested = tasks[u].cancel_requested
         /\ tasks'[u].report_pending => tasks[u].report_pending
         /\ tasks[u].finished_run_id # r => tasks'[u].report_pending = tasks[u].report_pending
<1>1. tasks \in [Tasks -> TaskEntry] /\ tasks[t] \in TaskEntry
  BY DEF SchedulesTypeOK
<1>2. CASE UNCHANGED tasks
  BY <1>1, <1>2
<1>3. CASE tasks' = [tasks EXCEPT ![t].report_pending = FALSE] /\ tasks[t].finished_run_id = r
  <2>1. [tasks[t] EXCEPT !.report_pending = FALSE] \in TaskEntry
    BY <1>1 DEF TaskEntry
  <2>2. tasks' \in [Tasks -> TaskEntry]
    BY <1>1, <1>3, <2>1
  <2>3. CASE u = t
    <3>1. tasks'[u] = [tasks[t] EXCEPT !.report_pending = FALSE]
      BY <1>1, <1>3, <2>3
    <3> QED
      BY <1>1, <1>3, <2>2, <2>3, <3>1 DEF TaskEntry
  <2>4. CASE u # t
    BY <1>1, <1>3, <2>2, <2>4
  <2> QED
    BY <2>3, <2>4
<1> QED
  BY <1>2, <1>3 DEF Acknowledged

LEMMA AcknowledgeKeeps ==
  ASSUME IInv, SchedulesTypeOK', ReportsKnown', UNCHANGED <<recorded, leases, shown, held>>,
         NEW t \in Tasks, NEW r \in RunIds, shown[r] > 0,
         tasks' = Acknowledged(t, r) \/ UNCHANGED tasks,
         \A q \in RunIds : /\ runs'[q].task = runs[q].task
                           /\ runs[q].stage = "free" => runs'[q].stage = "free"
  PROVE  IInv'
<1>0. SchedulesTypeOK
  BY DEF IInv
<1>1. ASSUME NEW u \in Tasks
      PROVE  /\ tasks'[u].status = tasks[u].status /\ tasks'[u].run_id = tasks[u].run_id
             /\ tasks'[u].finished_run_id = tasks[u].finished_run_id
             /\ tasks'[u].attempts = tasks[u].attempts /\ tasks'[u].retries = tasks[u].retries
             /\ tasks'[u].pause_requested = tasks[u].pause_requested
             /\ tasks'[u].cancel_requested = tasks[u].cancel_requested
             /\ tasks'[u].report_pending => tasks[u].report_pending
             /\ tasks[u].finished_run_id # r => tasks'[u].report_pending = tasks[u].report_pending
  BY <1>0, AcknowledgedOK
<1>2. AttemptsLeft'
  BY <1>1 DEF IInv, AttemptsLeft
<1>3. LeasesFresh'
  BY DEF IInv, LeasesFresh
<1>4. RunningRun'
  BY <1>1 DEF IInv, RunningRun
<1>5. FinishedRun'
  BY <1>1 DEF IInv, FinishedRun
<1>6. HeldStopped'
  BY <1>0, <1>1 DEF IInv, HeldStopped, SchedulesTypeOK
<1>7. OutcomeRecordedOnce' /\ ReportedOnce'
  BY DEF IInv, OutcomeRecordedOnce, ReportedOnce
<1>8. ReportNotLost'
  <2>1. ASSUME NEW q \in RunIds, recorded[q] > 0, shown[q] = 0, tasks'[runs[q].task].status # "removed"
        PROVE  /\ tasks'[runs[q].task].report_pending
               /\ tasks'[runs[q].task].finished_run_id = q
    <3>1. runs[q].task \in Tasks
      BY <1>0 DEF SchedulesTypeOK, Run
    <3>2. tasks[runs[q].task].report_pending /\ tasks[runs[q].task].finished_run_id = q
      BY <1>1, <2>1, <3>1 DEF IInv, ReportNotLost
    <3>3. q # r
      BY <2>1
    <3> QED
      BY <1>1, <3>1, <3>2, <3>3
  <2> QED
    BY <2>1 DEF ReportNotLost
<1> QED
  BY <1>2, <1>3, <1>4, <1>5, <1>6, <1>7, <1>8 DEF IInv

(* Tasks keep their types when a report is acknowledged.                   *)
LEMMA AcknowledgeTypes ==
  ASSUME SchedulesTypeOK, NEW t \in Tasks, NEW r \in RunIds, tasks' = Acknowledged(t, r) \/ UNCHANGED tasks
  PROVE  /\ tasks' \in [Tasks -> TaskEntry]
         /\ \A u \in Tasks : tasks'[u].attempts <= tasks'[u].retries + 1
<1>1. ASSUME NEW u \in Tasks
      PROVE  tasks'[u].attempts = tasks[u].attempts /\ tasks'[u].retries = tasks[u].retries
  BY AcknowledgedOK
<1>2. tasks' \in [Tasks -> TaskEntry]
  BY AcknowledgedOK
<1> QED
  BY <1>1, <1>2 DEF SchedulesTypeOK

LEMMA AcknowledgeReportStep ==
  ASSUME IInv, NEW b \in batch, AcknowledgeReport(b)
  PROVE  IInv'
<1>0. SchedulesTypeOK
  BY DEF IInv
<1>1. /\ UNCHANGED <<recorded, runs, active, place, recovered, daemon, since, now, leases, shown,
                     requests, resumes, held>>
      /\ b.shown /\ batch' = batch \ {b}
      /\ tasks' = Acknowledged(b.task, b.run) \/ UNCHANGED tasks
      /\ Fault \/ UNCHANGED faults
  BY DEF AcknowledgeReport, users
<1>2. b.task \in Tasks /\ b.run \in RunIds /\ shown[b.run] > 0
  BY <1>1 DEF IInv, SchedulesTypeOK, Report, ReportsKnown
<1>3. faults' \in 0..MaxFaults
  BY <1>0, <1>1, FaultType
<1>4. /\ tasks' \in [Tasks -> TaskEntry]
      /\ \A u \in Tasks : tasks'[u].attempts <= tasks'[u].retries + 1
  BY <1>0, <1>1, <1>2, AcknowledgeTypes
<1>5. SchedulesTypeOK'
  BY <1>0, <1>1, <1>3, <1>4 DEF SchedulesTypeOK
<1>6. ReportsKnown'
  BY <1>1 DEF IInv, ReportsKnown
<1> QED
  BY <1>1, <1>2, <1>5, <1>6, AcknowledgeKeeps

LEMMA WorkerAcknowledgesStep ==
  ASSUME IInv, NEW r \in RunIds, WorkerAcknowledges(r)
  PROVE  IInv'
<1>0. SchedulesTypeOK
  BY DEF IInv
<1>1. /\ UNCHANGED <<recorded, active, place, recovered, batch, daemon, since, now, leases, shown,
                     requests, resumes, held>>
      /\ runs[r].stage = "ack" /\ runs' = [runs EXCEPT ![r].stage = "done"]
      /\ tasks' = Acknowledged(runs[r].task, r) \/ UNCHANGED tasks
      /\ Fault \/ UNCHANGED faults
  BY DEF WorkerAcknowledges, loop, users
<1>2. runs[r].task \in Tasks /\ shown[r] > 0
  BY <1>0, <1>1 DEF IInv, SchedulesTypeOK, Run, ReportsKnown
<1>3. faults' \in 0..MaxFaults
  BY <1>0, <1>1, FaultType
<1>4. /\ tasks' \in [Tasks -> TaskEntry]
      /\ \A u \in Tasks : tasks'[u].attempts <= tasks'[u].retries + 1
  BY <1>0, <1>1, <1>2, AcknowledgeTypes
<1>5. "done" \in WorkerStages
  BY DEF WorkerStages, Live
<1>6. /\ runs' \in [RunIds -> Run]
      /\ \A q \in RunIds : /\ runs'[q].task = runs[q].task
                           /\ q # r => runs'[q] = runs[q]
      /\ runs'[r].stage = "done"
  BY <1>0, <1>1, <1>5, StageSet, Zenon
<1>7. SchedulesTypeOK'
  BY <1>0, <1>1, <1>3, <1>4, <1>6 DEF SchedulesTypeOK
<1>8. ReportsKnown'
  BY <1>1, <1>6 DEF IInv, ReportsKnown
<1>9. \A q \in RunIds : /\ runs'[q].task = runs[q].task
                        /\ runs[q].stage = "free" => runs'[q].stage = "free"
  BY <1>1, <1>6
<1> QED
  BY <1>1, <1>2, <1>7, <1>8, <1>9, AcknowledgeKeeps

(* What finish leaves of a task.                                           *)
Ended(x, result, manual, r) ==
  [AfterRun(x, result, manual) EXCEPT !.finished_run_id = r, !.report_pending = TRUE]

LEMMA FinishedOK ==
  ASSUME NEW x, TaskOK(x), now \in Nat, NEW result \in Outcomes, NEW manual \in BOOLEAN,
         NEW r \in RunIds
  PROVE  /\ TaskOK(Ended(x, result, manual, r))
         /\ Ended(x, result, manual, r).status \in {"active", "paused", "completed", "cancelled"}
         /\ x.pause_requested \/ x.cancel_requested
              => Ended(x, result, manual, r).status \in {"paused", "cancelled"}
         /\ Ended(x, result, manual, r).finished_run_id = r
         /\ Ended(x, result, manual, r).report_pending
<1> DEFINE s == AfterRun(x, result, manual)
           y == Ended(x, result, manual, r)
<1>1. /\ TaskOK(s) /\ s.status \in {"active", "paused", "completed", "cancelled"}
      /\ x.pause_requested \/ x.cancel_requested => s.status \in {"paused", "cancelled"}
  BY SettledOK
<1>2. y = [s EXCEPT !.finished_run_id = r, !.report_pending = TRUE]
  BY DEF Ended
<1> HIDE DEF s, y
<1>3. s \in TaskEntry /\ r \in 0..MaxRuns
  BY <1>1, BoundsNat DEF TaskOK, RunIds
<1>4. y \in TaskEntry
  BY <1>2, <1>3 DEF TaskEntry
<1>5. /\ y.status = s.status /\ y.attempts = s.attempts /\ y.retries = s.retries
      /\ y.finished_run_id = r /\ y.report_pending
  BY <1>2, <1>3 DEF TaskEntry
<1> QED
  BY <1>1, <1>4, <1>5 DEF TaskOK, y

LEMMA FinishKeeps ==
  ASSUME IInv, NEW r \in RunIds, FinishesRun(tasks[runs[r].task], r), RecordFinish(r),
         UNCHANGED <<active, place, recovered, batch, daemon, since, now, leases, shown,
                     requests, resumes, held>>,
         faults' \in 0..MaxFaults, runs' \in [RunIds -> Run],
         \A q \in RunIds : /\ runs'[q].task = runs[q].task
                           /\ runs[q].stage = "free" => runs'[q].stage = "free"
                           /\ runs'[q].stage = "report" => runs[q].stage = "report" \/ q = r
                           /\ runs'[q].stage = "ack" => runs[q].stage = "ack"
  PROVE  IInv'
<1> DEFINE t == runs[r].task
<1>0. SchedulesTypeOK /\ AttemptsLeft
  BY DEF IInv
<1>1. /\ t \in Tasks /\ TaskOK(tasks[t]) /\ now \in Nat /\ tasks \in [Tasks -> TaskEntry]
      /\ runs[r].result \in Outcomes /\ runs[r].manual \in BOOLEAN
  BY <1>0, TasksOK, NowNat DEF SchedulesTypeOK, Run
<1>2. /\ tasks[t].status = "running" /\ tasks[t].run_id = r /\ r <= leases
      /\ recorded[r] = 0 /\ ~tasks[t].report_pending
  BY <1>1 DEF FinishesRun, IInv, RunningRun
<1>3. /\ tasks' = [tasks EXCEPT ![t] = tasks'[t]]
      /\ tasks'[t] = Ended(tasks[t], runs[r].result, runs[r].manual, r)
  BY <1>1 DEF RecordFinish, Ended
<1>4. /\ TaskOK(tasks'[t]) /\ tasks'[t].status \in {"active", "paused", "completed", "cancelled"}
      /\ tasks[t].pause_requested \/ tasks[t].cancel_requested
           => tasks'[t].status \in {"paused", "cancelled"}
      /\ tasks'[t].finished_run_id = r /\ tasks'[t].report_pending
  BY <1>1, <1>3, FinishedOK
<1>5. \A u \in Tasks : u # t => tasks'[u] = tasks[u]
  BY <1>1, <1>3
<1>6. /\ recorded' \in [RunIds -> 0..2] /\ recorded'[r] = 1
      /\ \A q \in RunIds : q # r => recorded'[q] = recorded[q]
  BY <1>0, <1>2 DEF RecordFinish, Bump, SchedulesTypeOK
<1>7. \A u \in Tasks : TaskOK(tasks'[u])
  BY <1>0, <1>4, <1>5, TasksOK
<1>8. tasks' \in [Tasks -> TaskEntry]
  BY <1>1, <1>3, <1>4 DEF TaskOK
<1>9. SchedulesTypeOK'
  <2>1. \A u \in Tasks : tasks'[u].attempts <= tasks'[u].retries + 1
    BY <1>7 DEF TaskOK
  <2> QED
    BY <1>0, <1>6, <1>8, <2>1 DEF SchedulesTypeOK
<1>10. AttemptsLeft'
  BY <1>7 DEF AttemptsLeft, TaskOK
<1>11. LeasesFresh'
  <2>1. ~(r > leases)
    BY <1>0, <1>2, NowNat DEF RunIds
  <2> QED
    BY <1>6, <2>1 DEF IInv, LeasesFresh
<1>12. RunningRun'
  <2>1. ASSUME NEW u \in Tasks, tasks'[u].status = "running"
        PROVE  /\ tasks'[u] = tasks[u] /\ tasks[u].run_id \in RunIds
               /\ recorded'[tasks[u].run_id] = recorded[tasks[u].run_id]
    <3>1. u # t
      BY <1>4, <2>1
    <3>2. tasks'[u] = tasks[u] /\ tasks[u].run_id \in RunIds /\ tasks[u].run_id # r
      BY <1>5, <2>1, <3>1 DEF IInv, RunningRun
    <3> QED
      BY <1>6, <3>2
  <2> QED
    BY <2>1 DEF IInv, RunningRun
<1>13. FinishedRun'
  <2>1. \A q \in RunIds : recorded[q] > 0 => recorded'[q] > 0
    BY <1>6
  <2>2. r # 0
    BY BoundsNat DEF RunIds
  <2> QED
    BY <1>2, <1>4, <1>5, <1>6, <2>1, <2>2 DEF IInv, FinishedRun
<1>14. ReportsKnown'
  <2>1. \A q \in RunIds : recorded[q] > 0 => recorded'[q] > 0
    BY <1>6
  <2>2. \A b \in batch : b.run \in RunIds
    BY <1>0 DEF SchedulesTypeOK, Report
  <2> QED
    BY <1>6, <2>1, <2>2 DEF IInv, ReportsKnown
<1>15. HeldStopped'
  <2>1. ASSUME NEW u \in held
        PROVE  \/ tasks'[u].status \in {"paused", "cancelled", "removed"}
               \/ tasks'[u].status = "running" /\ (tasks'[u].pause_requested \/ tasks'[u].cancel_requested)
    <3>1. u \in Tasks
      BY <1>0 DEF SchedulesTypeOK
    <3>2. CASE u = t
      BY <1>2, <1>4, <3>2 DEF IInv, HeldStopped
    <3>3. CASE u # t
      BY <1>5, <3>1, <3>3 DEF IInv, HeldStopped
    <3> QED
      BY <3>2, <3>3
  <2> QED
    BY <2>1 DEF HeldStopped
<1>16. OutcomeRecordedOnce'
  BY <1>6 DEF IInv, OutcomeRecordedOnce
<1>17. ReportedOnce'
  <2>1. \A q \in RunIds : shown[q] \in Nat
    BY <1>0 DEF SchedulesTypeOK
  <2>2. shown[r] <= 1
    BY <1>2, <2>1 DEF IInv, ReportedOnce
  <2> QED
    BY <1>6, <2>2 DEF IInv, ReportedOnce
<1>18. ReportNotLost'
  <2>1. ASSUME NEW q \in RunIds, recorded'[q] > 0, shown[q] = 0, tasks'[runs[q].task].status # "removed"
        PROVE  /\ tasks'[runs[q].task].report_pending
               /\ tasks'[runs[q].task].finished_run_id = q
    <3>1. runs[q].task \in Tasks
      BY <1>0 DEF SchedulesTypeOK, Run
    <3>2. CASE q = r
      BY <1>4, <3>2
    <3>3. CASE q # r /\ runs[q].task = t
      <4>1. recorded[q] > 0
        BY <1>6, <2>1, <3>3
      <4> QED
        BY <1>2, <2>1, <3>3, <4>1 DEF IInv, ReportNotLost
    <3>4. CASE q # r /\ runs[q].task # t
      <4>1. recorded[q] > 0 /\ tasks'[runs[q].task] = tasks[runs[q].task]
        BY <1>5, <1>6, <2>1, <3>1, <3>4
      <4> QED
        BY <2>1, <4>1 DEF IInv, ReportNotLost
    <3> QED
      BY <3>2, <3>3, <3>4
  <2> QED
    BY <2>1 DEF ReportNotLost
<1> QED
  BY <1>9, <1>10, <1>11, <1>12, <1>13, <1>14, <1>15, <1>16, <1>17, <1>18 DEF IInv

LEMMA FinishRunStep ==
  ASSUME IInv, NEW r \in RunIds, FinishRun(r)
  PROVE  IInv'
<1>0. SchedulesTypeOK
  BY DEF IInv
<1>1. /\ runs[r].stage = "finish" /\ runs' = [runs EXCEPT ![r].stage = "report"]
      /\ UNCHANGED <<active, place, recovered, batch, daemon, since, now, faults, leases, shown,
                     requests, resumes, held>>
  BY DEF FinishRun, loop, clock, users
<1>2. "report" \in WorkerStages
  BY DEF WorkerStages, Live
<1>3. /\ runs' \in [RunIds -> Run]
      /\ \A q \in RunIds : /\ runs'[q].task = runs[q].task
                           /\ q # r => runs'[q] = runs[q]
      /\ runs'[r].stage = "report"
  BY <1>0, <1>1, <1>2, StageSet, Zenon
<1>4. CASE AlreadyFinished(tasks[runs[r].task], r) /\ UNCHANGED plugin
  <2>1. recorded[r] > 0 /\ UNCHANGED <<tasks, recorded>>
    <3>1. r # 0 /\ runs[r].task \in Tasks
      BY <1>0, BoundsNat DEF RunIds, SchedulesTypeOK, Run
    <3> QED
      BY <1>4, <3>1 DEF AlreadyFinished, IInv, FinishedRun, plugin
  <2>2. SchedulesTypeOK'
    BY <1>0, <1>1, <1>3, <2>1 DEF SchedulesTypeOK
  <2>3. AttemptsLeft' /\ HeldStopped' /\ OutcomeRecordedOnce' /\ ReportedOnce'
    BY <1>1, <2>1 DEF IInv, AttemptsLeft, HeldStopped, OutcomeRecordedOnce, ReportedOnce
  <2>4. LeasesFresh'
    BY <1>1, <1>3, <2>1 DEF IInv, LeasesFresh
  <2>5. RunningRun' /\ FinishedRun' /\ ReportsKnown'
    BY <1>1, <1>3, <2>1 DEF IInv, RunningRun, FinishedRun, ReportsKnown
  <2>6. ReportNotLost'
    BY <1>1, <1>3, <2>1 DEF IInv, ReportNotLost
  <2> QED
    BY <2>2, <2>3, <2>4, <2>5, <2>6 DEF IInv
<1>5. CASE FinishesRun(tasks[runs[r].task], r) /\ RecordFinish(r)
  <2>1. faults' \in 0..MaxFaults
    BY <1>0, <1>1, FaultType
  <2>2. \A q \in RunIds : /\ runs'[q].task = runs[q].task
                          /\ runs[q].stage = "free" => runs'[q].stage = "free"
                          /\ runs'[q].stage = "report" => runs[q].stage = "report" \/ q = r
                          /\ runs'[q].stage = "ack" => runs[q].stage = "ack"
    BY <1>1, <1>3
  <2> QED
    BY <1>1, <1>3, <1>5, <2>1, <2>2, FinishKeeps
<1> QED
  BY <1>4, <1>5 DEF FinishRun

LEMMA FinishAnswerLostStep ==
  ASSUME IInv, NEW r \in RunIds, FinishAnswerLost(r)
  PROVE  IInv'
<1>0. SchedulesTypeOK
  BY DEF IInv
<1>1. /\ FinishesRun(tasks[runs[r].task], r) /\ RecordFinish(r)
      /\ UNCHANGED <<runs, active, place, recovered, batch, daemon, since, now, leases, shown,
                     requests, resumes, held>>
  BY DEF FinishAnswerLost, loop, users
<1>2. faults' \in 0..MaxFaults
  BY <1>0, FaultType DEF FinishAnswerLost
<1>3. runs' \in [RunIds -> Run]
  BY <1>0, <1>1 DEF SchedulesTypeOK
<1>4. \A q \in RunIds : /\ runs'[q].task = runs[q].task
                        /\ runs[q].stage = "free" => runs'[q].stage = "free"
                        /\ runs'[q].stage = "report" => runs[q].stage = "report" \/ q = r
                        /\ runs'[q].stage = "ack" => runs[q].stage = "ack"
  BY <1>1
<1> QED
  BY <1>1, <1>2, <1>3, <1>4, FinishKeeps

LEMMA ClaimKeeps ==
  ASSUME IInv, NEW t \in Tasks, NEW stage \in {"running", "lost"}, Claim(t, stage),
         active' \subseteq Tasks, faults' \in 0..MaxFaults, recovered' \in BOOLEAN,
         place' \in {"recover", "reports", "settle", "claim", "wait"},
         UNCHANGED <<batch, daemon, since, now, shown>>
  PROVE  IInv'
<1> DEFINE lease == leases + 1
<1>0. SchedulesTypeOK /\ AttemptsLeft
  BY DEF IInv
<1>1. /\ lease \in RunIds /\ leases' = lease /\ leases' \in 0..MaxRuns /\ lease > leases
      /\ \A q \in RunIds : q <= leases => q <= leases' /\ q # lease
      /\ \A q \in RunIds : q > leases' => q > leases /\ q # lease
  BY <1>0, BoundsNat DEF SchedulesTypeOK, Claim, RunIds
<1>2. /\ TaskOK(tasks[t]) /\ tasks[t].status = "active" /\ ~tasks[t].report_pending
      /\ tasks \in [Tasks -> TaskEntry] /\ now \in Nat /\ t \notin held
  BY <1>0, TasksOK, NowNat DEF Claim, NextTask, ReadyForClaim, SchedulesTypeOK, IInv, HeldStopped
<1>3. runs[lease].stage = "free" /\ recorded[lease] = 0 /\ shown[lease] = 0
  BY <1>1 DEF IInv, LeasesFresh
<1>4. runs \in [RunIds -> Run] /\ runs[lease] \in Run
  BY <1>0, <1>1 DEF SchedulesTypeOK
<1>5. UNCHANGED <<requests, held>> /\ resumes' \subseteq Tasks
  BY <1>0 DEF Claim, users, SchedulesTypeOK
<1>6. \A b \in batch : b.run \in RunIds /\ b.run # lease
  <2>1. \A b \in batch : b.run \in RunIds /\ recorded[b.run] > 0
    BY <1>0 DEF SchedulesTypeOK, Report, IInv, ReportsKnown
  <2> QED
    BY <1>3, <2>1
<1>7. /\ tasks' = [tasks EXCEPT ![t] = tasks'[t]] /\ runs' = [runs EXCEPT ![lease] = runs'[lease]]
      /\ \/ /\ tasks'[t] = Skipped(tasks[t], lease)
            /\ recorded' = [recorded EXCEPT ![lease] = Bump(@)]
            /\ runs'[lease] = [runs[lease] EXCEPT !.stage = "skipped", !.task = t]
         \/ /\ tasks'[t] = Claimed(tasks[t], lease) /\ UNCHANGED recorded
            /\ runs'[lease] = [stage |-> stage, task |-> t, due |-> tasks[t].due, cause |-> Cause(t),
                               early |-> tasks[t].due > now, manual |-> ManualOrigin(tasks[t]),
                               result |-> "none"]
  <2>1. CASE SkippedByPolicy(tasks[t])
    BY <1>1, <1>2, <1>4, <2>1 DEF Claim
  <2>2. CASE ~SkippedByPolicy(tasks[t])
    BY <1>1, <1>2, <1>4, <2>2 DEF Claim
  <2> QED
    BY <2>1, <2>2
<1>8. \A u \in Tasks : u # t => tasks'[u] = tasks[u]
  BY <1>2, <1>7
<1>9. \A q \in RunIds : q # lease => runs'[q] = runs[q]
  BY <1>4, <1>7
<1>10. \A q \in RunIds : q # lease => recorded'[q] = recorded[q]
  BY <1>0, <1>7 DEF SchedulesTypeOK
<1>11. \/ /\ TaskOK(tasks'[t]) /\ tasks'[t].status \in {"active", "skipped"}
          /\ tasks'[t].finished_run_id = lease /\ tasks'[t].report_pending
          /\ recorded'[lease] = 1
       \/ /\ TaskOK(tasks'[t]) /\ tasks'[t].status = "running" /\ tasks'[t].run_id = lease
          /\ tasks'[t].finished_run_id = tasks[t].finished_run_id
          /\ ~tasks'[t].report_pending /\ recorded'[lease] = 0
  <2>1. CASE tasks'[t] = Skipped(tasks[t], lease) /\ recorded' = [recorded EXCEPT ![lease] = Bump(@)]
    <3>1. recorded'[lease] = 1
      BY <1>0, <1>1, <1>3, <2>1 DEF Bump, SchedulesTypeOK
    <3> HIDE DEF lease
    <3>2. /\ TaskOK(Skipped(tasks[t], lease))
          /\ Skipped(tasks[t], lease).status \in {"active", "skipped"}
          /\ Skipped(tasks[t], lease).finished_run_id = lease
          /\ Skipped(tasks[t], lease).report_pending = TRUE
      BY <1>1, <1>2, SkippedOK
    <3> QED
      BY <2>1, <3>1, <3>2
  <2>2. CASE tasks'[t] = Claimed(tasks[t], lease) /\ UNCHANGED recorded
    <3> HIDE DEF lease
    <3> QED
      BY <1>1, <1>2, <1>3, <2>2, ClaimedOK
  <2> QED
    BY <1>7, <2>1, <2>2
<1>12. runs'[lease] \in Run /\ runs'[lease].task = t /\ runs'[lease].stage \notin {"free", "report", "ack"}
  <2>1. CASE runs'[lease] = [runs[lease] EXCEPT !.stage = "skipped", !.task = t]
    BY <1>4, <2>1 DEF Run, WorkerStages
  <2>2. CASE runs'[lease] = [stage |-> stage, task |-> t, due |-> tasks[t].due, cause |-> Cause(t),
                             early |-> tasks[t].due > now, manual |-> ManualOrigin(tasks[t]),
                             result |-> "none"]
    <3>1. /\ tasks[t].due \in Nat /\ Cause(t) \in {"due", "retry", "user"}
          /\ ManualOrigin(tasks[t]) \in BOOLEAN /\ (tasks[t].due > now) \in BOOLEAN
      BY <1>2 DEF TaskEntry, Cause, ManualOrigin
    <3>2. stage \in WorkerStages /\ "none" \in Outcomes
      BY DEF WorkerStages, Live, Outcomes
    <3> QED
      BY <2>2, <3>1, <3>2 DEF Run
  <2> QED
    BY <1>7, <2>1, <2>2
<1> HIDE DEF lease
<1>13. \A u \in Tasks : TaskOK(tasks'[u])
  BY <1>0, <1>8, <1>11, TasksOK
<1>14. SchedulesTypeOK'
  <2>1. tasks' \in [Tasks -> TaskEntry]
    BY <1>2, <1>7, <1>13 DEF TaskOK
  <2>2. runs' \in [RunIds -> Run]
    BY <1>4, <1>7, <1>12
  <2>3. recorded' \in [RunIds -> 0..2]
    BY <1>0, <1>7, <1>3 DEF SchedulesTypeOK, Bump
  <2>4. \A u \in Tasks : tasks'[u].attempts <= tasks'[u].retries + 1
    BY <1>13 DEF TaskOK
  <2> QED
    BY <1>0, <1>1, <1>5, <2>1, <2>2, <2>3, <2>4 DEF SchedulesTypeOK
<1>15. AttemptsLeft'
  BY <1>13 DEF AttemptsLeft, TaskOK
<1>16. LeasesFresh'
  BY <1>1, <1>9, <1>10 DEF IInv, LeasesFresh
<1>17. RunningRun'
  <2>1. ASSUME NEW u \in Tasks, u # t, tasks'[u].status = "running"
        PROVE  /\ tasks'[u].run_id \in RunIds /\ tasks'[u].run_id <= leases'
               /\ runs'[tasks'[u].run_id].task = u /\ recorded'[tasks'[u].run_id] = 0
               /\ ~tasks'[u].report_pending
    <3>1. /\ tasks'[u] = tasks[u] /\ tasks[u].run_id \in RunIds /\ tasks[u].run_id <= leases
          /\ runs[tasks[u].run_id].task = u /\ recorded[tasks[u].run_id] = 0
          /\ ~tasks[u].report_pending
      BY <1>8, <2>1 DEF IInv, RunningRun
    <3> QED
      BY <1>1, <1>9, <1>10, <3>1
  <2>2. lease <= leases'
    BY <1>0, <1>1 DEF SchedulesTypeOK
  <2> QED
    BY <1>1, <1>11, <1>12, <2>1, <2>2 DEF RunningRun
<1>18. FinishedRun'
  <2>1. ASSUME NEW u \in Tasks, tasks[u].finished_run_id # 0
        PROVE  /\ tasks[u].finished_run_id \in RunIds /\ tasks[u].finished_run_id <= leases'
               /\ runs'[tasks[u].finished_run_id].task = u
               /\ recorded'[tasks[u].finished_run_id] > 0
    <3>1. /\ tasks[u].finished_run_id \in RunIds /\ tasks[u].finished_run_id <= leases
          /\ runs[tasks[u].finished_run_id].task = u /\ recorded[tasks[u].finished_run_id] > 0
      BY <2>1 DEF IInv, FinishedRun
    <3> QED
      BY <1>1, <1>9, <1>10, <3>1
  <2>2. lease <= leases' /\ lease # 0
    BY <1>0, <1>1, BoundsNat DEF SchedulesTypeOK, RunIds
  <2> QED
    BY <1>1, <1>8, <1>11, <1>12, <2>1, <2>2 DEF IInv, FinishedRun
<1>19. ReportsKnown'
  <2>1. \A q \in RunIds : /\ runs'[q].stage = "report" => recorded'[q] > 0
                          /\ runs'[q].stage = "ack" => shown'[q] > 0
    BY <1>9, <1>10, <1>12 DEF IInv, ReportsKnown
  <2>2. \A b \in batch' : recorded'[b.run] > 0 /\ (b.shown => shown'[b.run] > 0)
    BY <1>6, <1>10 DEF IInv, ReportsKnown
  <2> QED
    BY <2>1, <2>2 DEF ReportsKnown
<1>20. HeldStopped'
  BY <1>0, <1>2, <1>5, <1>8 DEF IInv, HeldStopped, SchedulesTypeOK
<1>21. OutcomeRecordedOnce'
  BY <1>10, <1>11 DEF IInv, OutcomeRecordedOnce
<1>22. ReportedOnce'
  BY <1>3, <1>10, <1>11 DEF IInv, ReportedOnce
<1>23. ReportNotLost'
  <2>1. ASSUME NEW q \in RunIds, recorded'[q] > 0, shown[q] = 0, tasks'[runs'[q].task].status # "removed"
        PROVE  /\ tasks'[runs'[q].task].report_pending
               /\ tasks'[runs'[q].task].finished_run_id = q
    <3>1. CASE q = lease
      BY <1>11, <1>12, <2>1, <3>1
    <3>2. CASE q # lease
      <4>1. runs'[q] = runs[q] /\ recorded[q] > 0 /\ runs[q].task \in Tasks
        BY <1>4, <1>9, <1>10, <2>1, <3>2 DEF Run
      <4>2. runs[q].task # t
        BY <1>2, <2>1, <4>1 DEF IInv, ReportNotLost
      <4> QED
        BY <1>8, <2>1, <4>1, <4>2 DEF IInv, ReportNotLost
    <3> QED
      BY <3>1, <3>2
  <2> QED
    BY <2>1 DEF ReportNotLost
<1> QED
  BY <1>14, <1>15, <1>16, <1>17, <1>18, <1>19, <1>20, <1>21, <1>22, <1>23 DEF IInv

LEMMA ClaimWorkStep ==
  ASSUME IInv, ClaimWork
  PROVE  IInv'
<1>0. SchedulesTypeOK
  BY DEF IInv
<1>1. PICK t \in Tasks : /\ Claim(t, "running")
                         /\ IF SkippedByPolicy(tasks[t])
                            THEN place' = "reports" /\ UNCHANGED active
                            ELSE active' = active \cup {t} /\ UNCHANGED place
  BY DEF ClaimWork
<1>2. UNCHANGED <<recovered, batch, daemon, since, now, faults, shown>>
  BY DEF ClaimWork, clock
<1>3. /\ active' \subseteq Tasks /\ recovered' \in BOOLEAN
      /\ place' \in {"recover", "reports", "settle", "claim", "wait"}
  BY <1>0, <1>1, <1>2 DEF SchedulesTypeOK
<1>4. faults' \in 0..MaxFaults
  BY <1>0, <1>2, FaultType
<1> QED
  BY <1>1, <1>2, <1>3, <1>4, ClaimKeeps

LEMMA ClaimAnswerLostStep ==
  ASSUME IInv, ClaimAnswerLost
  PROVE  IInv'
<1>0. SchedulesTypeOK
  BY DEF IInv
<1>1. /\ UNCHANGED <<active, batch, daemon, since, now, shown>>
      /\ active' \subseteq Tasks /\ recovered' \in BOOLEAN
      /\ place' \in {"recover", "reports", "settle", "claim", "wait"}
  BY <1>0 DEF ClaimAnswerLost, SchedulesTypeOK
<1>2. faults' \in 0..MaxFaults
  BY <1>0, FaultType DEF ClaimAnswerLost
<1>3. ASSUME NEW t \in Tasks, Claim(t, "lost")
      PROVE  IInv'
  BY <1>1, <1>2, <1>3, ClaimKeeps
<1>4. ASSUME UNCHANGED <<tasks, recorded, runs, leases, requests, resumes, held>>
      PROVE  IInv'
  <2>1. SchedulesTypeOK'
    BY <1>0, <1>1, <1>2, <1>4 DEF SchedulesTypeOK
  <2>2. AttemptsLeft' /\ HeldStopped' /\ OutcomeRecordedOnce' /\ ReportedOnce'
    BY <1>1, <1>4 DEF IInv, AttemptsLeft, HeldStopped, OutcomeRecordedOnce, ReportedOnce
  <2>3. LeasesFresh' /\ RunningRun' /\ FinishedRun'
    BY <1>1, <1>4 DEF IInv, LeasesFresh, RunningRun, FinishedRun
  <2>4. ReportsKnown' /\ ReportNotLost'
    BY <1>1, <1>4 DEF IInv, ReportsKnown, ReportNotLost
  <2> QED
    BY <2>1, <2>2, <2>3, <2>4 DEF IInv
<1> QED
  BY <1>3, <1>4 DEF ClaimAnswerLost, plugin, users

-----------------------------------------------------------------------------
(* What users ask for.                                                     *)

LEMMA ChangeKeeps ==
  ASSUME IInv, NEW t \in Tasks, NEW y, TaskOK(y), ChangeTask(t, y),
         requests' \in 0..MaxRequests, resumes' \subseteq Tasks, held' \subseteq Tasks,
         tasks[t].status # "removed", y.status # "unused",
         y.status = "running" => tasks[t].status = "running" /\ y.run_id = tasks[t].run_id,
         y.status = "removed" => y.finished_run_id = 0 /\ ~y.report_pending,
         y.status # "removed" => /\ y.finished_run_id = tasks[t].finished_run_id
                                 /\ y.report_pending = tasks[t].report_pending,
         \A u \in held' : u # t => u \in held,
         t \in held' => \/ y.status \in {"paused", "cancelled", "removed"}
                        \/ y.status = "running" /\ (y.pause_requested \/ y.cancel_requested)
  PROVE  IInv'
<1>0. SchedulesTypeOK /\ AttemptsLeft
  BY DEF IInv
<1>1. /\ tasks' = [tasks EXCEPT ![t] = y]
      /\ UNCHANGED <<recorded, runs, active, place, recovered, batch, daemon, since, now, faults,
                     leases, shown>>
  BY DEF ChangeTask, loop, clock
<1>2. tasks \in [Tasks -> TaskEntry]
  BY <1>0 DEF SchedulesTypeOK
<1>3. tasks'[t] = y /\ \A u \in Tasks : u # t => tasks'[u] = tasks[u]
  BY <1>1, <1>2
<1>4. \A u \in Tasks : TaskOK(tasks'[u])
  BY <1>0, <1>3, TasksOK
<1>5. SchedulesTypeOK'
  <2>1. tasks' \in [Tasks -> TaskEntry]
    BY <1>1, <1>2 DEF TaskOK
  <2>2. \A u \in Tasks : tasks'[u].attempts <= tasks'[u].retries + 1
    BY <1>4 DEF TaskOK
  <2> QED
    BY <1>0, <1>1, <2>1, <2>2 DEF SchedulesTypeOK
<1>6. AttemptsLeft'
  BY <1>4 DEF AttemptsLeft, TaskOK
<1>7. LeasesFresh' /\ OutcomeRecordedOnce' /\ ReportedOnce' /\ ReportsKnown'
  BY <1>1 DEF IInv, LeasesFresh, OutcomeRecordedOnce, ReportedOnce, ReportsKnown
<1>8. RunningRun'
  <2>1. ASSUME NEW u \in Tasks, tasks'[u].status = "running"
        PROVE  /\ tasks[u].status = "running" /\ tasks'[u].run_id = tasks[u].run_id
               /\ tasks'[u].report_pending = tasks[u].report_pending
    <3>1. CASE u = t
      BY <1>3, <2>1, <3>1
    <3>2. CASE u # t
      BY <1>3, <2>1, <3>2
    <3> QED
      BY <3>1, <3>2
  <2> QED
    BY <1>1, <2>1 DEF IInv, RunningRun
<1>9. FinishedRun'
  <2>1. CASE y.status = "removed"
    BY <1>1, <1>3, <2>1 DEF IInv, FinishedRun
  <2>2. CASE y.status # "removed"
    BY <1>1, <1>3, <2>2 DEF IInv, FinishedRun
  <2> QED
    BY <2>1, <2>2
<1>10. HeldStopped'
  BY <1>3 DEF IInv, HeldStopped
<1>11. ReportNotLost'
  <2>1. ASSUME NEW q \in RunIds, recorded[q] > 0, shown[q] = 0, tasks'[runs[q].task].status # "removed"
        PROVE  /\ tasks'[runs[q].task].report_pending
               /\ tasks'[runs[q].task].finished_run_id = q
    <3>1. runs[q].task \in Tasks
      BY <1>0 DEF SchedulesTypeOK, Run
    <3>2. CASE runs[q].task = t
      BY <1>3, <2>1, <3>2 DEF IInv, ReportNotLost
    <3>3. CASE runs[q].task # t
      BY <1>3, <2>1, <3>1, <3>3 DEF IInv, ReportNotLost
    <3> QED
      BY <3>2, <3>3
  <2> QED
    BY <1>1, <2>1 DEF ReportNotLost
<1> QED
  BY <1>5, <1>6, <1>7, <1>8, <1>9, <1>10, <1>11 DEF IInv

LEMMA RequestKeeps ==
  ASSUME IInv, NEW t \in Tasks, NEW y, UserRequest(t, y)
  PROVE  requests' \in 0..MaxRequests /\ ChangeTask(t, y)
BY NowNat, BoundsNat DEF IInv, SchedulesTypeOK, UserRequest

LEMMA AddStep ==
  ASSUME IInv, NEW t \in Tasks, Add(t)
  PROVE  IInv'
<1>0. SchedulesTypeOK
  BY DEF IInv
<1>1. PICK p \in Policies, s \in {"pending", "active"} :
        ChangeTask(t, [NoTask(s) EXCEPT !.kind = p.kind, !.missed = p.missed,
                         !.on_failure = p.on_failure, !.retries = p.retries,
                         !.due = IF p.kind = "cron" THEN NextDue(p, now) ELSE now + p.delay])
  BY DEF Add
<1>2. p \in Policy /\ now \in Nat
  BY <1>0, NowNat, ScheduleAssumption DEF ScheduleAssumption
<1> DEFINE d == IF p.kind = "cron" THEN NextDue(p, now) ELSE now + p.delay
           y == [NoTask(s) EXCEPT !.kind = p.kind, !.missed = p.missed,
                   !.on_failure = p.on_failure, !.retries = p.retries, !.due = d]
<1>3. d \in Nat
  BY <1>2, NextDueNat DEF Policy
<1>4. TaskOK(NoTask(s)) /\ NoTask(s).status = s /\ NoTask(s) \in TaskEntry
  BY NoTaskOK DEF Statuses, TaskOK
<1>5. NoTask(s).finished_run_id = 0 /\ NoTask(s).report_pending = FALSE /\ NoTask(s).attempts = 0
  BY DEF NoTask
<1> HIDE DEF d
<1>6. y \in TaskEntry
  BY <1>2, <1>3, <1>4 DEF TaskEntry, Policy
<1>7. /\ y.status = s /\ y.finished_run_id = 0 /\ y.report_pending = FALSE
      /\ y.attempts = 0 /\ y.retries = p.retries
  BY <1>4, <1>5 DEF TaskEntry
<1>8. ChangeTask(t, y)
  BY <1>1 DEF d
<1> HIDE DEF y
<1>9. TaskOK(y)
  BY <1>2, <1>6, <1>7 DEF TaskOK, Policy
<1>10. /\ tasks[t].status = "unused" /\ tasks[t].finished_run_id = 0
       /\ tasks[t].report_pending = FALSE /\ t \notin held
  BY <1>0 DEF Add, IInv, FinishedRun, HeldStopped, SchedulesTypeOK, TaskEntry
<1>11. UNCHANGED <<requests, resumes, held>>
  BY DEF Add, users
<1>12. requests' \in 0..MaxRequests /\ resumes' \subseteq Tasks /\ held' \subseteq Tasks
  BY <1>0, <1>11 DEF SchedulesTypeOK
<1> QED
  BY <1>7, <1>8, <1>9, <1>10, <1>11, <1>12, ChangeKeeps

(* A request that leaves the reports of a task alone.                      *)
SameReport(x, y) ==
  /\ y.finished_run_id = x.finished_run_id /\ y.report_pending = x.report_pending
  /\ y.run_id = x.run_id

LEMMA ResetOK ==
  ASSUME NEW x, TaskOK(x), NEW s \in Statuses
  PROVE  /\ TaskOK([Reset(x) EXCEPT !.status = s])
         /\ [Reset(x) EXCEPT !.status = s].status = s
         /\ SameReport(x, [Reset(x) EXCEPT !.status = s])
         /\ TaskOK([Reset(x) EXCEPT !.status = s, !.cancel_requested = FALSE])
         /\ [Reset(x) EXCEPT !.status = s, !.cancel_requested = FALSE].status = s
         /\ SameReport(x, [Reset(x) EXCEPT !.status = s, !.cancel_requested = FALSE])
<1> DEFINE zero == 0
           y == Reset(x)
<1>1. x \in TaskEntry /\ x.retries \in Nat /\ Never \in Nat /\ zero \in Nat
  BY BoundsNat DEF TaskOK, TaskEntry
<1>2. y = [x EXCEPT !.attempts = zero, !.retry_at = Never, !.manual_run = FALSE,
                    !.manual_retry = FALSE, !.manual_origin = FALSE, !.pause_requested = FALSE]
  BY DEF Reset
<1> HIDE DEF zero, y
<1>3. y \in TaskEntry
  BY <1>1, <1>2 DEF TaskEntry
<1>4. y.attempts = 0 /\ y.retries = x.retries /\ SameReport(x, y)
  BY <1>1, <1>2 DEF TaskEntry, SameReport, zero
<1>5. [y EXCEPT !.status = s] \in TaskEntry /\ [y EXCEPT !.status = s, !.cancel_requested = FALSE] \in TaskEntry
  BY <1>3 DEF TaskEntry
<1>6. /\ [y EXCEPT !.status = s].status = s
      /\ [y EXCEPT !.status = s].attempts = 0 /\ [y EXCEPT !.status = s].retries = x.retries
      /\ SameReport(x, [y EXCEPT !.status = s])
  BY <1>3, <1>4 DEF TaskEntry, SameReport
<1>7. /\ [y EXCEPT !.status = s, !.cancel_requested = FALSE].status = s
      /\ [y EXCEPT !.status = s, !.cancel_requested = FALSE].attempts = 0
      /\ [y EXCEPT !.status = s, !.cancel_requested = FALSE].retries = x.retries
      /\ SameReport(x, [y EXCEPT !.status = s, !.cancel_requested = FALSE])
  BY <1>3, <1>4 DEF TaskEntry, SameReport
<1> QED
  BY <1>1, <1>5, <1>6, <1>7 DEF TaskOK, y

LEMMA RequestedOK ==
  ASSUME NEW x, TaskOK(x)
  PROVE  /\ TaskOK([Requested(x) EXCEPT !.manual_retry = FALSE, !.manual_origin = TRUE])
         /\ [Requested(x) EXCEPT !.manual_retry = FALSE, !.manual_origin = TRUE].status = "active"
         /\ SameReport(x, [Requested(x) EXCEPT !.manual_retry = FALSE, !.manual_origin = TRUE])
         /\ TaskOK([Requested(x) EXCEPT !.manual_retry = TRUE])
         /\ [Requested(x) EXCEPT !.manual_retry = TRUE].status = "active"
         /\ SameReport(x, [Requested(x) EXCEPT !.manual_retry = TRUE])
<1> DEFINE zero == 0
           y == Requested(x)
<1>1. x \in TaskEntry /\ x.retries \in Nat /\ Never \in Nat /\ zero \in Nat
  BY BoundsNat DEF TaskOK, TaskEntry
<1>2. y = [x EXCEPT !.status = "active", !.manual_run = TRUE, !.cancel_requested = FALSE,
                    !.retry_at = Never, !.attempts = zero, !.pause_requested = FALSE]
  BY DEF Requested
<1> HIDE DEF zero, y
<1>3. y \in TaskEntry
  BY <1>1, <1>2 DEF TaskEntry, Statuses
<1>4. y.attempts = 0 /\ y.retries = x.retries /\ SameReport(x, y) /\ y.status = "active"
  BY <1>1, <1>2 DEF TaskEntry, SameReport, zero
<1>5. /\ [y EXCEPT !.manual_retry = FALSE, !.manual_origin = TRUE] \in TaskEntry
      /\ [y EXCEPT !.manual_retry = TRUE] \in TaskEntry
  BY <1>3 DEF TaskEntry
<1>6. /\ [y EXCEPT !.manual_retry = FALSE, !.manual_origin = TRUE].status = "active"
      /\ [y EXCEPT !.manual_retry = FALSE, !.manual_origin = TRUE].attempts = 0
      /\ [y EXCEPT !.manual_retry = FALSE, !.manual_origin = TRUE].retries = x.retries
      /\ SameReport(x, [y EXCEPT !.manual_retry = FALSE, !.manual_origin = TRUE])
  BY <1>3, <1>4 DEF TaskEntry, SameReport
<1>7. /\ [y EXCEPT !.manual_retry = TRUE].status = "active"
      /\ [y EXCEPT !.manual_retry = TRUE].attempts = 0
      /\ [y EXCEPT !.manual_retry = TRUE].retries = x.retries
      /\ SameReport(x, [y EXCEPT !.manual_retry = TRUE])
  BY <1>3, <1>4 DEF TaskEntry, SameReport
<1> QED
  BY <1>1, <1>5, <1>6, <1>7 DEF TaskOK, y

(* A mark on a task that runs.                                             *)
LEMMA MarkedOK ==
  ASSUME NEW x, TaskOK(x), x.status = "running"
  PROVE  /\ TaskOK([x EXCEPT !.pause_requested = TRUE])
         /\ [x EXCEPT !.pause_requested = TRUE].status = "running"
         /\ [x EXCEPT !.pause_requested = TRUE].pause_requested
         /\ SameReport(x, [x EXCEPT !.pause_requested = TRUE])
         /\ TaskOK([x EXCEPT !.cancel_requested = TRUE])
         /\ [x EXCEPT !.cancel_requested = TRUE].status = "running"
         /\ [x EXCEPT !.cancel_requested = TRUE].cancel_requested
         /\ SameReport(x, [x EXCEPT !.cancel_requested = TRUE])
<1>1. x \in TaskEntry /\ x.attempts <= x.retries + 1
  BY DEF TaskOK
<1>2. [x EXCEPT !.pause_requested = TRUE] \in TaskEntry /\ [x EXCEPT !.cancel_requested = TRUE] \in TaskEntry
  BY <1>1 DEF TaskEntry
<1>3. /\ [x EXCEPT !.pause_requested = TRUE].status = "running"
      /\ [x EXCEPT !.pause_requested = TRUE].attempts = x.attempts
      /\ [x EXCEPT !.pause_requested = TRUE].retries = x.retries
      /\ [x EXCEPT !.pause_requested = TRUE].pause_requested
      /\ SameReport(x, [x EXCEPT !.pause_requested = TRUE])
  BY <1>1 DEF TaskEntry, SameReport
<1>4. /\ [x EXCEPT !.cancel_requested = TRUE].status = "running"
      /\ [x EXCEPT !.cancel_requested = TRUE].attempts = x.attempts
      /\ [x EXCEPT !.cancel_requested = TRUE].retries = x.retries
      /\ [x EXCEPT !.cancel_requested = TRUE].cancel_requested
      /\ SameReport(x, [x EXCEPT !.cancel_requested = TRUE])
  BY <1>1 DEF TaskEntry, SameReport
<1> QED
  BY <1>1, <1>2, <1>3, <1>4 DEF TaskOK

LEMMA ApproveStep ==
  ASSUME IInv, NEW t \in Tasks, Approve(t)
  PROVE  IInv'
<1> DEFINE y == [tasks[t] EXCEPT !.status = "active"]
<1>0. SchedulesTypeOK /\ AttemptsLeft
  BY DEF IInv
<1>1. /\ tasks[t].status = "pending" /\ requests' \in 0..MaxRequests /\ ChangeTask(t, y)
      /\ UNCHANGED <<resumes, held>>
  BY RequestKeeps DEF Approve
<1>2. TaskOK(tasks[t])
  BY <1>0, TasksOK
<1>3. y \in TaskEntry
  BY <1>2 DEF TaskOK, TaskEntry, Statuses
<1>4. /\ y.status = "active" /\ y.attempts = tasks[t].attempts /\ y.retries = tasks[t].retries
      /\ SameReport(tasks[t], y)
  BY <1>2 DEF TaskOK, TaskEntry, SameReport
<1> HIDE DEF y
<1>5. TaskOK(y)
  BY <1>1, <1>2, <1>3, <1>4 DEF TaskOK
<1>6. t \notin held
  BY <1>1 DEF IInv, HeldStopped
<1>7. resumes' \subseteq Tasks /\ held' \subseteq Tasks
  BY <1>0, <1>1 DEF SchedulesTypeOK
<1> QED
  BY <1>1, <1>4, <1>5, <1>6, <1>7, ChangeKeeps DEF SameReport

LEMMA PauseStep ==
  ASSUME IInv, NEW t \in Tasks, Pause(t)
  PROVE  IInv'
<1>0. SchedulesTypeOK /\ TaskOK(tasks[t])
  BY TasksOK DEF IInv
<1>1. held' = held \cup {t} /\ UNCHANGED resumes
  BY DEF Pause
<1>2. resumes' \subseteq Tasks /\ held' \subseteq Tasks
  BY <1>0, <1>1 DEF SchedulesTypeOK
<1>3. CASE tasks[t].status = "running" /\ UserRequest(t, [tasks[t] EXCEPT !.pause_requested = TRUE])
  <2> DEFINE y == [tasks[t] EXCEPT !.pause_requested = TRUE]
  <2>1. requests' \in 0..MaxRequests /\ ChangeTask(t, y)
    BY <1>3, RequestKeeps
  <2>2. TaskOK(y) /\ y.status = "running" /\ y.pause_requested /\ SameReport(tasks[t], y)
    BY <1>0, <1>3, MarkedOK
  <2> HIDE DEF y
  <2> QED
    BY <1>1, <1>2, <1>3, <2>1, <2>2, ChangeKeeps DEF SameReport
<1>4. CASE tasks[t].status = "active" /\ UserRequest(t, [Reset(tasks[t]) EXCEPT !.status = "paused"])
  <2> DEFINE y == [Reset(tasks[t]) EXCEPT !.status = "paused"]
  <2>1. requests' \in 0..MaxRequests /\ ChangeTask(t, y)
    BY <1>4, RequestKeeps
  <2>2. "paused" \in Statuses
    BY DEF Statuses
  <2>3. TaskOK(y) /\ y.status = "paused" /\ SameReport(tasks[t], y)
    BY <1>0, <2>2, ResetOK
  <2> HIDE DEF y
  <2> QED
    BY <1>1, <1>2, <1>4, <2>1, <2>3, ChangeKeeps DEF SameReport
<1> QED
  BY <1>3, <1>4 DEF Pause

LEMMA ResumeStep ==
  ASSUME IInv, NEW t \in Tasks, Resume(t)
  PROVE  IInv'
<1> DEFINE y == [Reset(tasks[t]) EXCEPT !.status = "active", !.cancel_requested = FALSE]
<1>0. SchedulesTypeOK /\ TaskOK(tasks[t])
  BY TasksOK DEF IInv
<1>1. /\ tasks[t].status = "paused" /\ requests' \in 0..MaxRequests /\ ChangeTask(t, y)
      /\ resumes' = resumes \cup {t} /\ held' = held \ {t}
  BY RequestKeeps DEF Resume
<1>2. resumes' \subseteq Tasks /\ held' \subseteq Tasks
  BY <1>0, <1>1 DEF SchedulesTypeOK
<1>3. "active" \in Statuses
  BY DEF Statuses
<1>4. TaskOK(y) /\ y.status = "active" /\ SameReport(tasks[t], y)
  BY <1>0, <1>3, ResetOK
<1> HIDE DEF y
<1> QED
  BY <1>1, <1>2, <1>4, ChangeKeeps DEF SameReport

LEMMA RunNowStep ==
  ASSUME IInv, NEW t \in Tasks, RunNow(t)
  PROVE  IInv'
<1> DEFINE y == [Requested(tasks[t]) EXCEPT !.manual_retry = FALSE, !.manual_origin = TRUE]
<1>0. SchedulesTypeOK /\ TaskOK(tasks[t])
  BY TasksOK DEF IInv
<1>1. /\ tasks[t].status \in {"active", "completed", "skipped"}
      /\ requests' \in 0..MaxRequests /\ ChangeTask(t, y)
      /\ resumes' = resumes \cup {t} /\ UNCHANGED held
  BY RequestKeeps DEF RunNow
<1>2. resumes' \subseteq Tasks /\ held' \subseteq Tasks
  BY <1>0, <1>1 DEF SchedulesTypeOK
<1>3. TaskOK(y) /\ y.status = "active" /\ SameReport(tasks[t], y)
  BY <1>0, RequestedOK
<1>4. t \notin held
  BY <1>1 DEF IInv, HeldStopped
<1> HIDE DEF y
<1> QED
  BY <1>1, <1>2, <1>3, <1>4, ChangeKeeps DEF SameReport

LEMMA RetryStep ==
  ASSUME IInv, NEW t \in Tasks, Retry(t)
  PROVE  IInv'
<1> DEFINE y == [Requested(tasks[t]) EXCEPT !.manual_retry = TRUE]
<1>0. SchedulesTypeOK /\ TaskOK(tasks[t])
  BY TasksOK DEF IInv
<1>1. /\ tasks[t].status \in {"paused", "skipped"}
      /\ requests' \in 0..MaxRequests /\ ChangeTask(t, y)
      /\ resumes' = resumes \cup {t} /\ held' = held \ {t}
  BY RequestKeeps DEF Retry
<1>2. resumes' \subseteq Tasks /\ held' \subseteq Tasks
  BY <1>0, <1>1 DEF SchedulesTypeOK
<1>3. TaskOK(y) /\ y.status = "active" /\ SameReport(tasks[t], y)
  BY <1>0, RequestedOK
<1> HIDE DEF y
<1> QED
  BY <1>1, <1>2, <1>3, ChangeKeeps DEF SameReport

LEMMA RemoveStep ==
  ASSUME IInv, NEW t \in Tasks, Remove(t)
  PROVE  IInv'
<1>0. SchedulesTypeOK /\ TaskOK(tasks[t]) /\ UNCHANGED resumes /\ tasks[t].status # "removed"
  BY TasksOK DEF IInv, Remove, Listed, Statuses
<1>1. CASE tasks[t].status = "running"
  <2> DEFINE y == [tasks[t] EXCEPT !.cancel_requested = TRUE]
  <2>1. requests' \in 0..MaxRequests /\ ChangeTask(t, y) /\ held' = held \cup {t}
    BY <1>1, RequestKeeps DEF Remove
  <2>2. TaskOK(y) /\ y.status = "running" /\ y.cancel_requested /\ SameReport(tasks[t], y)
    BY <1>0, <1>1, MarkedOK
  <2>3. resumes' \subseteq Tasks /\ held' \subseteq Tasks
    BY <1>0, <2>1 DEF SchedulesTypeOK
  <2> HIDE DEF y
  <2> QED
    BY <1>0, <1>1, <2>1, <2>2, <2>3, ChangeKeeps DEF SameReport
<1>2. CASE tasks[t].status # "running"
  <2> DEFINE y == NoTask("removed")
  <2>1. requests' \in 0..MaxRequests /\ ChangeTask(t, y) /\ UNCHANGED held
    BY <1>2, RequestKeeps DEF Remove
  <2>2. TaskOK(y) /\ y.status = "removed"
    BY NoTaskOK
  <2>3. y.finished_run_id = 0 /\ ~y.report_pending
    BY DEF NoTask
  <2>4. resumes' \subseteq Tasks /\ held' \subseteq Tasks
    BY <1>0, <2>1 DEF SchedulesTypeOK
  <2> HIDE DEF y
  <2> QED
    BY <1>0, <2>1, <2>2, <2>3, <2>4, ChangeKeeps
<1> QED
  BY <1>1, <1>2

-----------------------------------------------------------------------------
(* The theorems.                                                           *)

LEMMA InitInvariant == SchedulesInit => IInv
<1> SUFFICES ASSUME SchedulesInit
             PROVE  IInv
  OBVIOUS
<1>1. \A t \in Tasks : TaskOK(tasks[t]) /\ tasks[t] = NoTask("unused")
  BY NoTaskOK DEF SchedulesInit
<1>2. /\ tasks \in [Tasks -> TaskEntry]
      /\ \A t \in Tasks : tasks[t].attempts <= tasks[t].retries + 1
  BY <1>1 DEF TaskOK, SchedulesInit
<1>3. (CHOOSE t \in Tasks : TRUE) \in Tasks
  BY ScheduleAssumption DEF ScheduleAssumption
<1>4. runs \in [RunIds -> Run]
  BY <1>3 DEF SchedulesInit, Run, WorkerStages, Outcomes
<1>5. SchedulesTypeOK
  <2>1. tasks \in [Tasks -> TaskEntry]
    BY <1>2
  <2>2. 0 \in 0..MaxTime /\ 0 \in 0..MaxRuns /\ 0 \in 0..MaxFaults /\ 0 \in 0..MaxRequests
    BY BoundsNat
  <2>3. since \in 0..now /\ now \in 0..MaxTime /\ leases \in 0..MaxRuns
        /\ faults \in 0..MaxFaults /\ requests \in 0..MaxRequests
    BY <2>2 DEF SchedulesInit
  <2>4. recorded \in [RunIds -> 0..2] /\ shown \in [RunIds -> 0..2]
    BY DEF SchedulesInit
  <2>5. active \subseteq Tasks /\ batch \subseteq Report /\ resumes \subseteq Tasks /\ held \subseteq Tasks
    BY DEF SchedulesInit
  <2>6. daemon \in BOOLEAN /\ recovered \in BOOLEAN
    BY DEF SchedulesInit
  <2>7. place \in {"recover", "reports", "settle", "claim", "wait"}
    BY DEF SchedulesInit
  <2> QED
    BY <1>2, <1>4, <2>1, <2>3, <2>4, <2>5, <2>6, <2>7 DEF SchedulesTypeOK
<1>6. AttemptsLeft
  BY <1>1 DEF AttemptsLeft, TaskOK
<1>7. \A t \in Tasks : /\ tasks[t].status = "unused" /\ tasks[t].finished_run_id = 0
                       /\ tasks[t].report_pending = FALSE
  BY <1>1 DEF NoTask
<1>8. RunningRun /\ FinishedRun
  BY <1>7 DEF RunningRun, FinishedRun
<1>9. LeasesFresh /\ ReportsKnown
  BY DEF SchedulesInit, LeasesFresh, ReportsKnown
<1>10. HeldStopped /\ OutcomeRecordedOnce /\ ReportNotLost /\ ReportedOnce
  BY DEF SchedulesInit, HeldStopped, OutcomeRecordedOnce, ReportNotLost, ReportedOnce
<1> QED
  BY <1>5, <1>6, <1>8, <1>9, <1>10 DEF IInv

LEMMA StutterKeeps ==
  ASSUME IInv, UNCHANGED scheduling
  PROVE  IInv'
<1>1. UNCHANGED <<tasks, runs, active, daemon, place, recovered, batch, since, now, leases, faults,
                  recorded, shown, requests, resumes, held>>
  BY DEF scheduling, plugin, loop, clock, users
<1>2. SchedulesTypeOK'
  BY <1>1 DEF IInv, SchedulesTypeOK
<1>3. AttemptsLeft' /\ LeasesFresh' /\ RunningRun' /\ FinishedRun' /\ ReportsKnown'
  BY <1>1 DEF IInv, AttemptsLeft, LeasesFresh, RunningRun, FinishedRun, ReportsKnown
<1>4. HeldStopped' /\ OutcomeRecordedOnce' /\ ReportNotLost' /\ ReportedOnce'
  BY <1>1 DEF IInv, HeldStopped, OutcomeRecordedOnce, ReportNotLost, ReportedOnce
<1> QED
  BY <1>2, <1>3, <1>4 DEF IInv

(* Every step is quiet or one of those dealt with above.                   *)
LEMMA StepCases ==
  ASSUME SchedulesNext
  PROVE  \/ Quiet \/ Recover \/ RecoverAnswerLost \/ ClaimWork \/ ClaimAnswerLost
         \/ \E b \in batch : ShowReport(b) \/ AcknowledgeReport(b)
         \/ \E r \in RunIds : \/ FinishRun(r) \/ FinishAnswerLost(r)
                              \/ WorkerShows(r) \/ WorkerAcknowledges(r)
         \/ User
BY DEF SchedulesNext, Loop, Worker, World, Quiet

LEMMA NextKeeps ==
  ASSUME IInv, [SchedulesNext]_scheduling
  PROVE  IInv'
<1>1. CASE UNCHANGED scheduling
  BY <1>1, StutterKeeps
<1>2. CASE Quiet
  BY <1>2, QuietStep
<1>3. CASE Recover \/ RecoverAnswerLost
  BY <1>3, RecoverStep
<1>4. CASE ClaimWork
  BY <1>4, ClaimWorkStep
<1>5. CASE ClaimAnswerLost
  BY <1>5, ClaimAnswerLostStep
<1>6. ASSUME NEW b \in batch, ShowReport(b) \/ AcknowledgeReport(b)
      PROVE  IInv'
  BY <1>6, ShowReportStep, AcknowledgeReportStep
<1>7. ASSUME NEW r \in RunIds,
             FinishRun(r) \/ FinishAnswerLost(r) \/ WorkerShows(r) \/ WorkerAcknowledges(r)
      PROVE  IInv'
  BY <1>7, FinishRunStep, FinishAnswerLostStep, WorkerShowsStep, WorkerAcknowledgesStep
<1>8. CASE User
  BY <1>8, AddStep, ApproveStep, PauseStep, ResumeStep, RunNowStep, RetryStep, RemoveStep DEF User
<1> QED
  BY <1>1, <1>2, <1>3, <1>4, <1>5, <1>6, <1>7, <1>8, StepCases

LEMMA Invariance == SchedulesSpec => []IInv
<1>1. SchedulesInit => IInv
  BY InitInvariant
<1>2. IInv /\ [SchedulesNext]_scheduling => IInv'
  BY NextKeeps
<1> QED
  BY <1>1, <1>2, PTL DEF SchedulesSpec

(* The state of plugin, loop, workers and sessions keeps its types, and no *)
(* task is tried more often than once and its retries (finish, main.rs).   *)
THEOREM TypeCorrect == SchedulesSpec => []SchedulesTypeOK
<1>1. IInv => SchedulesTypeOK
  BY DEF IInv
<1> QED
  BY <1>1, Invariance, PTL

(* However often finish is repeated and recover interferes, the outcome of *)
(* a run is recorded once (finish compares run IDs, recover the status).   *)
THEOREM OneOutcome == SchedulesSpec => []OutcomeRecordedOnce
<1>1. IInv => OutcomeRecordedOnce
  BY DEF IInv
<1> QED
  BY <1>1, Invariance, PTL

(* An outcome stays with its task until it was shown (ready_for_claim_at   *)
(* waits for the acknowledgement, which follows the notice).               *)
THEOREM OutcomeKept == SchedulesSpec => []ReportNotLost
<1>1. IInv => ReportNotLost
  BY DEF IInv
<1> QED
  BY <1>1, Invariance, PTL

(* Worker and main loop together show a run's outcome at most once, and    *)
(* never before it was recorded (report_scheduled_result).                 *)
THEOREM OneNotice == SchedulesSpec => []ReportedOnce
<1>1. IInv => ReportedOnce
  BY DEF IInv
<1> QED
  BY <1>1, Invariance, PTL

LEMMA HeldNotClaimed ==
  ASSUME IInv, SchedulesNext, NEW r \in RunIds, runs[r].stage = "free",
         runs'[r].stage \in {"running", "lost"}
  PROVE  runs'[r].task \notin held
<1>0. SchedulesTypeOK /\ runs \in [RunIds -> Run]
  BY DEF IInv, SchedulesTypeOK
<1>1. ASSUME NEW t \in Tasks, NEW stage \in {"running", "lost"}, Claim(t, stage)
      PROVE  runs'[r].task \notin held
  <2>1. t \notin held
    BY <1>1 DEF Claim, NextTask, ReadyForClaim, IInv, HeldStopped
  <2>2. r = leases + 1
    BY <1>0, <1>1 DEF Claim
  <2>3. CASE SkippedByPolicy(tasks[t])
    <3>1. runs'[r] = [runs[r] EXCEPT !.stage = "skipped", !.task = t] /\ runs[r] \in Run
      BY <1>0, <1>1, <2>2, <2>3 DEF Claim
    <3>2. runs'[r].stage = "skipped"
      BY <3>1 DEF Run
    <3> QED
      BY <3>2
  <2>4. CASE ~SkippedByPolicy(tasks[t])
    <3>1. runs'[r].task = t
      BY <1>0, <1>1, <2>2, <2>4 DEF Claim
    <3> QED
      BY <2>1, <3>1
  <2> QED
    BY <2>3, <2>4
<1>2. ~UNCHANGED runs
  OBVIOUS
<1>3. ~Quiet
  BY QuietRuns
<1>4. ASSUME NEW q \in RunIds, FinishRun(q) \/ WorkerShows(q) \/ WorkerAcknowledges(q)
      PROVE  FALSE
  <2>1. q # r
    BY <1>4 DEF FinishRun, WorkerShows, WorkerAcknowledges
  <2>2. runs'[r] = runs[r]
    BY <1>0, <1>4, <2>1 DEF FinishRun, WorkerShows, WorkerAcknowledges
  <2> QED
    BY <2>2
<1>5. CASE ClaimWork
  BY <1>1, <1>5 DEF ClaimWork
<1>6. CASE ClaimAnswerLost
  BY <1>1, <1>2, <1>6 DEF ClaimAnswerLost
<1>7. CASE Recover \/ RecoverAnswerLost \/ \E b \in batch : ShowReport(b) \/ AcknowledgeReport(b)
  BY <1>2, <1>7 DEF Recover, RecoverAnswerLost, ShowReport, AcknowledgeReport
<1>8. ASSUME NEW q \in RunIds, FinishAnswerLost(q)
      PROVE  FALSE
  BY <1>2, <1>8 DEF FinishAnswerLost
<1>9. CASE User
  <2>1. UNCHANGED runs
    BY <1>9 DEF User, Add, Approve, Pause, Resume, RunNow, Retry, Remove, UserRequest, ChangeTask
  <2> QED
    BY <1>2, <2>1
<1> QED
  BY <1>3, <1>4, <1>5, <1>6, <1>7, <1>8, <1>9, StepCases

(* A task that a user paused, or removed while it ran, is not claimed      *)
(* until the user resumes or retries it (finish, pause, remove, recover).  *)
THEOREM HeldTasksWait == SchedulesSpec => HeldNotRun
<1>1. ASSUME IInv, [SchedulesNext]_scheduling
      PROVE  [\A r \in RunIds : runs[r].stage = "free" /\ runs'[r].stage \in {"running", "lost"}
                => runs'[r].task \notin held]_scheduling
  BY <1>1, HeldNotClaimed
<1> QED
  BY <1>1, Invariance, PTL DEF SchedulesSpec, HeldNotRun
-----------------------------------------------------------------------------
(* An occurrence is run once.  The due time of a task never falls behind   *)
(* that of a run of it which was started when it was due, and only passes  *)
(* it while the task is active, unless it is to be retried or a user asked. *)

Started(r) == r <= leases /\ runs[r].stage # "skipped"

(* Task t, which is x, will not run what was due at d as the next one due. *)
Past(t, x, d, who) ==
  /\ x.status \notin {"unused", "pending"}
  /\ \/ x.status = "removed"
     \/ d < x.due
     \/ d = x.due /\ (x.status = "active" => x.retry_at # Never \/ t \in who)

PastRuns ==
  \A r \in RunIds : Started(r) /\ ~runs[r].early =>
    runs[r].due <= now /\ Past(runs[r].task, tasks[runs[r].task], runs[r].due, resumes)

(* A step that gives out no lease keeps every task past what it was past.  *)
StaysPast(t) ==
  \A d \in Nat : d <= now /\ Past(t, tasks[t], d, resumes) => Past(t, tasks'[t], d, resumes')

(* What a step may not change of a run.                                    *)
SameRun(r) ==
  /\ runs'[r].task = runs[r].task /\ runs'[r].due = runs[r].due
  /\ runs'[r].early = runs[r].early /\ runs'[r].cause = runs[r].cause
  /\ (runs'[r].stage = "skipped") <=> (runs[r].stage = "skipped")

LEMMA RoundedUp ==
  ASSUME NEW n \in Nat, NEW p \in Nat \ {0}
  PROVE  n < (n \div p + 1) * p
<1>1. n \div p \in Nat
  OBVIOUS
<1>2. n = p * (n \div p) + (n % p) /\ n % p \in 0..(p - 1)
  OBVIOUS
<1>3. (n \div p + 1) * p = p * (n \div p) + p
  BY <1>1
<1> QED
  BY <1>1, <1>2, <1>3

LEMMA NextDueLater ==
  ASSUME NEW x, NEW from \in Nat
  PROVE  NextDue(x, from) \in Nat /\ from < NextDue(x, from)
<1>1. from < (from \div Period + 1) * Period
  BY BoundsNat, RoundedUp
<1>2. from < from + Period
  BY BoundsNat
<1> QED
  BY <1>1, <1>2, NextDueNat DEF NextDue

(* A run that settles leaves its task past it.                             *)
LEMMA SettledPast ==
  ASSUME NEW t, NEW x, TaskOK(x), NEW result \in Outcomes,
         NEW manual \in BOOLEAN, NEW r \in RunIds, now \in 0..MaxTime, x.status = "running",
         NEW d \in Nat, d <= now, NEW a, NEW b, Past(t, x, d, a)
  PROVE  Past(t, Ended(x, result, manual, r), d, b)
<1> DEFINE y == AfterRun(x, result, manual)
<1>1. x \in TaskEntry /\ x.due \in Nat /\ d <= x.due /\ now \in Nat
  BY BoundsNat DEF Past, TaskEntry, TaskOK
<1>2. now + Backoff # Never
  BY BoundsNat DEF Never
<1>3. /\ y.status \notin {"unused", "pending"}
      /\ \/ y.status = "removed" \/ d < y.due
         \/ d = y.due /\ (y.status = "active" => y.retry_at # Never)
  <2>1. CASE x.cancel_requested \/ result = "cancelled"
    BY <1>1, <2>1 DEF AfterRun, Cancelled, TaskEntry
  <2>2. CASE ~(x.cancel_requested \/ result = "cancelled") /\ (x.pause_requested \/ result = "paused")
    BY <1>1, <2>2 DEF AfterRun, Paused, TaskEntry
  <2>3. CASE ~(x.cancel_requested \/ result = "cancelled" \/ x.pause_requested \/ result = "paused")
    <3>1. CASE result = "done" /\ ~Recurring(x)
      <4>1. y = [x EXCEPT !.status = "completed"]
        BY <2>3, <3>1 DEF AfterRun
      <4> QED
        BY <1>1, <4>1 DEF TaskEntry
    <3>2. CASE result = "done" /\ Recurring(x)
      <4>1. y = Succeeded(x, manual)
        BY <2>3, <3>2 DEF AfterRun
      <4>2. x.due < NextDue(x, x.due) /\ now < NextDue(x, now)
            /\ NextDue(x, x.due) \in Nat /\ NextDue(x, now) \in Nat
        BY <1>1, NextDueLater
      <4>3. /\ y.status = "active"
            /\ \/ y.due = x.due /\ x.due > now
               \/ y.due = NextDue(x, x.due)
               \/ y.due = NextDue(x, now)
        BY <4>1 DEF Succeeded, TaskEntry
      <4> QED
        BY <1>1, <4>2, <4>3
    <3>3. CASE result # "done"
      <4>1. y = Failed(x)
        BY <2>3, <3>3 DEF AfterRun
      <4>2. now < NextDue(x, now) /\ NextDue(x, now) \in Nat
        BY <1>1, NextDueLater
      <4>3. \/ y.status = "active" /\ y.due = x.due /\ y.retry_at = now + Backoff
            \/ y.status = "active" /\ y.due = NextDue(x, now)
            \/ y.status = "paused" /\ y.due = x.due
        BY <4>1 DEF Failed, TaskEntry
      <4> QED
        BY <1>1, <1>2, <4>2, <4>3
    <3> QED
      BY <3>1, <3>2, <3>3
  <2> QED
    BY <2>1, <2>2, <2>3
<1>4. LET z == Ended(x, result, manual, r)
      IN z.status = y.status /\ z.due = y.due /\ z.retry_at = y.retry_at
  <2>1. y \in TaskEntry
    BY <1>1, SettledOK DEF TaskOK
  <2> QED
    BY <2>1 DEF Ended, TaskEntry
<1> QED
  BY <1>3, <1>4, Zenon DEF Past

(* A task that only stops, is taken up by a user or is left alone.         *)
Onwards(t, x, y) ==
  \/ x.status \in {"unused", "pending"}
  \/ x.status # "pending" /\ y.status = "removed"
  \/ /\ x.status # "removed" /\ y.status \notin {"unused", "pending"} /\ y.due = x.due
     /\ y.status = "active" => t \in resumes' \/ (x.status = "active" /\ y.retry_at = x.retry_at)

LEMMA OnwardsPast ==
  ASSUME NEW t, Onwards(t, tasks[t], tasks'[t]), resumes \subseteq resumes'
  PROVE  StaysPast(t)
BY DEF StaysPast, Past, Onwards

LEMMA SamePast ==
  ASSUME NEW t, tasks'[t] = tasks[t], resumes \subseteq resumes'
  PROVE  StaysPast(t)
BY DEF StaysPast, Past

LEMMA KeepsPast ==
  ASSUME SchedulesTypeOK, PastRuns, OccurrenceRunsOnce, UNCHANGED leases, now' \in Nat, now <= now',
         \A r \in RunIds : SameRun(r), \A t \in Tasks : StaysPast(t)
  PROVE  PastRuns' /\ OccurrenceRunsOnce'
<1>1. \A r \in RunIds : runs[r].task \in Tasks /\ runs[r].due \in Nat
  BY DEF SchedulesTypeOK, Run
<1>2. now \in Nat
  BY NowNat
<1>3. PastRuns'
  <2>1. ASSUME NEW r \in RunIds, Started(r)', ~runs'[r].early
        PROVE  /\ runs'[r].due <= now'
               /\ Past(runs'[r].task, tasks'[runs'[r].task], runs'[r].due, resumes')
    <3>1. /\ Started(r) /\ ~runs[r].early
          /\ runs'[r].task = runs[r].task /\ runs'[r].due = runs[r].due
      BY <2>1 DEF SameRun, Started
    <3>2. runs[r].due <= now /\ Past(runs[r].task, tasks[runs[r].task], runs[r].due, resumes)
      BY <3>1 DEF PastRuns
    <3>3. Past(runs[r].task, tasks'[runs[r].task], runs[r].due, resumes')
      BY <1>1, <3>2 DEF StaysPast
    <3> QED
      BY <1>1, <1>2, <3>1, <3>2, <3>3
  <2> QED
    BY <2>1 DEF PastRuns
<1>4. OccurrenceRunsOnce'
  BY DEF OccurrenceRunsOnce, SameRun
<1> QED
  BY <1>3, <1>4

LEMMA ClaimPast ==
  ASSUME SchedulesTypeOK, LeasesFresh, PastRuns, OccurrenceRunsOnce, NEW t \in Tasks,
         NEW stage \in {"running", "lost"}, Claim(t, stage), UNCHANGED now
  PROVE  PastRuns' /\ OccurrenceRunsOnce'
<1> DEFINE lease == leases + 1
           x == tasks[t]
<1>1. /\ lease \in RunIds /\ leases' = lease /\ leases \in Nat /\ RunIds \subseteq Nat
      /\ \A q \in RunIds : q <= leases' => q <= leases \/ q = lease
      /\ \A q \in RunIds : q <= leases => q # lease
  BY BoundsNat DEF SchedulesTypeOK, Claim, RunIds
<1>2. /\ x \in TaskEntry /\ x.status = "active" /\ x.due \in Nat /\ now \in Nat
      /\ runs \in [RunIds -> Run] /\ runs[lease] \in Run /\ tasks \in [Tasks -> TaskEntry]
  BY <1>1, NowNat DEF Claim, NextTask, ReadyForClaim, SchedulesTypeOK, TaskEntry
<1>3. \A q \in RunIds : runs[q].task \in Tasks /\ runs[q].due \in Nat
  BY <1>2 DEF Run
<1>4. \A u \in Tasks : u # t => tasks'[u] = tasks[u] /\ (u \in resumes' <=> u \in resumes)
  BY <1>2 DEF Claim, users
<1>5. \A q \in RunIds : q # lease => runs'[q] = runs[q]
  BY <1>2 DEF Claim
<1>6. ASSUME NEW d \in Nat, d <= now, Past(t, x, d, resumes)
      PROVE  Past(t, tasks'[t], d, resumes')
  <2>1. d <= x.due
    BY <1>2, <1>6 DEF Past
  <2>2. CASE SkippedByPolicy(x)
    <3>1. tasks'[t] = Skipped(x, lease)
      BY <1>2, <2>2 DEF Claim
    <3>2. \/ tasks'[t].status = "active" /\ tasks'[t].due = NextDue(x, now)
          \/ tasks'[t].status = "skipped" /\ tasks'[t].due = x.due
      BY <1>2, <3>1 DEF Skipped, TaskEntry
    <3>3. now < NextDue(x, now) /\ NextDue(x, now) \in Nat
      BY <1>2, NextDueLater
    <3> QED
      BY <1>2, <1>6, <2>1, <3>2, <3>3 DEF Past
  <2>3. CASE ~SkippedByPolicy(x)
    <3>1. tasks'[t] = Claimed(x, lease)
      BY <1>2, <2>3 DEF Claim
    <3>2. tasks'[t].status = "running" /\ tasks'[t].due = x.due
      BY <1>2, <3>1 DEF Claimed, TaskEntry
    <3> QED
      BY <1>2, <2>1, <3>2 DEF Past
  <2> QED
    BY <2>2, <2>3
<1>7. ASSUME NEW q \in RunIds, q <= leases, runs[q].stage # "skipped", ~runs[q].early
      PROVE  /\ runs[q].due <= now
             /\ Past(runs[q].task, tasks'[runs[q].task], runs[q].due, resumes')
  <2>1. runs[q].due <= now /\ Past(runs[q].task, tasks[runs[q].task], runs[q].due, resumes)
    BY <1>7 DEF PastRuns, Started
  <2>2. CASE runs[q].task = t
    BY <1>3, <1>6, <2>1, <2>2
  <2>3. CASE runs[q].task # t
    BY <1>3, <1>4, <2>1, <2>3 DEF Past
  <2> QED
    BY <2>1, <2>2, <2>3
<1>8. CASE SkippedByPolicy(x)
  <2>1. runs'[lease].stage = "skipped"
    BY <1>1, <1>2, <1>8 DEF Claim, Run
  <2>2. PastRuns'
    BY <1>1, <1>5, <1>7, <2>1 DEF PastRuns, Started
  <2>3. OccurrenceRunsOnce'
    BY <1>1, <1>5, <2>1 DEF OccurrenceRunsOnce
  <2> QED
    BY <2>2, <2>3
<1>9. CASE ~SkippedByPolicy(x)
  <2>1. /\ runs'[lease].task = t /\ runs'[lease].due = x.due /\ runs'[lease].cause = Cause(t)
        /\ ~runs'[lease].early => x.due <= now
        /\ tasks'[t] = Claimed(x, lease)
    <3>1. /\ tasks'[t] = Claimed(x, lease)
          /\ runs'[lease] = [stage |-> stage, task |-> t, due |-> x.due, cause |-> Cause(t),
                             early |-> x.due > now, manual |-> ManualOrigin(x), result |-> "none"]
      BY <1>1, <1>2, <1>9 DEF Claim
    <3>2. /\ runs'[lease].task = t /\ runs'[lease].due = x.due /\ runs'[lease].cause = Cause(t)
      BY <3>1
    <3> DEFINE early == x.due > now
    <3>3. runs'[lease] = [stage |-> stage, task |-> t, due |-> x.due, cause |-> Cause(t),
                          early |-> early, manual |-> ManualOrigin(x), result |-> "none"]
      BY <3>1
    <3> HIDE DEF early
    <3>4. runs'[lease].early = early
      BY <3>3
    <3>5. ~early => x.due <= now
      BY <1>2 DEF early
    <3> QED
      BY <3>1, <3>2, <3>4, <3>5, Zenon
  <2>2. tasks'[t].status = "running" /\ tasks'[t].due = x.due
    BY <1>2, <2>1 DEF Claimed, TaskEntry
  <2>3. PastRuns'
    <3>1. ASSUME ~runs'[lease].early
          PROVE  x.due <= now /\ Past(t, tasks'[t], x.due, resumes')
      BY <1>2, <2>1, <2>2, <3>1 DEF Past
    <3> QED
      BY <1>1, <1>5, <1>7, <2>1, <3>1 DEF PastRuns, Started
  <2>4. ASSUME NEW p \in RunIds, p <= leases, runs[p].task = t, runs[p].due = x.due,
               runs[p].stage # "skipped", ~runs[p].early
        PROVE  Cause(t) # "due"
    <3>1. Past(t, x, x.due, resumes)
      BY <2>4 DEF PastRuns, Started
    <3> QED
      BY <1>2, <3>1 DEF Past, Cause
  <2>5. OccurrenceRunsOnce'
    <3>1. ASSUME NEW p \in RunIds, NEW r \in RunIds, p < r, r <= leases',
                 runs'[p].task = runs'[r].task, runs'[p].due = runs'[r].due,
                 runs'[p].stage # "skipped", ~runs'[p].early, runs'[r].stage # "skipped"
          PROVE  runs'[r].cause # "due"
      <4>1. p <= leases /\ p # lease /\ runs'[p] = runs[p]
        BY <1>1, <1>5, <3>1
      <4>2. CASE r = lease
        BY <2>1, <2>4, <3>1, <4>1, <4>2
      <4>3. CASE r # lease
        <5>1. r <= leases /\ runs'[r] = runs[r]
          BY <1>1, <1>5, <3>1, <4>3
        <5> QED
          BY <3>1, <4>1, <5>1 DEF OccurrenceRunsOnce
      <4> QED
        BY <4>2, <4>3
    <3> QED
      BY <3>1 DEF OccurrenceRunsOnce
  <2> QED
    BY <2>3, <2>5
<1> QED
  BY <1>8, <1>9

LEMMA QuietPast ==
  ASSUME SchedulesTypeOK, PastRuns, OccurrenceRunsOnce, Quiet
  PROVE  PastRuns' /\ OccurrenceRunsOnce'
<1>1. UNCHANGED <<tasks, leases, resumes>>
  BY QuietUnchanged
<1>2. now' \in Nat /\ now <= now'
  <2>1. now' = now \/ now' = now + 1
    BY DEF Quiet, ReadReports, ReportsNotRead, ReportsSettled, NothingToClaim, WakeUp,
           ReportNotShown, JoinWorker, Execute, WorkerDies, Tick, SchedulerRestarts,
           DaemonStops, DaemonStarts, clock
  <2> QED
    BY <2>1, NowNat
<1>3. \A r \in RunIds : SameRun(r)
  <2>1. TAKE r \in RunIds
  <2>2. runs \in [RunIds -> Run] /\ runs[r] \in Run
    BY DEF SchedulesTypeOK
  <2>3. CASE UNCHANGED runs
    BY <2>3 DEF SameRun
  <2>4. ASSUME NEW q \in RunIds, JoinWorker(q) \/ WorkerDies(q) \/ Execute(q)
        PROVE  SameRun(r)
    <3>1. CASE q = r
      BY <2>2, <2>4, <3>1 DEF JoinWorker, WorkerDies, Execute, Run, SameRun
    <3>2. CASE q # r
      BY <2>2, <2>4, <3>2 DEF JoinWorker, WorkerDies, Execute, SameRun
    <3> QED
      BY <3>1, <3>2
  <2>5. CASE DaemonStops
    <3>1. runs'[r] = runs[r] \/ (r \in Workers /\ runs'[r] = [runs[r] EXCEPT !.stage = "joined"])
      BY <2>5 DEF DaemonStops
    <3>2. CASE r \in Workers /\ runs'[r] = [runs[r] EXCEPT !.stage = "joined"]
      BY <2>2, <3>2 DEF Run, Workers, Live, SameRun
    <3> QED
      BY <3>1, <3>2 DEF SameRun
  <2>6. UNCHANGED runs \/ DaemonStops \/ \E q \in RunIds : JoinWorker(q) \/ WorkerDies(q) \/ Execute(q)
    BY DEF Quiet, ReadReports, ReportsNotRead, ReportsSettled, NothingToClaim, WakeUp,
           ReportNotShown, Tick, SchedulerRestarts, DaemonStarts
  <2> QED
    BY <2>3, <2>4, <2>5, <2>6
<1> QED
  BY <1>1, <1>2, <1>3, KeepsPast, SamePast

(* Recovery, reports and acknowledgements.                                 *)
LEMMA RecoverPast ==
  ASSUME SchedulesTypeOK, PastRuns, OccurrenceRunsOnce, Recover \/ RecoverAnswerLost
  PROVE  PastRuns' /\ OccurrenceRunsOnce'
<1>1. UNCHANGED <<runs, leases, resumes, now>> /\ Recovery
  BY DEF Recover, RecoverAnswerLost, clock, users
<1>2. ASSUME NEW t \in Tasks
      PROVE  StaysPast(t)
  <2>1. tasks[t] \in TaskEntry
    BY DEF SchedulesTypeOK
  <2>2. tasks'[t] = IF Stale(t) THEN Interrupted(tasks[t]) ELSE tasks[t]
    BY <1>1 DEF Recovery
  <2>3. CASE ~Stale(t)
    BY <1>1, <2>2, <2>3, SamePast
  <2>4. CASE Stale(t)
    <3>1. \/ tasks'[t].status = "removed"
          \/ tasks'[t].status = "paused" /\ tasks'[t].due = tasks[t].due
      BY <2>1, <2>2, <2>4 DEF Interrupted, NoTask, TaskEntry
    <3> QED
      BY <1>1, <2>4, <3>1, OnwardsPast DEF Onwards, Stale
  <2> QED
    BY <2>3, <2>4
<1> QED
  BY <1>1, <1>2, NowNat, KeepsPast DEF SameRun

LEMMA AcknowledgedPast ==
  ASSUME SchedulesTypeOK, NEW t, NEW r, tasks' = Acknowledged(t, r), UNCHANGED resumes, NEW u \in Tasks
  PROVE  StaysPast(u)
<1>1. tasks \in [Tasks -> TaskEntry] /\ tasks[u] \in TaskEntry
  BY DEF SchedulesTypeOK
<1>2. CASE tasks'[u] = tasks[u]
  BY <1>2, SamePast
<1>3. CASE tasks'[u] = [tasks[u] EXCEPT !.report_pending = FALSE]
  <2>1. /\ tasks'[u].status = tasks[u].status /\ tasks'[u].due = tasks[u].due
        /\ tasks'[u].retry_at = tasks[u].retry_at
    BY <1>1, <1>3 DEF TaskEntry
  <2> QED
    BY <2>1, Zenon DEF StaysPast, Past
<1> QED
  BY <1>1, <1>2, <1>3 DEF Acknowledged

LEMMA ReportPast ==
  ASSUME SchedulesTypeOK, PastRuns, OccurrenceRunsOnce, NEW b \in batch,
         ShowReport(b) \/ AcknowledgeReport(b)
  PROVE  PastRuns' /\ OccurrenceRunsOnce'
<1>1. UNCHANGED <<runs, leases, resumes, now>>
  BY DEF ShowReport, AcknowledgeReport, clock, users
<1>2. UNCHANGED tasks \/ tasks' = Acknowledged(b.task, b.run)
  BY DEF ShowReport, AcknowledgeReport, plugin
<1>3. \A t \in Tasks : StaysPast(t)
  BY <1>1, <1>2, AcknowledgedPast, SamePast
<1> QED
  BY <1>1, <1>3, NowNat, KeepsPast DEF SameRun

(* A worker's steps.                                                       *)
LEMMA WorkerPast ==
  ASSUME SchedulesTypeOK, PastRuns, OccurrenceRunsOnce, NEW r \in RunIds,
         \/ FinishRun(r) \/ FinishAnswerLost(r)
         \/ WorkerShows(r) \/ WorkerAcknowledges(r),
         AttemptsLeft
  PROVE  PastRuns' /\ OccurrenceRunsOnce'
<1>1. /\ UNCHANGED <<leases, resumes, now>> /\ runs \in [RunIds -> Run]
      /\ tasks \in [Tasks -> TaskEntry]
  BY DEF FinishRun, FinishAnswerLost, WorkerShows, WorkerAcknowledges, clock, users, SchedulesTypeOK
<1>2. \A q \in RunIds : SameRun(q)
  <2>1. TAKE q \in RunIds
  <2>2. \/ UNCHANGED runs
        \/ /\ runs[r].stage \in {"finish", "report", "ack"}
           /\ \E s \in {"report", "ack", "done"} : runs' = [runs EXCEPT ![r].stage = s]
    BY DEF FinishRun, FinishAnswerLost, WorkerShows, WorkerAcknowledges
  <2>3. CASE q = r
    BY <1>1, <2>2, <2>3 DEF Run, SameRun
  <2>4. CASE q # r
    BY <1>1, <2>2, <2>4 DEF SameRun
  <2> QED
    BY <2>3, <2>4
<1>3. \/ UNCHANGED tasks
      \/ tasks' = Acknowledged(runs[r].task, r)
      \/ FinishesRun(tasks[runs[r].task], r) /\ RecordFinish(r)
  BY DEF FinishRun, FinishAnswerLost, WorkerShows, WorkerAcknowledges, plugin
<1>4. ASSUME FinishesRun(tasks[runs[r].task], r), RecordFinish(r), NEW u \in Tasks
      PROVE  StaysPast(u)
  <2>1. /\ runs[r].task \in Tasks /\ TaskOK(tasks[runs[r].task]) /\ now \in 0..MaxTime
        /\ runs[r].result \in Outcomes /\ runs[r].manual \in BOOLEAN
    BY TasksOK DEF SchedulesTypeOK, Run
  <2>2. CASE u # runs[r].task
    <3>1. tasks'[u] = tasks[u]
      BY <1>1, <1>4, <2>2 DEF RecordFinish
    <3> QED
      BY <1>1, <3>1, SamePast
  <2>3. CASE u = runs[r].task
    <3>1. tasks'[u] = Ended(tasks[u], runs[r].result, runs[r].manual, r)
      BY <1>1, <1>4, <2>1, <2>3 DEF RecordFinish, Ended
    <3>2. ASSUME NEW d \in Nat, d <= now, Past(u, tasks[u], d, resumes)
          PROVE  Past(u, tasks'[u], d, resumes')
      BY <1>4, <2>1, <2>3, <3>1, <3>2, SettledPast DEF FinishesRun
    <3> QED
      BY <3>2 DEF StaysPast
  <2> QED
    BY <2>2, <2>3
<1>5. \A u \in Tasks : StaysPast(u)
  BY <1>1, <1>3, <1>4, AcknowledgedPast, SamePast
<1> QED
  BY <1>1, <1>2, <1>5, NowNat, KeepsPast

(* What users ask for.                                                     *)
ResetTo(x, s) == [Reset(x) EXCEPT !.status = s]

Resumed(x, s) == [Reset(x) EXCEPT !.status = s, !.cancel_requested = FALSE]

LEMMA ResetDue ==
  ASSUME NEW x \in TaskEntry, NEW s \in Statuses, NEW z,
         z = ResetTo(x, s) \/ z = Resumed(x, s)
  PROVE  z.status = s /\ z.due = x.due
<1> DEFINE zero == 0
           y == Reset(x)
<1>1. y = [x EXCEPT !.attempts = zero, !.retry_at = Never, !.manual_run = FALSE,
                    !.manual_retry = FALSE, !.manual_origin = FALSE, !.pause_requested = FALSE]
  BY DEF Reset
<1>2. Never \in Nat /\ zero \in Nat
  BY BoundsNat
<1>3. \/ z = [y EXCEPT !.status = s]
      \/ z = [y EXCEPT !.status = s, !.cancel_requested = FALSE]
  BY DEF ResetTo, Resumed
<1> HIDE DEF zero, y
<1>4. y \in TaskEntry /\ y.due = x.due
  BY <1>1, <1>2 DEF TaskEntry
<1> QED
  BY <1>3, <1>4 DEF TaskEntry

LEMMA UserPast ==
  ASSUME SchedulesTypeOK, PastRuns, OccurrenceRunsOnce, User
  PROVE  PastRuns' /\ OccurrenceRunsOnce'
<1>1. PICK t \in Tasks : \/ Add(t) \/ Approve(t) \/ Pause(t) \/ Resume(t)
                         \/ RunNow(t) \/ Retry(t) \/ Remove(t)
  BY DEF User
<1>2. PICK y : ChangeTask(t, y)
  BY <1>1 DEF Add, Approve, Pause, Resume, RunNow, Retry, Remove, UserRequest
<1>3. /\ UNCHANGED <<runs, leases, now>> /\ tasks' = [tasks EXCEPT ![t] = y]
      /\ tasks \in [Tasks -> TaskEntry] /\ tasks[t] \in TaskEntry
  BY <1>2 DEF ChangeTask, clock, SchedulesTypeOK
<1>4. resumes \subseteq resumes'
  BY <1>1 DEF Add, Approve, Pause, Resume, RunNow, Retry, Remove, users
<1>5. Onwards(t, tasks[t], tasks'[t])
  <2>1. CASE Add(t) \/ Approve(t)
    BY <2>1 DEF Add, Approve, Onwards
  <2>2. CASE Pause(t)
    <3>1. \/ /\ tasks[t].status = "running"
             /\ tasks'[t] = [tasks[t] EXCEPT !.pause_requested = TRUE]
          \/ /\ tasks[t].status = "active"
             /\ tasks'[t] = [Reset(tasks[t]) EXCEPT !.status = "paused"]
      BY <1>3, <2>2 DEF Pause, UserRequest, ChangeTask
    <3>2. CASE /\ tasks[t].status = "running"
               /\ tasks'[t] = [tasks[t] EXCEPT !.pause_requested = TRUE]
      <4>1. tasks'[t].status = tasks[t].status /\ tasks'[t].due = tasks[t].due
        BY <1>3, <3>2 DEF TaskEntry
      <4> QED
        BY <3>2, <4>1 DEF Onwards
    <3>3. CASE tasks'[t] = [Reset(tasks[t]) EXCEPT !.status = "paused"]
      <4>1. tasks'[t].status = "paused" /\ tasks'[t].due = tasks[t].due
        <5> DEFINE x == tasks[t]
                   z == tasks'[t]
                   p == "paused"
        <5>1. x \in TaskEntry /\ p \in Statuses /\ z = ResetTo(x, p)
          BY <1>3, <3>3 DEF Statuses, ResetTo
        <5> HIDE DEF x, z, p
        <5>2. z.status = p /\ z.due = x.due
          BY <5>1, ResetDue
        <5> QED
          BY <5>2 DEF x, z, p
      <4> QED
        BY <3>1, <4>1 DEF Onwards
    <3> QED
      BY <3>1, <3>2, <3>3
  <2>3. CASE Resume(t)
    <3>1. /\ tasks[t].status = "paused" /\ t \in resumes'
          /\ tasks'[t] = [Reset(tasks[t]) EXCEPT !.status = "active", !.cancel_requested = FALSE]
      BY <1>3, <2>3 DEF Resume, UserRequest, ChangeTask
    <3>2. tasks'[t].status = "active" /\ tasks'[t].due = tasks[t].due
      <4> DEFINE x == tasks[t]
                 z == tasks'[t]
                 p == "active"
      <4>1. x \in TaskEntry /\ p \in Statuses /\ z = Resumed(x, p)
        BY <1>3, <3>1 DEF Statuses, Resumed
      <4> HIDE DEF x, z, p
      <4>2. z.status = p /\ z.due = x.due
        BY <4>1, ResetDue
      <4> QED
        BY <4>2 DEF x, z, p
    <3> QED
      BY <3>1, <3>2 DEF Onwards
  <2>4. CASE RunNow(t) \/ Retry(t)
    <3>1. /\ tasks[t].status \in {"active", "completed", "skipped", "paused"} /\ t \in resumes'
          /\ \/ tasks'[t] = [Requested(tasks[t]) EXCEPT !.manual_retry = FALSE, !.manual_origin = TRUE]
             \/ tasks'[t] = [Requested(tasks[t]) EXCEPT !.manual_retry = TRUE]
      BY <1>3, <2>4 DEF RunNow, Retry, UserRequest, ChangeTask
    <3>2. /\ Requested(tasks[t]) \in TaskEntry /\ Requested(tasks[t]).status = "active"
          /\ Requested(tasks[t]).due = tasks[t].due
      BY <1>3, BoundsNat DEF Requested, TaskEntry, Statuses
    <3>3. tasks'[t].status = "active" /\ tasks'[t].due = tasks[t].due
      BY <3>1, <3>2 DEF TaskEntry
    <3> QED
      BY <3>1, <3>3 DEF Onwards
  <2>5. CASE Remove(t)
    <3>1. \/ /\ tasks[t].status = "running"
             /\ tasks'[t] = [tasks[t] EXCEPT !.cancel_requested = TRUE]
          \/ tasks'[t] = NoTask("removed")
      BY <1>3, <2>5 DEF Remove, UserRequest, ChangeTask
    <3> QED
      BY <1>3, <3>1 DEF Onwards, NoTask, TaskEntry
  <2> QED
    BY <1>1, <2>1, <2>2, <2>3, <2>4, <2>5
<1>6. \A u \in Tasks : StaysPast(u)
  <2>1. TAKE u \in Tasks
  <2>2. CASE u = t
    BY <1>4, <1>5, <2>2, OnwardsPast
  <2>3. CASE u # t
    BY <1>3, <1>4, <2>3, SamePast
  <2> QED
    BY <2>2, <2>3
<1> QED
  BY <1>3, <1>6, NowNat, KeepsPast DEF SameRun

LEMMA NextPast ==
  ASSUME IInv, PastRuns, OccurrenceRunsOnce, [SchedulesNext]_scheduling
  PROVE  PastRuns' /\ OccurrenceRunsOnce'
<1>0. SchedulesTypeOK /\ AttemptsLeft /\ LeasesFresh
  BY DEF IInv
<1>1. CASE UNCHANGED scheduling
  <2>1. UNCHANGED <<tasks, runs, leases, now, resumes>>
    BY <1>1 DEF scheduling, plugin, clock, users
  <2> QED
    BY <1>0, <2>1, NowNat, KeepsPast, SamePast DEF SameRun
<1>2. CASE Quiet
  BY <1>0, <1>2, QuietPast
<1>3. CASE Recover \/ RecoverAnswerLost
  BY <1>0, <1>3, RecoverPast
<1>4. CASE ClaimWork
  <2>1. PICK t \in Tasks : Claim(t, "running")
    BY <1>4 DEF ClaimWork
  <2> QED
    BY <1>0, <1>4, <2>1, ClaimPast DEF ClaimWork, clock
<1>5. CASE ClaimAnswerLost
  <2>1. ASSUME NEW t \in Tasks, Claim(t, "lost")
        PROVE  PastRuns' /\ OccurrenceRunsOnce'
    BY <1>0, <1>5, <2>1, ClaimPast DEF ClaimAnswerLost
  <2>2. CASE UNCHANGED <<plugin, runs, leases, users>>
    <3>1. UNCHANGED <<tasks, runs, leases, now, resumes>>
      BY <1>5, <2>2 DEF ClaimAnswerLost, plugin, users
    <3> QED
      BY <1>0, <3>1, NowNat, KeepsPast, SamePast DEF SameRun
  <2> QED
    BY <1>5, <2>1, <2>2 DEF ClaimAnswerLost
<1>6. ASSUME NEW b \in batch, ShowReport(b) \/ AcknowledgeReport(b)
      PROVE  PastRuns' /\ OccurrenceRunsOnce'
  BY <1>0, <1>6, ReportPast
<1>7. ASSUME NEW r \in RunIds,
             FinishRun(r) \/ FinishAnswerLost(r) \/ WorkerShows(r) \/ WorkerAcknowledges(r)
      PROVE  PastRuns' /\ OccurrenceRunsOnce'
  BY <1>0, <1>7, WorkerPast
<1>8. CASE User
  BY <1>0, <1>8, UserPast
<1> QED
  BY <1>1, <1>2, <1>3, <1>4, <1>5, <1>6, <1>7, <1>8, StepCases

(* Whatever dies or is lost in between, an occurrence that was run when it *)
(* was due is not run as due once more: finish and claim move the due time *)
(* past it before the task is active again (succeed, fail, claim).         *)
THEOREM OccurrencesRunOnce == SchedulesSpec => []OccurrenceRunsOnce
<1>1. SchedulesInit => PastRuns /\ OccurrenceRunsOnce
  <2> SUFFICES ASSUME SchedulesInit
               PROVE  PastRuns /\ OccurrenceRunsOnce
    OBVIOUS
  <2>1. \A r \in RunIds : ~(r <= leases)
    BY BoundsNat DEF SchedulesInit, RunIds
  <2> QED
    BY <2>1 DEF PastRuns, Started, OccurrenceRunsOnce
<1>2. IInv /\ PastRuns /\ OccurrenceRunsOnce /\ [SchedulesNext]_scheduling => (PastRuns /\ OccurrenceRunsOnce)'
  BY NextPast
<1> QED
  BY <1>1, <1>2, Invariance, PTL DEF SchedulesSpec

-----------------------------------------------------------------------------
(* When recovery leaves the runs in progress alone.                        *)

(* No task is claimed again before the loop has joined the worker of its   *)
(* previous run.                                                           *)
OneWorker == \A p, r \in Workers : runs[p].task = runs[r].task => p = r

(* What is being worked on is in active_tasks, which recovery leaves out.  *)
Registered == \A r \in Workers : runs[r].task \in active

LEMMA StaysRegistered ==
  ASSUME IInv, OneWorker, Registered, [SchedulesNext]_scheduling
  PROVE  Registered'
<1> USE DEF Live
<1>0. runs \in [RunIds -> Run] /\ active \subseteq Tasks
  BY DEF IInv, SchedulesTypeOK
<1> SUFFICES ASSUME NEW r \in RunIds, runs'[r].stage \in Live
             PROVE  runs'[r].task \in active'
  BY DEF Registered, Workers
<1>1. ASSUME runs[r].stage \in Live, runs'[r].task = runs[r].task, active \subseteq active'
      PROVE  runs'[r].task \in active'
  BY <1>1 DEF Registered, Workers
<1>2. CASE UNCHANGED scheduling
  BY <1>1, <1>2 DEF scheduling, loop
<1>3. CASE Quiet
  <2>1. ASSUME NEW q \in RunIds, JoinWorker(q) PROVE runs'[r].task \in active'
    <3>1. /\ q # r /\ runs[r].stage \in Live /\ runs'[r] = runs[r]
          /\ runs[q].stage \in Live /\ active' = active \ {runs[q].task}
      BY <1>0, <2>1 DEF JoinWorker, Run
    <3>2. runs[r].task # runs[q].task
      BY <3>1 DEF OneWorker, Workers
    <3> QED BY <3>1, <3>2 DEF Registered, Workers
  <2>2. ASSUME NEW q \in RunIds, Execute(q) \/ WorkerDies(q) PROVE runs'[r].task \in active'
    <3>1. runs[r].stage \in Live /\ runs'[r].task = runs[r].task /\ active' = active
      BY <1>0, <2>2 DEF Execute, WorkerDies, Run, loop
    <3> QED BY <1>1, <3>1
  <2>3. ~DaemonStops
    BY <1>0 DEF DaemonStops, Workers, Run
  <2>4. CASE UNCHANGED <<runs, active>>
    BY <1>1, <2>4
  <2>5. \/ UNCHANGED <<runs, active>> \/ DaemonStops
        \/ \E q \in RunIds : JoinWorker(q) \/ Execute(q) \/ WorkerDies(q)
    BY <1>3 DEF Quiet, ReadReports, ReportsNotRead, ReportsSettled, NothingToClaim, WakeUp,
                ReportNotShown, Tick, SchedulerRestarts, DaemonStarts, loop
  <2> QED BY <2>1, <2>2, <2>3, <2>4, <2>5
<1>4. ASSUME NEW t \in Tasks, NEW stage \in {"running", "lost"}, Claim(t, stage),
             active \subseteq active',
             stage = "running" /\ ~SkippedByPolicy(tasks[t]) => t \in active'
      PROVE  runs'[r].task \in active'
  <2> DEFINE lease == leases + 1
  <2>1. \/ runs' = [runs EXCEPT ![lease] = [@ EXCEPT !.stage = "skipped", !.task = t]]
        \/ /\ ~SkippedByPolicy(tasks[t])
           /\ \E y : runs' = [runs EXCEPT ![lease] = y] /\ y.stage = stage /\ y.task = t
    BY <1>4 DEF Claim
  <2> HIDE DEF lease
  <2>2. CASE r # lease
    BY <1>0, <1>1, <1>4, <2>1, <2>2
  <2>3. CASE r = lease
    <3>1. CASE runs' = [runs EXCEPT ![lease] = [@ EXCEPT !.stage = "skipped", !.task = t]]
      <4>1. runs'[r].stage = "skipped"
        BY <1>0, <2>3, <3>1 DEF Run
      <4> QED BY <4>1
    <3>2. ASSUME ~SkippedByPolicy(tasks[t]), NEW y, runs' = [runs EXCEPT ![lease] = y],
                 y.stage = stage, y.task = t
          PROVE  runs'[r].task \in active'
      <4>1. runs'[r] = y
        BY <1>0, <2>3, <3>2
      <4>2. stage = "running"
        BY <3>2, <4>1
      <4> QED BY <1>4, <3>2, <4>1, <4>2
    <3> QED BY <2>1, <3>1, <3>2
  <2> QED BY <2>2, <2>3
<1>5. CASE ClaimWork
  <2>1. PICK t \in Tasks :
          /\ Claim(t, "running")
          /\ IF SkippedByPolicy(tasks[t]) THEN UNCHANGED active ELSE active' = active \cup {t}
    BY <1>5 DEF ClaimWork
  <2> QED BY <1>4, <2>1
<1>6. CASE ClaimAnswerLost
  BY <1>1, <1>4, <1>6 DEF ClaimAnswerLost
<1>7. CASE \/ Recover \/ RecoverAnswerLost \/ User
           \/ \E b \in batch : ShowReport(b) \/ AcknowledgeReport(b)
  <2>1. UNCHANGED <<runs, active>>
    BY <1>7 DEF Recover, RecoverAnswerLost, ShowReport, AcknowledgeReport, User, Add, Approve,
                Pause, Resume, RunNow, Retry, Remove, UserRequest, ChangeTask, loop
  <2> QED BY <1>1, <2>1
<1>8. ASSUME NEW q \in RunIds,
             FinishRun(q) \/ FinishAnswerLost(q) \/ WorkerShows(q) \/ WorkerAcknowledges(q)
      PROVE  runs'[r].task \in active'
  <2>1. /\ active' = active
        /\ \/ runs' = runs
           \/ /\ runs[q].stage \in Live
              /\ \E stage \in Live : runs' = [runs EXCEPT ![q].stage = stage]
    BY <1>8 DEF FinishRun, FinishAnswerLost, WorkerShows, WorkerAcknowledges, loop
  <2>2. runs[r].stage \in Live /\ runs'[r].task = runs[r].task
    BY <1>0, <2>1 DEF Run
  <2> QED BY <1>1, <2>1, <2>2
<1> QED BY <1>2, <1>3, <1>5, <1>6, <1>7, <1>8, StepCases

LEMMA RecoveryLeaves ==
  ASSUME IInv, Registered, [SchedulesNext]_scheduling, NEW r \in RunIds,
         runs[r].stage = "running", recorded[r] = 0
  PROVE  recorded'[r] = 0
<1>0. /\ runs \in [RunIds -> Run] /\ recorded \in [RunIds -> 0..2] /\ leases \in Nat
      /\ runs[r].task \in active /\ r <= leases
  BY BoundsNat DEF IInv, SchedulesTypeOK, Registered, Workers, Live, LeasesFresh, RunIds
<1>1. ASSUME NEW q \in RunIds, q # r, recorded' = [recorded EXCEPT ![q] = Bump(recorded[q])]
      PROVE  recorded'[r] = 0
  BY <1>0, <1>1
<1>2. CASE UNCHANGED recorded
  BY <1>2
<1>3. CASE Recover \/ RecoverAnswerLost
  <2>1. Recovery
    BY <1>3 DEF Recover, RecoverAnswerLost
  <2>2. \A t \in Tasks : Stale(t) => tasks[t].run_id # r
    BY <1>0 DEF Stale, IInv, RunningRun
  <2> QED BY <1>0, <2>1, <2>2 DEF Recovery
<1>4. ASSUME NEW t \in Tasks, NEW stage, Claim(t, stage) PROVE recorded'[r] = 0
  <2>1. leases + 1 \in RunIds /\ leases + 1 # r
    BY <1>0, <1>4, BoundsNat DEF Claim, RunIds
  <2>2. \/ recorded' = recorded
        \/ recorded' = [recorded EXCEPT ![leases + 1] = Bump(recorded[leases + 1])]
    BY <1>4 DEF Claim
  <2> QED BY <1>1, <1>2, <2>1, <2>2
<1>5. ASSUME NEW q \in RunIds, FinishRun(q) \/ FinishAnswerLost(q) PROVE recorded'[r] = 0
  <2>1. q # r
    BY <1>5 DEF FinishRun, FinishAnswerLost
  <2>2. recorded' = recorded \/ recorded' = [recorded EXCEPT ![q] = Bump(recorded[q])]
    BY <1>5 DEF FinishRun, FinishAnswerLost, RecordFinish, plugin
  <2> QED BY <1>1, <1>2, <2>1, <2>2
<1>6. CASE \/ UNCHANGED scheduling \/ Quiet \/ User
           \/ \E b \in batch : ShowReport(b) \/ AcknowledgeReport(b)
           \/ \E q \in RunIds : WorkerShows(q) \/ WorkerAcknowledges(q)
  <2>1. CASE Quiet
    BY <2>1, QuietUnchanged
  <2>2. CASE User
    BY <2>2 DEF User, Add, Approve, Pause, Resume, RunNow, Retry, Remove, UserRequest, ChangeTask
  <2> QED BY <1>6, <2>1, <2>2 DEF scheduling, plugin, ShowReport, AcknowledgeReport, WorkerShows,
                                  WorkerAcknowledges
<1> QED BY <1>2, <1>3, <1>4, <1>5, <1>6, StepCases DEF ClaimWork, ClaimAnswerLost, plugin

(* Recovery records a run in progress as interrupted only where a task was *)
(* claimed again before the worker of its previous run was joined: apart   *)
(* from that active_tasks has every run a worker executes, whatever dies,  *)
(* is lost or is asked for.                                                *)
THEOREM LiveRunsKeptByOneWorker == SchedulesSpec /\ []OneWorker => LiveRunsKept
<1>1. SchedulesInit => Registered
  BY DEF SchedulesInit, Registered, Workers, Live
<1>2. IInv /\ OneWorker /\ Registered /\ [SchedulesNext]_scheduling => Registered'
  BY StaysRegistered
<1>3. IInv /\ Registered /\ [SchedulesNext]_scheduling =>
        \A r \in RunIds : runs[r].stage = "running" /\ daemon' /\ recorded[r] = 0 => recorded'[r] = 0
  BY RecoveryLeaves
<1> QED BY <1>1, <1>2, <1>3, Invariance, PTL DEF SchedulesSpec, LiveRunsKept
=============================================================================
