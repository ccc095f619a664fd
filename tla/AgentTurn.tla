------------------------------- MODULE AgentTurn -------------------------------
(***************************************************************************)
(* Model turns (answer in krabb-runtime/src/lib.rs) of the channel bridge  *)
(* and of terminal clients, over one provider process, one tool process    *)
(* and one approval gate.  A turn asks the provider, serves the tool calls *)
(* the provider sends while it works (host_tool_with_registry), carries    *)
(* out the calls of its reply one by one (execute_tool_with_registry), and *)
(* asks again, until a reply has no calls.  A mutating call may need an    *)
(* approval, which the bridge waits for with the turn suspended            *)
(* (wait_approval) and a terminal client gives beside it.  Cancellations,  *)
(* time limits and vanished clients drop a turn at the await it is at.     *)
(*                                                                         *)
(* Each turn is of a session of its own.  The bridge runs its turns one    *)
(* after the other; terminal turns run beside them.  The stages are the    *)
(* awaits of a turn:                                                       *)
(*   waiting   for the lock of the provider     reading   its output       *)
(*   gate      for an approval                  ready     for the tool     *)
(*   called    for the result of the tool       picking   the next call    *)
(*   failing, failed, recovering, clearing, stopping: the end of a turn    *)
(***************************************************************************)
EXTENDS PluginProcess, ApprovalGate

CONSTANTS
  Turns,      (* the turns, the bridge's in this order                      *)
  ToolSteps,  (* TOOL_STEPS                                                 *)
  CallLimit,  (* TOOL_CALLS                                                 *)
  Setups      (* who starts each turn, the approval mode, and the calls the *)
              (* model may ask for while it works and in a reply            *)

ASSUME TurnAssumption ==
  /\ Turns = 1..Cardinality(Turns) /\ IsFiniteSet(Turns)
  /\ {Workers, MaxAsks, ToolSteps, CallLimit, GateLimit} \subseteq Nat
  /\ \A s \in Setups : /\ s.kind \in [Turns -> {"channel", "terminal"}]
                        /\ s.mode \in {"off", "prompt", "auto"}
                        /\ s.asks \subseteq Jobs /\ s.plans \subseteq Seq(Jobs)

VARIABLES
  setup,        (* one of Setups                                            *)
  turn,         (* the turns                                                *)
  p,            (* the provider process                                     *)
  gate,         (* the approval gate                                        *)
  sent,         (* the calls the tool process has not carried out           *)
  ran, yes, took   (* history: calls carried out, approvals given, replies  *)

kind == setup.kind
mode == setup.mode
history == <<ran, yes, took>>
vars == <<setup, turn, p, gate, sent, history>>

Stages == {"idle", "waiting", "reading", "gate", "ready", "called", "picking",
           "failing", "failed", "recovering", "clearing", "stopping", "over"}

Challenges == Turns \X (1..(CallLimit + 1))

NoJob == "none"

(* A schedule is proposed by a call that mutates, of a kind of its own.    *)
Mutates(job) == job \in {"change", "propose"}

NewTurn(t) ==
  [stage |-> "idle", via |-> "loop", job |-> NoJob, origin |-> t, emit |-> NoCall,
   plan |-> <<>>, from |-> t, step |-> 0, wire |-> IF kind[t] = "channel" THEN 10 * t ELSE 1,
   calls |-> 0, wait |-> "no", cancel |-> "no", phase |-> "safe",
   broken |-> FALSE, requeued |-> FALSE]

Init ==
  /\ setup \in Setups
  /\ turn = [t \in Turns |-> NewTurn(t)]
  /\ p = Started /\ gate = EmptyGate(Turns)
  /\ sent = {} /\ ran = {} /\ yes = {} /\ took = {}

-----------------------------------------------------------------------------
(* Who is where.                                                           *)

InTurn(t) == turn[t].stage \notin {"idle", "over"}

Bridged == {t \in Turns : kind[t] = "channel"}

(* A turn holds the lock of the provider while it reads, and while it      *)
(* serves a call of the provider.                                          *)
Holds(t) ==
  \/ turn[t].stage = "reading"
  \/ turn[t].via = "host" /\ turn[t].stage \in {"gate", "ready", "called"}

ProviderFree == \A t \in Turns : ~Holds(t)

ToolFree == \A t \in Turns : turn[t].stage # "called"

(* The turn is polled, and has not been told to stop.                      *)
Polled(t) == turn[t].wait = "no"

GoesOn(t) == Polled(t) /\ turn[t].cancel # "asked"

Challenge(t) == <<t, turn[t].calls>>

Call(t) ==
  [by |-> t, origin |-> turn[t].origin, job |-> turn[t].job, n |-> turn[t].calls,
   via |-> turn[t].via, step |-> turn[t].step]

To(t, stage) == turn' = [turn EXCEPT ![t].stage = stage]

(* answer returns: what is left is the lease and the way the turn ended.   *)
Left(t, r, stage) ==
  [NewTurn(t) EXCEPT !.stage = stage, !.cancel = r.cancel, !.phase = r.phase,
                     !.broken = r.broken, !.requeued = r.requeued]

Leave(t, stage) == turn' = [turn EXCEPT ![t] = Left(t, @, stage)]

-----------------------------------------------------------------------------
(* Asking the provider.                                                    *)

Start(t) ==
  /\ turn[t].stage = "idle"
  /\ kind[t] = "channel" => \A u \in Bridged : u < t => turn[u].stage = "over"
  /\ To(t, "waiting")
  /\ UNCHANGED <<setup, p, gate, sent, history>>

Ask(t) ==
  /\ turn[t].stage = "waiting" /\ GoesOn(t) /\ ProviderFree
  /\ IF p.up
     THEN p' = HostWrites(p, Request(turn[t].wire, t)) /\ To(t, "reading")
     ELSE UNCHANGED p /\ Leave(t, "failing")
  /\ UNCHANGED <<setup, gate, sent, history>>

Reading(t, frame) ==
  /\ turn[t].stage = "reading" /\ GoesOn(t)
  /\ IF p.stdout = <<>> THEN ~p.up /\ frame = "end" ELSE frame = Head(p.stdout).kind

ReadEnd(t) ==
  /\ Reading(t, "end") /\ Leave(t, "failing")
  /\ UNCHANGED <<setup, p, gate, sent, history>>

ReadBroken(t) ==
  /\ Reading(t, "broken") /\ p' = HostReads(p) /\ Leave(t, "failing")
  /\ UNCHANGED <<setup, gate, sent, history>>

(* A response under another ID is passed over.                             *)
ReadOther(t) ==
  /\ Reading(t, "reply") \/ Reading(t, "refusal")
  /\ Head(p.stdout).id # turn[t].wire
  /\ p' = HostReads(p)
  /\ UNCHANGED <<setup, turn, gate, sent, history>>

ReadRefusal(t) ==
  /\ Reading(t, "refusal") /\ Head(p.stdout).id = turn[t].wire
  /\ p' = HostReads(p) /\ Leave(t, "failing")
  /\ UNCHANGED <<setup, gate, sent, history>>

(* keep_one_mutation: a reply is cut before its second mutating call.      *)
KeepOneMutation(plan) ==
  LET changes == {i \in DOMAIN plan : Mutates(plan[i])} IN
  IF Cardinality(changes) < 2 THEN plan
  ELSE LET second == CHOOSE i \in changes : Cardinality({j \in changes : j < i}) = 1
       IN SubSeq(plan, 1, second - 1)

(* A reply with no calls is the answer; others lead to the tools, up to    *)
(* the last step.                                                          *)
ReadReply(t) ==
  LET f == Head(p.stdout)  plan == KeepOneMutation(f.plan) IN
  /\ Reading(t, "reply") /\ f.id = turn[t].wire
  /\ p' = HostReads(p)
  /\ took' = IF f.origin = t THEN took ELSE took \cup {<<t, f.origin>>}
  /\ IF turn[t].cancel # "no" \/ (plan # <<>> /\ turn[t].step = ToolSteps)
     THEN Leave(t, "failing")
     ELSE IF plan = <<>> THEN Leave(t, "over")
     ELSE turn' = [turn EXCEPT ![t].stage = "picking", ![t].plan = plan, ![t].from = f.origin,
                               ![t].wire = @ + 1, ![t].step = @ + 1]
  /\ UNCHANGED <<setup, gate, sent, ran, yes>>

-----------------------------------------------------------------------------
(* Tool calls: of the provider while it works, and of its reply.           *)

(* The call a turn has before it: how it came, the call, whose it is, and  *)
(* its ID for the provider.                                                *)
Offers(t) ==
  IF Reading(t, "call")
  THEN LET f == Head(p.stdout) IN
       {[via |-> "host", job |-> f.job, origin |-> f.origin, emit |-> f.id]}
  ELSE IF turn[t].stage = "picking" /\ turn[t].plan # <<>>
  THEN {[via |-> "loop", job |-> Head(turn[t].plan), origin |-> turn[t].from, emit |-> NoCall]}
  ELSE {}

(* schedule_propose is never held up: the request of the user is enough.   *)
ModeFor(job) == IF job = "propose" THEN "auto" ELSE mode

NeedsApproval(job) == Mutates(job) /\ ModeFor(job) = "prompt"

Refused(t, job) ==
  \/ turn[t].calls >= CallLimit
  \/ turn[t].cancel # "no"
  \/ Mutates(job) /\ ModeFor(job) = "off"
  \/ NeedsApproval(job) /\ IssueRefuses(gate)

(* The result goes to the provider, or into the next request; an error in  *)
(* the reply's own calls ends the turn.                                    *)
GiveBack(t, r, emit, ok, q) ==
  IF r.via = "host"
  THEN IF q.up
       THEN p' = HostWrites(q, Answer(emit)) /\ turn' = [turn EXCEPT ![t] = [r EXCEPT !.stage = "reading"]]
       ELSE p' = q /\ turn' = [turn EXCEPT ![t] = Left(t, r, "failing")]
  ELSE /\ p' = q
       /\ turn' = [turn EXCEPT ![t] = IF ok
            THEN [r EXCEPT !.stage = "picking", !.plan = Tail(@), !.wire = @ + 1]
            ELSE Left(t, r, "failing")]

Consumed(via) == IF via = "host" THEN HostReads(p) ELSE p

Refuse(t, o) ==
  /\ Refused(t, o.job)
  /\ GiveBack(t, [turn[t] EXCEPT !.via = o.via, !.calls = @ + 1], o.emit, FALSE, Consumed(o.via))
  /\ UNCHANGED <<setup, gate, sent, history>>

(* The counter of the calls goes up once for a call of the provider and    *)
(* twice for one of a reply.                                               *)
Taken(t, o, stage) ==
  [turn[t] EXCEPT !.stage = stage, !.via = o.via, !.job = o.job, !.origin = o.origin,
                  !.emit = o.emit, !.calls = @ + (IF o.via = "host" THEN 1 ELSE 2)]

(* A mutating call marks the lease before it is made.                      *)
(* Mutant: it does not.                                                    *)
NotMarked(r) == r

Marked(r) == IF Mutates(r.job) THEN [r EXCEPT !.phase = "unsafe"] ELSE r

Admit(t, o) ==
  /\ ~Refused(t, o.job)
  /\ p' = Consumed(o.via)
  /\ IF NeedsApproval(o.job)
     THEN LET r == Taken(t, o, "gate") IN
          /\ turn' = [turn EXCEPT ![t] = [r EXCEPT !.wait = IF kind[t] = "channel" THEN "posting" ELSE "no"]]
          /\ gate' = Issue(gate, <<t, r.calls>>)
     ELSE /\ turn' = [turn EXCEPT ![t] = Marked(Taken(t, o, "ready"))]
          /\ UNCHANGED gate
  /\ UNCHANGED <<setup, sent, history>>

(* All calls of the reply are done: the provider is asked again.           *)
AskAgain(t) ==
  /\ turn[t].stage = "picking" /\ turn[t].plan = <<>>
  /\ To(t, "waiting")
  /\ UNCHANGED <<setup, p, gate, sent, history>>

-----------------------------------------------------------------------------
(* Approvals.                                                              *)

SetWait(t, wait) == turn' = [turn EXCEPT ![t].wait = wait]

Posted(t) ==
  /\ turn[t].wait = "posting" /\ SetWait(t, "polling")
  /\ UNCHANGED <<setup, p, gate, sent, history>>

(* The bridge polls the channel until nothing at all is pending.           *)
WaitOver(t) ==
  /\ turn[t].wait = "polling" /\ ~HasPending(gate) /\ SetWait(t, "no")
  /\ UNCHANGED <<setup, p, gate, sent, history>>

(* The request cannot be posted, a poll fails, the turn is cancelled or    *)
(* its time is over: the challenge is withdrawn if it is still pending.    *)
WaitBroken(t) ==
  /\ turn[t].wait \in {"posting", "polling"}
  /\ gate' = Withdraw(gate, Challenge(t)) /\ SetWait(t, "no")
  /\ UNCHANGED <<setup, p, sent, history>>

(* Buttons are heard while the bridge polls: between its turns, and while  *)
(* one of them waits for an approval.                                      *)
Polling ==
  \/ \E t \in Bridged : turn[t].wait = "polling"
  \/ \A t \in Bridged : ~InTurn(t)

(* The approvals a person had the right and the time to give.              *)
Press(c, chat, allowed, verdict) ==
  /\ Polling /\ kind[c[1]] = "channel"
  /\ AcceptsPress(gate, c, chat, allowed)
  /\ gate' = Resolve(gate, c, verdict)
  /\ yes' = IF verdict = "approve" /\ allowed /\ chat = c[1] /\ c \notin gate.lapsed
            THEN yes \cup {c} ELSE yes
  /\ UNCHANGED <<setup, turn, p, sent, ran, took>>

PressLocal(c, verdict) ==
  /\ c \in gate.open
  /\ gate' = ResolveLocal(gate, c, verdict)
  /\ yes' = IF verdict = "approve" /\ c \notin gate.lapsed THEN yes \cup {c} ELSE yes
  /\ UNCHANGED <<setup, turn, p, sent, ran, took>>

ListApprovals ==
  /\ gate.lapsed # {} /\ gate' = Purged(gate)
  /\ UNCHANGED <<setup, turn, p, sent, history>>

(* A challenge lives as long as a whole turn may take.                     *)
LapseChallenge(c) ==
  /\ c \in gate.open \ gate.lapsed
  /\ gate.waits[c[1]] # c[2]
  /\ gate' = Lapse(gate, c)
  /\ UNCHANGED <<setup, turn, p, sent, history>>

AtGate(t, said) ==
  /\ turn[t].stage = "gate" /\ GoesOn(t) /\ gate.said[t] = said

(* A terminal session that was cancelled meanwhile has no lease to mark.   *)
Approved(t) ==
  /\ AtGate(t, "approve")
  /\ IF kind[t] = "terminal" /\ turn[t].cancel # "no"
     THEN GiveBack(t, turn[t], turn[t].emit, FALSE, p)
     ELSE turn' = [turn EXCEPT ![t] = Marked([@ EXCEPT !.stage = "ready"])] /\ UNCHANGED p
  /\ gate' = Forgotten(gate, t)
  /\ UNCHANGED <<setup, sent, history>>

Denied(t) ==
  /\ AtGate(t, "deny") /\ GiveBack(t, turn[t], turn[t].emit, TRUE, p)
  /\ gate' = Forgotten(gate, t)
  /\ UNCHANGED <<setup, sent, history>>

Withdrawn(t) ==
  /\ AtGate(t, "gone") /\ GiveBack(t, turn[t], turn[t].emit, FALSE, p)
  /\ gate' = Forgotten(gate, t)
  /\ UNCHANGED <<setup, sent, history>>

-----------------------------------------------------------------------------
(* The tool process.                                                       *)

CallTool(t) ==
  /\ turn[t].stage = "ready" /\ GoesOn(t) /\ ToolFree
  /\ sent' = sent \cup {Call(t)} /\ To(t, "called")
  /\ UNCHANGED <<setup, p, gate, history>>

(* The process carries out what it was sent, whether or not the turn still *)
(* waits for it.                                                           *)
ToolRuns(x) ==
  /\ x \in sent
  /\ sent' = sent \ {x} /\ ran' = ran \cup (IF Mutates(x.job) THEN {x} ELSE {})
  /\ UNCHANGED <<setup, turn, p, gate, yes, took>>

ToolReturns(t) ==
  /\ turn[t].stage = "called" /\ GoesOn(t) /\ Call(t) \notin sent
  /\ \E ok \in BOOLEAN : GiveBack(t, turn[t], turn[t].emit, ok, p)
  /\ UNCHANGED <<setup, gate, sent, history>>

(* The transport fails: the call of a provider restarts the tool at once,  *)
(* the call of a reply leaves that to the end of the turn.                 *)
ToolBreaks(t) ==
  /\ turn[t].stage = "called" /\ GoesOn(t)
  /\ GiveBack(t, [turn[t] EXCEPT !.broken = (turn[t].via = "loop")], turn[t].emit, FALSE, p)
  /\ sent' = IF turn[t].via = "host" THEN {} ELSE sent
  /\ UNCHANGED <<setup, gate, history>>

-----------------------------------------------------------------------------
(* The ends of a turn.                                                     *)

Awaiting == {"waiting", "reading", "gate", "ready", "called"}

(* What is left of a call that is dropped: the provider works on.          *)
Drop(t) ==
  /\ p' \in (IF turn[t].stage = "reading" THEN Abandoned(p) ELSE {p})
  /\ gate' = Forgotten(gate, t)

Acked(t) ==
  LET r == Left(t, turn[t], "over") IN
  turn' = [turn EXCEPT ![t] = [r EXCEPT !.cancel = IF @ = "no" THEN "no" ELSE "acked"]]

SeesCancel(t) ==
  /\ turn[t].stage \in Awaiting /\ Polled(t) /\ turn[t].cancel = "asked"
  /\ Drop(t)
  /\ IF kind[t] = "channel" THEN Leave(t, "clearing") ELSE Acked(t)
  /\ UNCHANGED <<setup, sent, history>>

(* At the deadline of the turn; a tool that was being called is to blame.  *)
TimesOut(t) ==
  /\ turn[t].stage \in Awaiting /\ GoesOn(t)
  /\ Drop(t)
  /\ LET blamed == turn[t].via = "loop" /\ turn[t].stage \in {"gate", "ready", "called"}
     IN turn' = [turn EXCEPT ![t] = Left(t, [@ EXCEPT !.broken = blamed], "failing")]
  /\ UNCHANGED <<setup, sent, history>>

(* The call of the provider has a time limit of its own, and what it does  *)
(* for the provider meanwhile counts.                                      *)
ProviderTimesOut(t) ==
  /\ Holds(t) /\ GoesOn(t)
  /\ Drop(t) /\ Leave(t, "failing")
  /\ UNCHANGED <<setup, sent, history>>

(* A terminal client that is gone takes its turn with it.                  *)
ClientGone(t) ==
  /\ kind[t] = "terminal" /\ turn[t].stage \in Awaiting
  /\ Drop(t) /\ Leave(t, "over")
  /\ UNCHANGED <<setup, sent, history>>

FailTerminal(t) ==
  /\ turn[t].stage = "failing" /\ kind[t] = "terminal"
  /\ Acked(t)
  /\ UNCHANGED <<setup, p, gate, sent, history>>

FailChannel(t) ==
  /\ turn[t].stage = "failing" /\ kind[t] = "channel"
  /\ To(t, IF turn[t].cancel = "no" THEN "failed" ELSE "clearing")
  /\ UNCHANGED <<setup, p, gate, sent, history>>

(* The failure path: the failed tool is restarted, the message queued      *)
(* again unless the lease was marked, and the provider restarted.          *)
RestartTools(t) ==
  /\ turn[t].stage = "failed" /\ turn[t].broken /\ ToolFree
  /\ sent' = {} /\ turn' = [turn EXCEPT ![t].broken = FALSE]
  /\ UNCHANGED <<setup, p, gate, history>>

(* Mutant: the message is queued again whatever the turn has done.         *)
RecordFailureAlways(t) ==
  /\ turn[t].stage = "failed" /\ ~turn[t].broken
  /\ turn' = [turn EXCEPT ![t].stage = "recovering", ![t].requeued = TRUE]
  /\ UNCHANGED <<setup, p, gate, sent, history>>

RecordFailure(t) ==
  /\ turn[t].stage = "failed" /\ ~turn[t].broken
  /\ turn' = [turn EXCEPT ![t].stage = "recovering", ![t].requeued = (turn[t].phase = "safe")]
  /\ UNCHANGED <<setup, p, gate, sent, history>>

Recover(t) ==
  /\ turn[t].stage = "recovering" /\ ProviderFree
  /\ p' \in Restarted
  /\ To(t, IF p'.up THEN "over" ELSE "recovering")
  /\ UNCHANGED <<setup, gate, sent, history>>

(* The cancellation path: the provider and the tools are restarted before  *)
(* the client that asked is told.                                          *)
(* Mutants: the one or the other is not restarted.                         *)
ClearKeepsProvider(t) ==
  /\ turn[t].stage = "clearing" /\ To(t, "stopping")
  /\ UNCHANGED <<setup, p, gate, sent, history>>

Clear(t) ==
  /\ turn[t].stage = "clearing" /\ ProviderFree
  /\ p' \in Restarted /\ To(t, "stopping")
  /\ UNCHANGED <<setup, gate, sent, history>>

ClearedKeepsTools(t) ==
  /\ turn[t].stage = "stopping"
  /\ Acked(t)
  /\ UNCHANGED <<setup, p, gate, sent, history>>

Cleared(t) ==
  /\ turn[t].stage = "stopping" /\ ToolFree
  /\ sent' = {} /\ Acked(t)
  /\ UNCHANGED <<setup, p, gate, history>>

-----------------------------------------------------------------------------
(* The environment: the provider, the clock, and clients that cancel.      *)

PluginStep ==
  /\ p.up
  /\ \/ p.stdin # <<>> /\ p' = PluginReads(p)
     \/ \E w \in p.workers :
          \/ /\ w.waits = NoCall /\ w.asks < MaxAsks
             /\ \E job \in setup.asks : p' = WorkerCalls(p, w, job)
          \/ w.waits # NoCall /\ p' = WorkerGivesUp(p, w)
          \/ w.waits = NoCall /\ \E plan \in setup.plans : p' = WorkerReplies(p, w, plan)
  /\ UNCHANGED <<setup, turn, gate, sent, history>>

PluginDies ==
  /\ p.up /\ p' = Dead
  /\ UNCHANGED <<setup, turn, gate, sent, history>>

(* session.cancel marks the session and then asks the turn to stop.        *)
MarkCancel(t) ==
  /\ InTurn(t) /\ turn[t].cancel = "no"
  /\ turn' = [turn EXCEPT ![t].cancel = "marked"]
  /\ UNCHANGED <<setup, p, gate, sent, history>>

RequestCancel(t) ==
  /\ turn[t].cancel = "marked"
  /\ turn' = [turn EXCEPT ![t].cancel = "asked"]
  /\ UNCHANGED <<setup, p, gate, sent, history>>

Turn(t) ==
  \/ Start(t) \/ Ask(t) \/ AskAgain(t)
  \/ ReadEnd(t) \/ ReadBroken(t) \/ ReadOther(t) \/ ReadRefusal(t) \/ ReadReply(t)
  \/ \E o \in Offers(t) : Refuse(t, o) \/ Admit(t, o)
  \/ Posted(t) \/ WaitOver(t) \/ WaitBroken(t)
  \/ Approved(t) \/ Denied(t) \/ Withdrawn(t)
  \/ CallTool(t) \/ ToolReturns(t) \/ ToolBreaks(t)
  \/ SeesCancel(t) \/ TimesOut(t) \/ ProviderTimesOut(t) \/ ClientGone(t)
  \/ FailTerminal(t) \/ FailChannel(t) \/ RestartTools(t) \/ RecordFailure(t) \/ Recover(t)
  \/ Clear(t) \/ Cleared(t)

Environment ==
  \/ PluginStep \/ PluginDies \/ ListApprovals
  \/ \E x \in sent : ToolRuns(x)
  \/ \E c \in gate.open :
       \/ LapseChallenge(c)
       \/ \E verdict \in {"approve", "deny"} :
            \/ PressLocal(c, verdict)
            \/ \E chat \in Turns, allowed \in BOOLEAN : Press(c, chat, allowed, verdict)
  \/ \E t \in Turns : MarkCancel(t) \/ RequestCancel(t)

Next == Environment \/ \E t \in Turns : Turn(t)

Spec == Init /\ [][Next]_vars

-----------------------------------------------------------------------------
(* Properties.                                                             *)

Calling == {"gate", "ready", "called"}

(* The types, and TOOL_CALLS: the calls of one turn stop at the limit, which *)
(* the last call of a reply, counted twice, may pass by one.                 *)
TypeOK ==
  /\ turn \in [Turns -> [stage : Stages, via : {"host", "loop"}, job : Jobs \cup {NoJob},
                         origin : Turns, emit : Nat, plan : Seq(Jobs), from : Turns,
                         step : 0..ToolSteps, wire : Nat, calls : Nat,
                         wait : {"no", "posting", "polling"},
                         cancel : {"no", "marked", "asked", "acked"},
                         phase : {"safe", "unsafe"}, broken : BOOLEAN, requeued : BOOLEAN]]
  /\ \A t \in Turns : turn[t].stage \in Calling => turn[t].calls <= CallLimit + 1
  /\ gate.lapsed \subseteq gate.open /\ gate.open \subseteq Challenges
  /\ gate.said \in [Turns -> Verdicts] /\ Cardinality(gate.open) <= GateLimit
  /\ p.up \in BOOLEAN /\ Cardinality(p.workers) <= Workers

(* A turn that waits for an approval has its challenge pending, or has been  *)
(* told what became of it: no other use of the gate leaves it waiting for an *)
(* answer that can no longer come (approval::Gate).                          *)
WaitsForSomething ==
  \A t \in Turns : turn[t].stage = "gate" =>
    Challenge(t) \in gate.open \/ gate.said[t] # "none"

(* But for the proposal of a schedule, no mutating call is carried out in  *)
(* the off mode, and each that is carried out in the prompt mode had been  *)
(* approved: that call of that turn, in time, by someone entitled to, in   *)
(* its chat or at a terminal (approval::Gate, execute_tool_with_registry). *)
ApprovedOnly ==
  \A x \in ran : Mutates(x.job) /\ x.job # "propose" =>
    mode = "auto" \/ (mode = "prompt" /\ <<x.by, x.n>> \in yes)

(* The lease of a turn is marked before a mutating call reaches the tool.  *)
MarkedFirst == \A x \in ran \cup sent : Mutates(x.job) => turn[x.by].phase = "unsafe"

AllBridged == Bridged = Turns

(* A message whose turn failed is queued again only if the turn mutated    *)
(* nothing, neither before its end nor by a call that outlived it.         *)
RequeuedHasNoEffect ==
  AllBridged => \A t \in Turns : turn[t].requeued => \A x \in ran : x.origin # t

(* A turn carries out its own calls, and takes its own replies: what the   *)
(* provider still sends for an earlier turn does not reach it.             *)
OwnWorkOnly == AllBridged => took = {} /\ \A x \in ran : x.by = x.origin

(* The same of cancelled turns, whoever started them: no later turn        *)
(* carries out a call of a turn that was cancelled.                        *)
DiscardedStays == \A x \in ran : x.by # x.origin => turn[x.origin].cancel # "acked"

(* After a client was told that a turn of the bridge is cancelled, no call *)
(* of it is carried out.                                                   *)
CancelledStops ==
  [][AllBridged => \A x \in ran' \ ran : turn[x.origin].cancel # "acked"]_vars
=============================================================================
