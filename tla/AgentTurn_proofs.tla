---------------------------- MODULE AgentTurn_proofs ----------------------------
(***************************************************************************)
(* Theorems about the model turns, for any number of turns, steps, calls,  *)
(* workers and setups: no wait at the gate is lost, nothing is carried out *)
(* that was not approved or whose lease was not marked, and the turns of   *)
(* the bridge do not touch each other's work.                              *)
(*                                                                         *)
(* The last is the hard one: the provider answers late, and its answers    *)
(* have no sender.  The argument is that between two turns of the bridge   *)
(* the process is empty, because a turn that ends early has it restarted   *)
(* before the next begins, and that within a turn it holds one request.    *)
(* Turns of terminal clients may cross; their work is mixed only where the *)
(* call of a provider was dropped, which the last part is about.           *)
(***************************************************************************)
EXTENDS AgentTurn, FiniteSetTheorems, SequenceTheorems, WellFoundedInduction, TLAPS

-----------------------------------------------------------------------------
(* The inductive invariant.                                                *)

(* The frames of the two pipes.                                            *)
InFrame ==
  [kind : {"request"}, id : Nat, origin : Turns] \cup [kind : {"answer"}, id : Nat]

OutFrame ==
  [kind : {"call"}, id : Nat, origin : Turns, job : Jobs]
  \cup [kind : {"reply"}, id : Nat, origin : Turns, plan : Seq(Jobs)]
  \cup [kind : {"refusal"}, id : Nat] \cup [kind : {"broken"}]

WorkerRec == [id : Nat, origin : Turns, asks : Nat, waits : Nat]

ProcessRec ==
  [up : BOOLEAN, stdin : Seq(InFrame), stdout : Seq(OutFrame), workers : SUBSET WorkerRec, next : Nat]

GateRec ==
  [open : SUBSET Challenges, lapsed : SUBSET Challenges,
   waits : [Turns -> Nat], said : [Turns -> Verdicts]]

TurnRec ==
  [stage : Stages, via : {"host", "loop"}, job : Jobs \cup {NoJob},
   origin : Turns, emit : Nat, plan : Seq(Jobs), from : Turns,
   step : 0..ToolSteps, wire : Nat, calls : Nat,
   wait : {"no", "posting", "polling"},
   cancel : {"no", "marked", "asked", "acked"},
   phase : {"safe", "unsafe"}, broken : BOOLEAN, requeued : BOOLEAN]

CallRec ==
  [by : Turns, origin : Turns, job : Jobs \cup {NoJob}, n : Nat, via : {"host", "loop"},
   step : 0..ToolSteps]

GateOK(g) == g \in GateRec /\ g.lapsed \subseteq g.open

(* What a turn keeps true of itself.                                       *)
Sound(r) ==
  /\ r \in TurnRec
  /\ r.stage \in Calling => r.calls \in 1..(CallLimit + 1)
  /\ r.stage \in Calling /\ r.via = "loop" => r.plan # <<>>
  /\ r.stage \in {"ready", "called"} /\ Mutates(r.job) => r.phase = "unsafe"
  /\ r.requeued => r.phase = "safe" /\ r.stage \in {"recovering", "over"}
  /\ r.cancel = "acked" => r.stage = "over"

(* The call may be made: it is approved where the mode asks for it.        *)
Licensed(job, c, y) ==
  /\ ModeFor(job) # "off"
  /\ ModeFor(job) = "prompt" => c \in y

(* A turn at the gate waits for the challenge of its own call, which is    *)
(* pending or has been answered; what it was told was said.                *)
Heard(t, r, g, y) ==
  /\ r.stage = "gate" =>
       /\ g.waits[t] = r.calls /\ (<<t, r.calls>> \in g.open \/ g.said[t] # "none")
       /\ NeedsApproval(r.job)
  /\ g.said[t] = "approve" => <<t, g.waits[t]>> \in y
  /\ r.stage \in {"ready", "called"} /\ Mutates(r.job) => Licensed(r.job, <<t, r.calls>>, y)

(* A call that has reached the tool.                                       *)
Backed(x, w, y) ==
  Mutates(x.job) =>
    /\ w[x.by].phase = "unsafe"
    /\ Licensed(x.job, <<x.by, x.n>>, y)

Typed ==
  /\ setup \in Setups
  /\ p \in ProcessRec /\ GateOK(gate)
  /\ turn \in [Turns -> TurnRec]
  /\ sent \subseteq CallRec /\ ran \subseteq CallRec /\ yes \subseteq Challenges

TurnInv ==
  /\ Typed
  /\ \A t \in Turns : Sound(turn[t]) /\ Heard(t, turn[t], gate, yes)
  /\ \A x \in sent \cup ran : Backed(x, turn, yes)

-----------------------------------------------------------------------------
EndStages == {"failing", "failed", "recovering", "clearing"}

(* The provider has, or may have, a request of the turn.                   *)
Reads(r) == r.stage = "reading" \/ (r.via = "host" /\ r.stage \in Calling)

Ending(r) == r.stage \in EndStages

Requests(q) == {i \in DOMAIN q.stdin : q.stdin[i].kind = "request"}

Finals(q) == {i \in DOMAIN q.stdout : q.stdout[i].kind \in {"reply", "refusal"}}

(* Nothing of any turn is left in the process.                             *)
Empty(q) == Requests(q) = {} /\ q.workers = {} /\ q.stdout = <<>>

OwnInput(q, t, wire) ==
  /\ \A i \in Requests(q) : q.stdin[i].id = wire /\ q.stdin[i].origin = t
  /\ \A w \in q.workers : w.id = wire /\ w.origin = t

OwnOutput(q, t, wire) ==
  /\ \A i \in DOMAIN q.stdout :
       /\ q.stdout[i].kind # "broken"
       /\ q.stdout[i].kind \in {"call", "reply"} => q.stdout[i].origin = t
  /\ \A i \in Finals(q) : q.stdout[i].id = wire /\ i = Len(q.stdout)

Single(q) ==
  /\ \A i, j \in Requests(q) : i = j
  /\ \A v, w \in q.workers : v = w
  /\ Requests(q) = {} \/ q.workers = {}
  /\ Requests(q) = {} \/ Finals(q) = {}
  /\ q.workers = {} \/ Finals(q) = {}

(* The process has, or had, one request, that of turn t: it waits to be    *)
(* read, or is worked on, or what it came to is the last of the output.    *)
OneRequest(q, t, wire) ==
  /\ OwnInput(q, t, wire) /\ OwnOutput(q, t, wire) /\ Single(q)

(* What a turn that is alone finds in the process: the one request of its  *)
(* own while it reads, anything at the end of a turn, before the process   *)
(* was restarted, and nothing otherwise.                                   *)
Tidy(t, r, q) ==
  /\ Reads(r) => OneRequest(q, t, r.wire)
  /\ ~Reads(r) /\ ~Ending(r) => Empty(q)

Alone(t) == \A u \in Turns : u # t => ~InTurn(u)

(* The bridge starts a turn when those before it are over.                 *)
OneByOne == \A t, u \in Bridged : u < t /\ turn[t].stage # "idle" => turn[u].stage = "over"

(* Where the bridge runs all turns.                                        *)
BridgeInv ==
  /\ \A t \in Turns : turn[t].origin = t /\ turn[t].from = t
  /\ \A t \in Turns : Alone(t) => Tidy(t, turn[t], p)
  /\ \A x \in sent \cup ran : x.by = x.origin
  /\ \A x \in sent : turn[x.by].cancel # "acked"
  /\ \A x \in ran : Mutates(x.job)
  /\ took = {}

Inv == TurnInv /\ OneByOne /\ (AllBridged => BridgeInv)

-----------------------------------------------------------------------------
(* The process: its operations keep its type.                              *)

LEMMA FrameTypes ==
  /\ \A id \in Nat : Answer(id) \in InFrame /\ Refusal(id) \in OutFrame
  /\ \A id \in Nat, o \in Turns : Request(id, o) \in InFrame
  /\ \A id \in Nat, o \in Turns, job \in Jobs : HostCall(id, o, job) \in OutFrame
  /\ \A id \in Nat, o \in Turns, plan \in Seq(Jobs) : Reply(id, o, plan) \in OutFrame
  /\ Broken \in OutFrame
BY DEF Answer, Refusal, Request, HostCall, Reply, Broken, InFrame, OutFrame

LEMMA EndsType ==
  /\ Started \in ProcessRec /\ Dead \in ProcessRec
  /\ Empty(Started) /\ Empty(Dead)
<1> USE DEF Requests
<1>1. <<>> \in Seq(InFrame) /\ <<>> \in Seq(OutFrame) /\ DOMAIN <<>> = {}
  OBVIOUS
<1>2. /\ Started.up = TRUE /\ Started.stdin = <<>> /\ Started.stdout = <<>>
      /\ Started.workers = {} /\ Started.next = 1
  BY DEF Started
<1>3. Started \in ProcessRec /\ Empty(Started)
  BY <1>1 DEF Started, ProcessRec, Empty
<1>4. /\ Dead.up = FALSE /\ Dead.stdin = <<>> /\ Dead.stdout = <<>>
      /\ Dead.workers = {} /\ Dead.next = 1
  BY DEF Dead, Started
<1>5. Dead \in ProcessRec
  BY <1>3 DEF Dead, ProcessRec
<1>6. Empty(Dead)
  BY <1>1, <1>4 DEF Empty
<1> QED BY <1>3, <1>5, <1>6

LEMMA RestartedType ==
  ASSUME NEW q \in Restarted
  PROVE  q \in ProcessRec /\ Empty(q)
BY EndsType DEF Restarted

LEMMA HostWritesType ==
  ASSUME NEW q \in ProcessRec, NEW f \in InFrame
  PROVE  HostWrites(q, f) \in ProcessRec
<1>1. q.stdin \in Seq(InFrame)
  BY DEF ProcessRec
<1>2. Append(q.stdin, f) \in Seq(InFrame)
  BY <1>1
<1> QED BY <1>2 DEF HostWrites, ProcessRec

LEMMA HostReadsType ==
  ASSUME NEW q \in ProcessRec, q.stdout # <<>>
  PROVE  HostReads(q) \in ProcessRec
<1>1. q.stdout \in Seq(OutFrame)
  BY DEF ProcessRec
<1>2. Tail(q.stdout) \in Seq(OutFrame)
  BY <1>1
<1> QED BY <1>2 DEF HostReads, ProcessRec

LEMMA AbandonedType ==
  ASSUME NEW q \in ProcessRec, NEW a \in Abandoned(q)
  PROVE  a \in ProcessRec
<1>1. CASE a = q
  BY <1>1
<1>2. CASE q.stdout # <<>> /\ a = [q EXCEPT !.stdout[1] = Broken]
  <2>1. q.stdout \in Seq(OutFrame)
    BY DEF ProcessRec
  <2>2. [q.stdout EXCEPT ![1] = Broken] \in Seq(OutFrame)
    BY <2>1, <1>2, FrameTypes
  <2> QED BY <1>2, <2>2 DEF ProcessRec
<1> QED BY <1>1, <1>2 DEF Abandoned

(* What the plugin does by itself.                                         *)
WorkerMoves(q, n) ==
  \E w \in q.workers :
    \/ \E job \in Jobs : n = WorkerCalls(q, w, job)
    \/ n = WorkerGivesUp(q, w)
    \/ \E plan \in Seq(Jobs) : n = WorkerReplies(q, w, plan)

LEMMA WorkerMovesType ==
  ASSUME NEW q \in ProcessRec, NEW n, WorkerMoves(q, n)
  PROVE  n \in ProcessRec
<1>1. PICK w \in q.workers :
        \/ \E job \in Jobs : n = WorkerCalls(q, w, job)
        \/ n = WorkerGivesUp(q, w)
        \/ \E plan \in Seq(Jobs) : n = WorkerReplies(q, w, plan)
  BY DEF WorkerMoves
<1>2. w \in WorkerRec /\ q.stdout \in Seq(OutFrame) /\ q.next \in Nat
  BY DEF ProcessRec
<1>3. w.id \in Nat /\ w.origin \in Turns /\ w.asks \in Nat
  BY <1>2 DEF WorkerRec
<1>4. ASSUME NEW job \in Jobs, n = WorkerCalls(q, w, job) PROVE n \in ProcessRec
  <2>1. Append(q.stdout, HostCall(q.next, w.origin, job)) \in Seq(OutFrame)
    BY <1>2, <1>3, FrameTypes
  <2> DEFINE v == [w EXCEPT !.asks = @ + 1, !.waits = q.next]
  <2> DEFINE a == w.asks + 1
             b == q.next
  <2>a. a \in Nat /\ b \in Nat /\ w \in WorkerRec
    BY <1>2, <1>3
  <2>b. v = [w EXCEPT !.asks = a, !.waits = b]
    OBVIOUS
  <2> HIDE DEF a, b, v
  <2>2. v \in WorkerRec
    BY <2>a, <2>b DEF WorkerRec
  <2>3. (q.workers \ {w}) \cup {v} \in SUBSET WorkerRec
    BY <2>2 DEF ProcessRec
  <2> DEFINE o == Append(q.stdout, HostCall(q.next, w.origin, job))
             ws == (q.workers \ {w}) \cup {v}
             k == q.next + 1
  <2>4. n = [q EXCEPT !.stdout = o, !.workers = ws, !.next = k]
    BY <1>4 DEF WorkerCalls, v, a, b
  <2>5. o \in Seq(OutFrame) /\ ws \in SUBSET WorkerRec /\ k \in Nat
    BY <1>2, <2>1, <2>3
  <2> HIDE DEF o, ws, k
  <2> QED BY <2>4, <2>5 DEF ProcessRec
<1>5. CASE n = WorkerGivesUp(q, w)
  <2>1. Append(q.stdout, Refusal(w.id)) \in Seq(OutFrame)
    BY <1>2, <1>3, FrameTypes
  <2> QED BY <1>5, <2>1 DEF WorkerGivesUp, ProcessRec
<1>6. ASSUME NEW plan \in Seq(Jobs), n = WorkerReplies(q, w, plan) PROVE n \in ProcessRec
  <2>1. Append(q.stdout, Reply(w.id, w.origin, plan)) \in Seq(OutFrame)
    BY <1>2, <1>3, FrameTypes
  <2> QED BY <1>6, <2>1 DEF WorkerReplies, ProcessRec
<1> QED BY <1>1, <1>4, <1>5, <1>6

LEMMA PluginReadsType ==
  ASSUME NEW q \in ProcessRec, q.stdin # <<>>
  PROVE  PluginReads(q) \in ProcessRec
<1> DEFINE f == Head(q.stdin)
<1>1. q.stdin \in Seq(InFrame) /\ q.stdout \in Seq(OutFrame) /\ q.workers \subseteq WorkerRec
  BY DEF ProcessRec
<1>2. f \in InFrame /\ Tail(q.stdin) \in Seq(InFrame)
  BY <1>1
<1>3. CASE f.kind = "request"
  <2>1. f.id \in Nat /\ f.origin \in Turns
    BY <1>2, <1>3 DEF InFrame
  <2>2. Append(q.stdout, Refusal(f.id)) \in Seq(OutFrame)
    BY <1>1, <2>1, FrameTypes
  <2>3. Worker(f.id, f.origin) \in WorkerRec
    BY <2>1 DEF Worker, WorkerRec, NoCall
  <2>4. Accept(q) \in ProcessRec
    BY <1>1, <1>2, <2>2, <2>3 DEF Accept, ProcessRec
  <2> QED BY <1>3, <2>4 DEF PluginReads
<1>4. CASE f.kind # "request"
  <2> DEFINE waiting == {w \in q.workers : w.waits = f.id}
  <2>1. \A w \in waiting : [w EXCEPT !.waits = NoCall] \in WorkerRec
    BY <1>1 DEF WorkerRec, NoCall
  <2>2. (q.workers \ waiting) \cup {[w EXCEPT !.waits = NoCall] : w \in waiting} \in SUBSET WorkerRec
    BY <1>1, <2>1
  <2> DEFINE freed == (q.workers \ waiting) \cup {[w EXCEPT !.waits = NoCall] : w \in waiting}
  <2>3. TakeAnswer(q) = IF waiting = {} THEN [q EXCEPT !.up = FALSE, !.stdin = <<>>, !.workers = {}]
                        ELSE [q EXCEPT !.stdin = Tail(@), !.workers = freed]
    BY DEF TakeAnswer
  <2>4. freed \in SUBSET WorkerRec /\ <<>> \in Seq(InFrame)
    BY <2>2
  <2> HIDE DEF waiting, freed
  <2>5. TakeAnswer(q) \in ProcessRec
    BY <1>1, <1>2, <2>3, <2>4 DEF ProcessRec
  <2> QED BY <1>4, <2>5 DEF PluginReads
<1> QED BY <1>3, <1>4

-----------------------------------------------------------------------------
(* The process: whose work is in it.                                       *)

LEMMA Written ==
  ASSUME NEW q \in ProcessRec, NEW f \in InFrame
  PROVE  /\ f.kind = "request" =>
              Requests(HostWrites(q, f)) = Requests(q) \cup {Len(q.stdin) + 1}
         /\ f.kind # "request" => Requests(HostWrites(q, f)) = Requests(q)
         /\ HostWrites(q, f).workers = q.workers /\ HostWrites(q, f).stdout = q.stdout
         /\ \A i \in Requests(q) : HostWrites(q, f).stdin[i] = q.stdin[i]
         /\ HostWrites(q, f).stdin[Len(q.stdin) + 1] = f
<1> DEFINE h == Append(q.stdin, f)
<1>1. q.stdin \in Seq(InFrame) /\ Len(q.stdin) \in Nat
  BY DEF ProcessRec
<1>2. /\ DOMAIN h = DOMAIN q.stdin \cup {Len(q.stdin) + 1}
      /\ \A i \in DOMAIN q.stdin : h[i] = q.stdin[i]
      /\ h[Len(q.stdin) + 1] = f
  BY <1>1
<1>3. /\ HostWrites(q, f).stdin = h
      /\ HostWrites(q, f).workers = q.workers /\ HostWrites(q, f).stdout = q.stdout
  BY DEF HostWrites, ProcessRec
<1> HIDE DEF h
<1> QED BY <1>2, <1>3 DEF Requests

LEMMA AskWrites ==
  ASSUME NEW q \in ProcessRec, Empty(q), NEW t \in Turns, NEW wire \in Nat
  PROVE  OneRequest(HostWrites(q, Request(wire, t)), t, wire)
<1> DEFINE n == HostWrites(q, Request(wire, t))
           k == Len(q.stdin) + 1
<1>1. Request(wire, t) \in InFrame /\ Request(wire, t).kind = "request"
      /\ Request(wire, t).id = wire /\ Request(wire, t).origin = t
  BY FrameTypes DEF Request
<1>2. /\ Requests(n) = {k} /\ n.stdin[k] = Request(wire, t)
      /\ n.workers = {} /\ n.stdout = <<>>
  BY <1>1, Written DEF Empty
<1>3. DOMAIN n.stdout = {} /\ Finals(n) = {}
  BY <1>2 DEF Finals
<1> HIDE DEF n, k
<1>4. OwnInput(n, t, wire)
  BY <1>1, <1>2 DEF OwnInput
<1>5. OwnOutput(n, t, wire)
  BY <1>2, <1>3 DEF OwnOutput
<1>6. Single(n)
  BY <1>2, <1>3 DEF Single
<1> QED BY <1>4, <1>5, <1>6 DEF OneRequest, n

LEMMA AnswerWrites ==
  ASSUME NEW q \in ProcessRec, NEW t \in Turns, NEW wire, OneRequest(q, t, wire), NEW id \in Nat
  PROVE  OneRequest(HostWrites(q, Answer(id)), t, wire)
<1> DEFINE n == HostWrites(q, Answer(id))
<1>1. Answer(id) \in InFrame /\ Answer(id).kind = "answer"
  BY FrameTypes DEF Answer
<1>2. /\ Requests(n) = Requests(q) /\ \A i \in Requests(q) : n.stdin[i] = q.stdin[i]
      /\ n.workers = q.workers /\ n.stdout = q.stdout
  <2> DEFINE f == Answer(id)
  <2>1. f \in InFrame /\ f.kind # "request"
    BY <1>1
  <2> HIDE DEF f
  <2>2. Requests(HostWrites(q, f)) = Requests(q)
    BY <2>1, Written
  <2>3. /\ \A i \in Requests(q) : HostWrites(q, f).stdin[i] = q.stdin[i]
        /\ HostWrites(q, f).workers = q.workers /\ HostWrites(q, f).stdout = q.stdout
    BY <2>1, Written
  <2> QED BY <2>2, <2>3 DEF f
<1>3. Finals(n) = Finals(q)
  BY <1>2 DEF Finals
<1> HIDE DEF n
<1>4. OwnInput(n, t, wire)
  BY <1>2 DEF OwnInput, OneRequest
<1>5. OwnOutput(n, t, wire)
  BY <1>2, <1>3 DEF OwnOutput, OneRequest
<1>6. Single(n)
  BY <1>2, <1>3 DEF Single, OneRequest
<1> QED BY <1>4, <1>5, <1>6 DEF OneRequest, n

LEMMA Heads ==
  ASSUME NEW q \in ProcessRec, NEW t, NEW wire, OneRequest(q, t, wire), q.stdout # <<>>
  PROVE  /\ 1 \in DOMAIN q.stdout /\ Head(q.stdout) = q.stdout[1]
         /\ Head(q.stdout) \in OutFrame /\ Head(q.stdout).kind # "broken"
         /\ Head(q.stdout).kind \in {"call", "reply"} => Head(q.stdout).origin = t
         /\ Head(q.stdout).kind \in {"reply", "refusal"} => Head(q.stdout).id = wire
<1>1. q.stdout \in Seq(OutFrame)
  BY DEF ProcessRec
<1>2. 1 \in DOMAIN q.stdout /\ Head(q.stdout) = q.stdout[1] /\ Head(q.stdout) \in OutFrame
  BY <1>1
<1> QED BY <1>2 DEF OneRequest, OwnOutput, Finals

LEMMA ReadOut ==
  ASSUME NEW q \in ProcessRec, q.stdout # <<>>
  PROVE  /\ HostReads(q).stdin = q.stdin /\ HostReads(q).workers = q.workers
         /\ HostReads(q).stdout = Tail(q.stdout)
         /\ Len(q.stdout) \in Nat /\ Len(Tail(q.stdout)) = Len(q.stdout) - 1
         /\ \A i \in DOMAIN Tail(q.stdout) :
              i \in Nat /\ i + 1 \in DOMAIN q.stdout /\ Tail(q.stdout)[i] = q.stdout[i + 1]
<1>1. q.stdout \in Seq(OutFrame)
  BY DEF ProcessRec
<1> QED BY <1>1 DEF HostReads, ProcessRec

LEMMA CallRead ==
  ASSUME NEW q \in ProcessRec, NEW t, NEW wire, OneRequest(q, t, wire), q.stdout # <<>>
  PROVE  OneRequest(HostReads(q), t, wire)
<1> DEFINE n == HostReads(q)
<1>1. /\ n.stdin = q.stdin /\ n.workers = q.workers /\ n.stdout = Tail(q.stdout)
      /\ Len(q.stdout) \in Nat /\ Len(n.stdout) = Len(q.stdout) - 1
      /\ \A i \in DOMAIN n.stdout :
           i \in Nat /\ i + 1 \in DOMAIN q.stdout /\ n.stdout[i] = q.stdout[i + 1]
  BY ReadOut
<1>2. Requests(n) = Requests(q)
  BY <1>1 DEF Requests
<1> HIDE DEF n
<1>3. \A i \in Finals(n) : i \in Nat /\ i + 1 \in Finals(q) /\ n.stdout[i] = q.stdout[i + 1]
  BY <1>1 DEF Finals
<1>4. \A i \in Finals(n) : n.stdout[i].id = wire /\ i = Len(n.stdout)
  <2> SUFFICES ASSUME NEW i \in Finals(n) PROVE n.stdout[i].id = wire /\ i = Len(n.stdout)
    OBVIOUS
  <2>1. i \in Nat /\ i + 1 \in Finals(q) /\ n.stdout[i] = q.stdout[i + 1]
    BY <1>3
  <2>2. q.stdout[i + 1].id = wire /\ i + 1 = Len(q.stdout)
    BY <2>1 DEF OneRequest, OwnOutput
  <2>3. i = Len(n.stdout)
    BY <1>1, <2>1, <2>2
  <2>4. n.stdout[i].id = wire
    BY <2>1, <2>2
  <2> QED BY <2>3, <2>4
<1>5. Finals(q) = {} => Finals(n) = {}
  BY <1>3
<1>6. OwnInput(n, t, wire)
  BY <1>1, <1>2 DEF OwnInput, OneRequest
<1>7. OwnOutput(n, t, wire)
  BY <1>1, <1>4 DEF OwnOutput, OneRequest
<1>8. Single(n)
  BY <1>1, <1>2, <1>5 DEF Single, OneRequest
<1> QED BY <1>6, <1>7, <1>8 DEF OneRequest, n

LEMMA FinalRead ==
  ASSUME NEW q \in ProcessRec, NEW t, NEW wire, OneRequest(q, t, wire),
         q.stdout # <<>>, Head(q.stdout).kind \in {"reply", "refusal"}
  PROVE  Empty(HostReads(q))
<1>1. 1 \in Finals(q)
  BY Heads DEF Finals
<1>2. Len(q.stdout) = 1 /\ q.workers = {} /\ Requests(q) = {}
  BY <1>1 DEF OneRequest, OwnOutput, Single
<1>3. q.stdout \in Seq(OutFrame)
  BY DEF ProcessRec
<1>4. Tail(q.stdout) = <<>>
  <2>1. Len(Tail(q.stdout)) = 0 /\ Tail(q.stdout) \in Seq(OutFrame)
    BY <1>2, <1>3, ReadOut
  <2> QED BY <2>1, EmptySeq
<1> QED BY <1>2, <1>4, ReadOut DEF Empty, Requests

LEMMA HeadRequest ==
  ASSUME NEW q \in ProcessRec, q.stdin # <<>>
  PROVE  /\ Head(q.stdin) = q.stdin[1] /\ Head(q.stdin) \in InFrame
         /\ Head(q.stdin).kind = "request" => 1 \in Requests(q)
<1>1. q.stdin \in Seq(InFrame)
  BY DEF ProcessRec
<1>2. Head(q.stdin) = q.stdin[1] /\ Head(q.stdin) \in InFrame /\ 1 \in DOMAIN q.stdin
  BY <1>1
<1> QED BY <1>2 DEF Requests

LEMMA TailRequests ==
  ASSUME NEW q \in ProcessRec, q.stdin # <<>>, NEW n, n.stdin = Tail(q.stdin)
  PROVE  \A i \in Requests(n) :
           i \in Nat /\ i + 1 \in Requests(q) /\ n.stdin[i] = q.stdin[i + 1]
<1>1. q.stdin \in Seq(InFrame)
  BY DEF ProcessRec
<1>2. \A i \in DOMAIN Tail(q.stdin) :
        i \in Nat /\ i + 1 \in DOMAIN q.stdin /\ Tail(q.stdin)[i] = q.stdin[i + 1]
  BY <1>1
<1> QED BY <1>2 DEF Requests

LEMMA Appended ==
  ASSUME NEW q \in ProcessRec, NEW f \in OutFrame, NEW n, n.stdout = Append(q.stdout, f)
  PROVE  /\ DOMAIN n.stdout = DOMAIN q.stdout \cup {Len(n.stdout)}
         /\ \A i \in DOMAIN q.stdout : n.stdout[i] = q.stdout[i]
         /\ n.stdout[Len(n.stdout)] = f
<1>1. q.stdout \in Seq(OutFrame)
  BY DEF ProcessRec
<1> QED BY <1>1

(* Output is added while the request has not come to anything.             *)
LEMMA OutputGrows ==
  ASSUME NEW q \in ProcessRec, NEW t, NEW wire, OwnOutput(q, t, wire), Finals(q) = {},
         NEW f \in OutFrame, NEW n, n.stdout = Append(q.stdout, f), f.kind # "broken",
         f.kind \in {"call", "reply"} => f.origin = t,
         f.kind \in {"reply", "refusal"} => f.id = wire
  PROVE  /\ OwnOutput(n, t, wire)
         /\ f.kind \notin {"reply", "refusal"} => Finals(n) = {}
<1>1. \A i \in DOMAIN n.stdout : i = Len(n.stdout) \/ (i \in DOMAIN q.stdout /\ n.stdout[i] = q.stdout[i])
  BY Appended
<1>2. n.stdout[Len(n.stdout)] = f
  BY Appended
<1>3. \A i \in Finals(n) : i = Len(n.stdout)
  BY <1>1 DEF Finals
<1>4. \A i \in DOMAIN n.stdout :
        /\ n.stdout[i].kind # "broken"
        /\ n.stdout[i].kind \in {"call", "reply"} => n.stdout[i].origin = t
  BY <1>1, <1>2 DEF OwnOutput
<1>5. \A i \in Finals(n) : n.stdout[i].id = wire
  BY <1>2, <1>3 DEF Finals
<1>6. f.kind \notin {"reply", "refusal"} => Finals(n) = {}
  BY <1>2, <1>3 DEF Finals
<1> QED BY <1>3, <1>4, <1>5, <1>6 DEF OwnOutput

LEMMA WorkerMovesSingle ==
  ASSUME NEW q \in ProcessRec, NEW n, WorkerMoves(q, n),
         NEW t \in Turns, NEW wire \in Nat, OneRequest(q, t, wire)
  PROVE  OneRequest(n, t, wire)
<1>1. PICK w \in q.workers :
        \/ \E job \in Jobs : n = WorkerCalls(q, w, job)
        \/ n = WorkerGivesUp(q, w)
        \/ \E plan \in Seq(Jobs) : n = WorkerReplies(q, w, plan)
  BY DEF WorkerMoves
<1>2. w \in WorkerRec /\ q.next \in Nat
  BY DEF ProcessRec
<1>3. w.id = wire /\ w.origin = t
  BY DEF OneRequest, OwnInput
<1>4. Requests(q) = {} /\ Finals(q) = {} /\ \A v \in q.workers : v = w
  BY DEF OneRequest, Single
<1>5. q.workers \ {w} = {}
  BY <1>4
<1>6. ASSUME NEW job \in Jobs, n = WorkerCalls(q, w, job) PROVE OneRequest(n, t, wire)
  <2> DEFINE f == HostCall(q.next, w.origin, job)
             v == [w EXCEPT !.asks = @ + 1, !.waits = q.next]
  <2>1. f \in OutFrame /\ f.kind = "call" /\ f.origin = t
    BY <1>2, <1>3, FrameTypes DEF HostCall
  <2>2. v.id = wire /\ v.origin = t
    BY <1>2, <1>3 DEF WorkerRec
  <2>3. n.stdin = q.stdin /\ n.stdout = Append(q.stdout, f) /\ n.workers = {v}
    BY <1>5, <1>6 DEF WorkerCalls, ProcessRec
  <2> HIDE DEF f, v
  <2>4. Requests(n) = {}
    BY <1>4, <2>3 DEF Requests
  <2>5. OwnOutput(n, t, wire) /\ Finals(n) = {}
    BY <1>4, <2>1, <2>3, OutputGrows DEF OneRequest
  <2>6. OwnInput(n, t, wire) /\ Single(n)
    BY <2>2, <2>3, <2>4, <2>5 DEF OwnInput, Single
  <2> QED BY <2>5, <2>6 DEF OneRequest
<1>7. ASSUME NEW f \in OutFrame, f.kind \in {"reply", "refusal"},
             f.kind = "reply" => f.origin = t, f.id = wire,
             n.stdin = q.stdin, n.stdout = Append(q.stdout, f), n.workers = {}
      PROVE  OneRequest(n, t, wire)
  <2>1. Requests(n) = {}
    BY <1>4, <1>7 DEF Requests
  <2>2. OwnOutput(n, t, wire)
    BY <1>4, <1>7, OutputGrows DEF OneRequest
  <2>3. OwnInput(n, t, wire) /\ Single(n)
    BY <1>7, <2>1 DEF OwnInput, Single
  <2> QED BY <2>2, <2>3 DEF OneRequest
<1>8. CASE n = WorkerGivesUp(q, w)
  <2> DEFINE f == Refusal(w.id)
  <2>1. f \in OutFrame /\ f.kind = "refusal" /\ f.id = wire
    BY <1>3, FrameTypes DEF Refusal
  <2>2. n.stdin = q.stdin /\ n.stdout = Append(q.stdout, f) /\ n.workers = {}
    BY <1>5, <1>8 DEF WorkerGivesUp, ProcessRec
  <2> HIDE DEF f
  <2> QED BY <1>7, <2>1, <2>2
<1>9. ASSUME NEW plan \in Seq(Jobs), n = WorkerReplies(q, w, plan) PROVE OneRequest(n, t, wire)
  <2> DEFINE f == Reply(w.id, w.origin, plan)
  <2>1. f \in OutFrame /\ f.kind = "reply" /\ f.id = wire /\ f.origin = t
    BY <1>3, FrameTypes DEF Reply
  <2>2. n.stdin = q.stdin /\ n.stdout = Append(q.stdout, f) /\ n.workers = {}
    BY <1>5, <1>9 DEF WorkerReplies, ProcessRec
  <2> HIDE DEF f
  <2> QED BY <1>7, <2>1, <2>2
<1> QED BY <1>1, <1>6, <1>8, <1>9

LEMMA PluginReadsSingle ==
  ASSUME NEW q \in ProcessRec, q.stdin # <<>>,
         NEW t \in Turns, NEW wire \in Nat, OneRequest(q, t, wire)
  PROVE  OneRequest(PluginReads(q), t, wire)
<1> DEFINE r == Head(q.stdin)
           n == PluginReads(q)
<1>0. OwnInput(q, t, wire) /\ OwnOutput(q, t, wire) /\ Single(q)
  BY DEF OneRequest
<1>1. CASE r.kind = "request"
  <2>1. 1 \in Requests(q) /\ r = q.stdin[1]
    BY <1>1, HeadRequest
  <2>2. r.id = wire /\ r.origin = t
    BY <1>0, <2>1 DEF OwnInput
  <2>3. Requests(q) = {1} /\ q.workers = {} /\ Finals(q) = {}
    BY <1>0, <2>1 DEF Single
  <2>4. n = Accept(q)
    BY <1>1 DEF PluginReads
  <2>5. n.stdin = Tail(q.stdin)
    BY <2>4 DEF Accept, ProcessRec
  <2>6. Requests(n) = {}
    <3>1. \A i \in Requests(n) : i \in Nat /\ i + 1 = 1
      BY <2>3, <2>5, TailRequests
    <3>2. 0 \notin Requests(n)
      <4>1. Tail(q.stdin) \in Seq(InFrame)
        BY DEF ProcessRec
      <4> QED BY <2>5, <4>1 DEF Requests
    <3> QED BY <3>1, <3>2
  <2>7. CASE Cardinality(q.workers) >= Workers \/ Active(q, r.id)
    <3> DEFINE f == Refusal(r.id)
    <3>1. f \in OutFrame /\ f.kind = "refusal" /\ f.id = wire
      BY <2>2, FrameTypes DEF Refusal
    <3>2. n.stdout = Append(q.stdout, f) /\ n.workers = {}
      BY <2>3, <2>4, <2>7 DEF Accept, ProcessRec
    <3> HIDE DEF f, n
    <3>3. OwnOutput(n, t, wire)
      BY <1>0, <2>3, <3>1, <3>2, OutputGrows
    <3>4. OwnInput(n, t, wire) /\ Single(n)
      BY <2>6, <3>2 DEF OwnInput, Single
    <3> QED BY <3>3, <3>4 DEF OneRequest, n
  <2>8. CASE ~(Cardinality(q.workers) >= Workers \/ Active(q, r.id))
    <3> DEFINE v == Worker(r.id, r.origin)
    <3>1. v.id = wire /\ v.origin = t
      BY <2>2 DEF Worker
    <3>2. n.stdout = q.stdout /\ n.workers = {v}
      BY <2>3, <2>4, <2>8 DEF Accept, ProcessRec
    <3> HIDE DEF v, n
    <3>3. Finals(n) = {}
      BY <2>3, <3>2 DEF Finals
    <3>4. OwnOutput(n, t, wire)
      BY <1>0, <3>2, <3>3 DEF OwnOutput
    <3>5. OwnInput(n, t, wire) /\ Single(n)
      BY <2>6, <3>1, <3>2, <3>3 DEF OwnInput, Single
    <3> QED BY <3>4, <3>5 DEF OneRequest, n
  <2> QED BY <2>7, <2>8
<1>2. CASE r.kind # "request"
  <2> DEFINE waiting == {w \in q.workers : w.waits = r.id}
             freed == (q.workers \ waiting) \cup {[w EXCEPT !.waits = NoCall] : w \in waiting}
  <2>1. n = TakeAnswer(q)
    BY <1>2 DEF PluginReads
  <2>2. CASE waiting = {}
    <3>1. n.stdin = <<>> /\ n.stdout = q.stdout /\ n.workers = {}
      BY <2>1, <2>2 DEF TakeAnswer, ProcessRec
    <3> HIDE DEF n
    <3>2. Requests(n) = {} /\ Finals(n) = Finals(q)
      BY <3>1 DEF Requests, Finals
    <3>3. OwnOutput(n, t, wire)
      BY <1>0, <3>1, <3>2 DEF OwnOutput
    <3>4. OwnInput(n, t, wire) /\ Single(n)
      BY <3>1, <3>2 DEF OwnInput, Single
    <3> QED BY <3>3, <3>4 DEF OneRequest, n
  <2>3. CASE waiting # {}
    <3>1. n.stdin = Tail(q.stdin) /\ n.stdout = q.stdout /\ n.workers = freed
      BY <2>1, <2>3 DEF TakeAnswer, ProcessRec
    <3>2. PICK w \in q.workers : q.workers = {w} /\ waiting = {w}
      BY <1>0, <2>3 DEF Single
    <3>3. freed = {[w EXCEPT !.waits = NoCall]}
      BY <3>2
    <3>4. [w EXCEPT !.waits = NoCall].id = wire /\ [w EXCEPT !.waits = NoCall].origin = t
      BY <1>0 DEF OwnInput, ProcessRec, WorkerRec
    <3> DEFINE v == [w EXCEPT !.waits = NoCall]
    <3>5. n.workers = {v} /\ v.id = wire /\ v.origin = t
      BY <3>1, <3>3, <3>4
    <3> HIDE DEF n, v
    <3>6. Requests(q) = {} /\ Finals(q) = {}
      BY <1>0, <3>2 DEF Single
    <3>7. Requests(n) = {} /\ Finals(n) = {}
      BY <3>1, <3>6, TailRequests DEF Finals
    <3>8. OwnOutput(n, t, wire)
      BY <1>0, <3>1, <3>7 DEF OwnOutput
    <3>9. OwnInput(n, t, wire) /\ Single(n)
      BY <3>5, <3>7 DEF OwnInput, Single
    <3> QED BY <3>8, <3>9 DEF OneRequest, n
  <2> QED BY <2>2, <2>3
<1> QED BY <1>1, <1>2

LEMMA PluginReadsEmpty ==
  ASSUME NEW q \in ProcessRec, q.stdin # <<>>, Empty(q)
  PROVE  Empty(PluginReads(q))
<1> DEFINE n == PluginReads(q)
<1>1. Head(q.stdin).kind # "request"
  BY HeadRequest DEF Empty
<1>2. n = TakeAnswer(q)
  BY <1>1 DEF PluginReads
<1>3. n.stdin = <<>> /\ n.workers = {} /\ n.stdout = <<>>
  BY <1>2 DEF TakeAnswer, ProcessRec, Empty
<1> HIDE DEF n
<1>4. Requests(n) = {}
  BY <1>3 DEF Requests
<1> QED BY <1>3, <1>4 DEF Empty, n

-----------------------------------------------------------------------------
(* Turns: what the actions make of the record of a turn.                   *)

LEMMA TurnsAreNumbers == Turns \subseteq Nat
BY FS_CardinalityType, TurnAssumption

(* A turn that has not ended.                                              *)
Live(r) == r \in TurnRec /\ ~r.requeued /\ r.cancel # "acked"

LEMMA SoundLive ==
  ASSUME NEW r, Sound(r), r.stage \notin {"recovering", "over"}
  PROVE  Live(r)
BY DEF Sound, Live

Staged(r, s) == [r EXCEPT !.stage = s]

LEMMA StagedIs ==
  ASSUME NEW r \in TurnRec, NEW s \in Stages
  PROVE  /\ Staged(r, s) \in TurnRec /\ Staged(r, s).stage = s
         /\ Staged(r, s).via = r.via /\ Staged(r, s).job = r.job
         /\ Staged(r, s).origin = r.origin /\ Staged(r, s).from = r.from
         /\ Staged(r, s).plan = r.plan /\ Staged(r, s).wire = r.wire
         /\ Staged(r, s).calls = r.calls /\ Staged(r, s).phase = r.phase
         /\ Staged(r, s).requeued = r.requeued /\ Staged(r, s).cancel = r.cancel
BY DEF Staged, TurnRec

LEMMA StagedSound ==
  ASSUME NEW r, Live(r), NEW s \in Stages \ Calling
  PROVE  Sound(Staged(r, s)) /\ Live(Staged(r, s))
<1> DEFINE x == Staged(r, s)
<1>1. r \in TurnRec /\ r.requeued = FALSE /\ r.cancel # "acked"
  BY DEF Live, TurnRec
<1>2. x \in TurnRec /\ x.stage = s /\ x.requeued = FALSE /\ x.cancel # "acked"
  BY <1>1, StagedIs
<1> HIDE DEF x
<1> QED BY <1>2 DEF Sound, Live, Calling, x

LEMMA NewTurnType ==
  ASSUME NEW t \in Turns
  PROVE  /\ NewTurn(t) \in TurnRec /\ NewTurn(t).origin = t /\ NewTurn(t).from = t
         /\ NewTurn(t).via = "loop" /\ NewTurn(t).stage = "idle"
         /\ ~NewTurn(t).requeued /\ NewTurn(t).cancel = "no"
<1>1. t \in Nat
  BY TurnsAreNumbers
<1>2. (IF kind[t] = "channel" THEN 10 * t ELSE 1) \in Nat
  BY <1>1
<1>3. ToolSteps \in Nat
  BY TurnAssumption
<1> DEFINE w == IF kind[t] = "channel" THEN 10 * t ELSE 1
<1>4. w \in Nat /\ <<>> \in Seq(Jobs) /\ 0 \in 0..ToolSteps
  BY <1>2, <1>3
<1>5. NewTurn(t) =
        [stage |-> "idle", via |-> "loop", job |-> NoJob, origin |-> t, emit |-> 0,
         plan |-> <<>>, from |-> t, step |-> 0, wire |-> w,
         calls |-> 0, wait |-> "no", cancel |-> "no", phase |-> "safe",
         broken |-> FALSE, requeued |-> FALSE]
  BY DEF NewTurn, NoCall
<1> HIDE DEF w
<1> QED BY <1>4, <1>5 DEF TurnRec, Stages

LEMMA LeftIs ==
  ASSUME NEW t \in Turns, NEW r, Live(r), NEW s \in Stages \ Calling
  PROVE  /\ Left(t, r, s) \in TurnRec /\ Left(t, r, s).stage = s
         /\ Left(t, r, s).origin = t /\ Left(t, r, s).from = t
         /\ Left(t, r, s).phase = r.phase /\ Left(t, r, s).cancel = r.cancel
         /\ Sound(Left(t, r, s)) /\ Live(Left(t, r, s))
<1>1. /\ r.cancel \in {"no", "marked", "asked", "acked"} /\ r.phase \in {"safe", "unsafe"}
      /\ r.broken \in BOOLEAN /\ r.requeued = FALSE /\ r.cancel # "acked"
  BY DEF Live, TurnRec
<1> DEFINE n == NewTurn(t)
           x == Left(t, r, s)
<1>2. n \in TurnRec /\ n.origin = t /\ n.from = t /\ n.via = "loop"
  BY NewTurnType
<1>3. x = [n EXCEPT !.stage = s, !.cancel = r.cancel, !.phase = r.phase,
                    !.broken = r.broken, !.requeued = r.requeued]
  BY DEF Left
<1> HIDE DEF n, x
<1>4. x \in TurnRec
  BY <1>1, <1>2, <1>3 DEF TurnRec
<1>5. /\ x.stage = s /\ x.origin = t /\ x.from = t
      /\ x.phase = r.phase /\ x.cancel = r.cancel /\ x.requeued = r.requeued
  BY <1>2, <1>3 DEF TurnRec
<1>6. Sound(x) /\ Live(x)
  BY <1>1, <1>4, <1>5 DEF Sound, Live, Calling
<1> QED BY <1>4, <1>5, <1>6 DEF x

(* The record of a turn whose cancellation was answered.                   *)
AckedRec(t, r) == [Left(t, r, "over") EXCEPT !.cancel = IF @ = "no" THEN "no" ELSE "acked"]

LEMMA AckedIs ==
  ASSUME NEW t \in Turns, NEW r, Live(r)
  PROVE  /\ AckedRec(t, r).stage = "over"
         /\ AckedRec(t, r).origin = t /\ AckedRec(t, r).from = t
         /\ AckedRec(t, r).phase = r.phase
         /\ Sound(AckedRec(t, r))
<1> DEFINE n == Left(t, r, "over")
           c == IF n.cancel = "no" THEN "no" ELSE "acked"
           x == AckedRec(t, r)
<1>1. /\ n \in TurnRec /\ n.stage = "over" /\ n.origin = t /\ n.from = t
      /\ n.phase = r.phase /\ n.requeued = FALSE
  BY LeftIs DEF Stages, Calling, Live, TurnRec
<1>2. c \in {"no", "acked"}
  OBVIOUS
<1>3. x = [n EXCEPT !.cancel = c]
  BY DEF AckedRec
<1> HIDE DEF n, c, x
<1>4. /\ x \in TurnRec /\ x.stage = "over" /\ x.origin = t /\ x.from = t
      /\ x.phase = r.phase /\ x.requeued = FALSE
  BY <1>1, <1>2, <1>3 DEF TurnRec
<1>5. Sound(x)
  BY <1>4 DEF Sound, Calling
<1> QED BY <1>4, <1>5 DEF x

(* A call was refused; the provider goes on, or the next call is due.      *)
RefusedRec(r, via) == [r EXCEPT !.via = via, !.calls = @ + 1]

LEMMA RefusedIs ==
  ASSUME NEW r, Live(r), NEW via \in {"host", "loop"}
  PROVE  /\ Live(RefusedRec(r, via)) /\ RefusedRec(r, via).via = via
         /\ RefusedRec(r, via).origin = r.origin /\ RefusedRec(r, via).from = r.from
         /\ RefusedRec(r, via).phase = r.phase /\ RefusedRec(r, via).wire = r.wire
<1> DEFINE c == r.calls + 1
           x == RefusedRec(r, via)
<1>1. r \in TurnRec /\ r.requeued = FALSE /\ r.cancel # "acked"
  BY DEF Live, TurnRec
<1>2. c \in Nat
  BY <1>1 DEF TurnRec
<1>3. x = [r EXCEPT !.via = via, !.calls = c]
  BY DEF RefusedRec
<1> HIDE DEF c, x
<1>4. /\ x \in TurnRec /\ x.via = via /\ x.requeued = FALSE /\ x.cancel = r.cancel
      /\ x.origin = r.origin /\ x.from = r.from /\ x.phase = r.phase /\ x.wire = r.wire
  BY <1>1, <1>2, <1>3 DEF TurnRec
<1> QED BY <1>1, <1>4 DEF Live, x

NextCall(r) == [r EXCEPT !.stage = "picking", !.plan = Tail(@), !.wire = @ + 1]

LEMMA NextCallIs ==
  ASSUME NEW r, Live(r), r.plan # <<>>
  PROVE  /\ Sound(NextCall(r)) /\ NextCall(r).stage = "picking"
         /\ NextCall(r).origin = r.origin /\ NextCall(r).from = r.from
         /\ NextCall(r).phase = r.phase
<1> DEFINE w == r.wire + 1
           l == Tail(r.plan)
           x == NextCall(r)
<1>1. r \in TurnRec /\ r.requeued = FALSE /\ r.cancel # "acked"
  BY DEF Live, TurnRec
<1>2. w \in Nat /\ r.plan \in Seq(Jobs)
  BY <1>1 DEF TurnRec
<1>3. l \in Seq(Jobs)
  BY <1>2
<1>4. x = [r EXCEPT !.stage = "picking", !.plan = l, !.wire = w]
  BY DEF NextCall
<1> HIDE DEF w, l, x
<1>5. x \in TurnRec
  BY <1>1, <1>2, <1>3, <1>4 DEF TurnRec, Stages
<1>6. /\ x.stage = "picking" /\ x.requeued = FALSE /\ x.cancel = r.cancel
      /\ x.origin = r.origin /\ x.from = r.from /\ x.phase = r.phase
  BY <1>1, <1>4 DEF TurnRec
<1> QED BY <1>1, <1>5, <1>6 DEF Sound, Calling, x

-----------------------------------------------------------------------------
(* keep_one_mutation.                                                      *)

(* A set of naturals that is not empty has a least element.                *)
LEMMA LeastOf ==
  ASSUME NEW S \in SUBSET Nat, S # {}
  PROVE  \E n \in S : \A m \in S : n <= m
<1> DEFINE R == {ss \in Nat \X Nat : ss[1] < ss[2]}
<1>1. IsWellFoundedOn(R, Nat)
  BY NatLessThanWellFounded DEF OpToRel
<1>2. PICK n \in S : \A m \in S : <<m, n>> \notin R
  BY <1>1, WFMin
<1>3. ASSUME NEW m \in S PROVE n <= m
  <2>1. <<m, n>> \in Nat \X Nat /\ <<m, n>>[1] = m /\ <<m, n>>[2] = n
    OBVIOUS
  <2> QED BY <1>2, <2>1
<1> QED BY <1>3

(* Of two or more numbers, one has just one below it.                      *)
LEMMA SecondOf ==
  ASSUME NEW S \in SUBSET Nat, IsFiniteSet(S), ~(Cardinality(S) < 2)
  PROVE  \E i \in S : Cardinality({j \in S : j < i}) = 1
<1>1. Cardinality(S) \in Nat /\ S # {}
  BY FS_CardinalityType, FS_EmptySet
<1>2. PICK a \in S : \A m \in S : a <= m
  BY <1>1, LeastOf
<1>3. IsFiniteSet(S \ {a}) /\ Cardinality(S \ {a}) = Cardinality(S) - 1
  BY <1>2, FS_RemoveElement
<1>4. S \ {a} # {}
  BY <1>1, <1>3, FS_EmptySet
<1>5. PICK b \in S \ {a} : \A m \in S \ {a} : b <= m
  BY <1>4, LeastOf
<1>6. {j \in S : j < b} = {a}
  <2>1. a \in Nat /\ b \in Nat /\ a < b
    BY <1>2, <1>5
  <2>2. \A j \in S : j < b => j = a
    <3> TAKE j \in S
    <3>1. j # a => b <= j /\ j \in Nat
      BY <1>5
    <3> QED BY <2>1, <3>1
  <2> QED BY <2>1, <2>2, <1>2
<1>7. Cardinality({j \in S : j < b}) = 1
  BY <1>6, FS_Singleton
<1> QED BY <1>5, <1>7

(* A kept plan is a prefix of the reply's, and at most one of its calls    *)
(* mutates.                                                                *)
LEMMA KeptPlan ==
  ASSUME NEW plan \in Seq(Jobs)
  PROVE  /\ KeepOneMutation(plan) \in Seq(Jobs)
         /\ \A i, j \in DOMAIN KeepOneMutation(plan) :
              /\ KeepOneMutation(plan)[i] = plan[i]
              /\ Mutates(KeepOneMutation(plan)[i]) /\ Mutates(KeepOneMutation(plan)[j]) => i = j
<1> DEFINE changes == {i \in DOMAIN plan : Mutates(plan[i])}
           below(i) == {j \in changes : j < i}
           second == CHOOSE i \in changes : Cardinality(below(i)) = 1
           kept == KeepOneMutation(plan)
<1>0. Len(plan) \in Nat /\ DOMAIN plan = 1..Len(plan) /\ changes \subseteq 1..Len(plan)
  BY LenProperties
<1>1. IsFiniteSet(changes) /\ changes \in SUBSET Nat
  <2>1. IsFiniteSet(1..Len(plan))
    BY <1>0, FS_Interval
  <2>2. changes \in SUBSET (1..Len(plan)) /\ changes \in SUBSET Nat
    BY <1>0
  <2> HIDE DEF changes
  <2> QED BY <2>1, <2>2, FS_Subset
<1>2. kept = IF Cardinality(changes) < 2 THEN plan ELSE SubSeq(plan, 1, second - 1)
  BY DEF KeepOneMutation
<1>3. CASE Cardinality(changes) < 2
  <2>1. ASSUME NEW i \in changes, NEW j \in changes, i # j PROVE FALSE
    <3>1. IsFiniteSet({i}) /\ Cardinality({i}) = 1
      BY FS_Singleton
    <3>2. j \notin {i} /\ {i} \cup {j} \in SUBSET changes
      BY <2>1
    <3>3. Cardinality({i} \cup {j}) = Cardinality({i}) + 1
      BY <3>1, <3>2, FS_AddElement
    <3> HIDE DEF changes
    <3>4. Cardinality({i} \cup {j}) <= Cardinality(changes)
      BY <1>1, <3>2, FS_Subset
    <3>5. Cardinality(changes) \in Nat
      BY <1>1, FS_CardinalityType
    <3> QED BY <1>3, <3>1, <3>3, <3>4, <3>5
  <2>2. kept = plan
    BY <1>2, <1>3
  <2>3. \A i, j \in DOMAIN plan : Mutates(plan[i]) /\ Mutates(plan[j]) => i = j
    BY <2>1
  <2> HIDE DEF kept
  <2> QED BY <2>2, <2>3 DEF kept
<1>4. CASE ~(Cardinality(changes) < 2)
  <2>1. second \in changes /\ Cardinality(below(second)) = 1
    <3>1. \E i \in changes : Cardinality(below(i)) = 1
      BY <1>1, <1>4, SecondOf
    <3> HIDE DEF below, changes
    <3> QED BY <3>1
  <2>2. kept = SubSeq(plan, 1, second - 1)
    BY <1>2, <1>4
  <2>3. PICK k : below(second) = {k}
    <3>1. IsFiniteSet(below(second))
      BY <1>1, FS_Subset
    <3> HIDE DEF below, second
    <3> QED BY <2>1, <3>1, FS_Singleton
  <2>4. second \in 1..Len(plan) /\ second - 1 \in Int
    BY <1>0, <2>1
  <2> HIDE DEF second
  <2> DEFINE m == second - 1
  <2>5. m \in Int /\ m \in 0..Len(plan) /\ \A i \in 1..m : plan[i] \in Jobs
    BY <2>4, ElementOfSeq
  <2> HIDE DEF m
  <2>6. /\ SubSeq(plan, 1, m) \in Seq(Jobs)
        /\ Len(SubSeq(plan, 1, m)) = IF 1 <= m THEN m - 1 + 1 ELSE 0
        /\ \A i \in 1..(m - 1 + 1) : SubSeq(plan, 1, m)[i] = plan[1 + i - 1]
    BY <2>5, SubSeqProperties
  <2>7. kept \in Seq(Jobs) /\ Len(kept) = m /\ \A i \in 1..m : kept[i] = plan[i]
    BY <2>2, <2>5, <2>6 DEF m
  <2> HIDE DEF kept
  <2>8. DOMAIN kept = 1..m
    BY <2>7
  <2>9. \A i \in DOMAIN kept : kept[i] = plan[i] /\ (Mutates(kept[i]) => i \in below(second))
    BY <1>0, <2>4, <2>7, <2>8 DEF m
  <2> HIDE DEF below, changes
  <2>10. \A i, j \in DOMAIN kept : Mutates(kept[i]) /\ Mutates(kept[j]) => i = j
    BY <2>3, <2>9
  <2> QED BY <2>7, <2>9, <2>10 DEF kept
<1> QED BY <1>3, <1>4

-----------------------------------------------------------------------------
(* The gate: its operations keep its type, and what the turns know of it.  *)

LEMMA RemovedIs ==
  ASSUME NEW g, GateOK(g), NEW cs, NEW said \in Verdicts
  PROVE  /\ GateOK(Removed(g, cs, said))
         /\ Removed(g, cs, said).open = g.open \ cs
         /\ Removed(g, cs, said).waits = g.waits
         /\ \A u \in Turns : Removed(g, cs, said).said[u] =
              IF <<u, g.waits[u]>> \in g.open \cap cs THEN said ELSE g.said[u]
<1> DEFINE told == {t \in DOMAIN g.said : <<t, g.waits[t]>> \in g.open \cap cs}
           f == [t \in DOMAIN g.said |-> IF t \in told THEN said ELSE g.said[t]]
           o == g.open \ cs
           l == g.lapsed \ cs
           x == Removed(g, cs, said)
<1>1. g \in GateRec /\ g.lapsed \subseteq g.open /\ DOMAIN g.said = Turns
  BY DEF GateOK, GateRec
<1>2. f \in [Turns -> Verdicts] /\ o \in SUBSET Challenges /\ l \in SUBSET Challenges /\ l \subseteq o
  BY <1>1 DEF GateRec
<1>3. \A u \in Turns : f[u] = IF <<u, g.waits[u]>> \in g.open \cap cs THEN said ELSE g.said[u]
  BY <1>1
<1>4. x = [g EXCEPT !.open = o, !.lapsed = l, !.said = f]
  BY DEF Removed
<1> HIDE DEF f, o, l, x, told
<1>5. /\ x \in GateRec /\ x.open = o /\ x.lapsed = l /\ x.waits = g.waits /\ x.said = f
  BY <1>1, <1>2, <1>4 DEF GateRec
<1> QED BY <1>2, <1>3, <1>5 DEF GateOK, o, x

LEMMA RemovedHeard ==
  ASSUME NEW g, GateOK(g), NEW cs, NEW said \in Verdicts \ {"none"},
         NEW t \in Turns, NEW r, NEW y, NEW z, y \subseteq z, Heard(t, r, g, y),
         said = "approve" => g.open \cap cs \subseteq z
  PROVE  Heard(t, r, Removed(g, cs, said), z)
<1> DEFINE x == Removed(g, cs, said)
<1>1. /\ x.open = g.open \ cs /\ x.waits = g.waits
      /\ x.said[t] = IF <<t, g.waits[t]>> \in g.open \cap cs THEN said ELSE g.said[t]
  BY RemovedIs
<1> HIDE DEF x
<1>2. CASE <<t, g.waits[t]>> \in g.open \cap cs
  BY <1>1, <1>2 DEF Heard, Licensed, x
<1>3. CASE <<t, g.waits[t]>> \notin g.open \cap cs
  BY <1>1, <1>3 DEF Heard, Licensed, x
<1> QED BY <1>2, <1>3

LEMMA PurgedIs ==
  ASSUME NEW g, GateOK(g)
  PROVE  /\ GateOK(Purged(g))
         /\ \A t \in Turns : \A r, y : Heard(t, r, g, y) => Heard(t, r, Purged(g), y)
<1>1. "gone" \in Verdicts \ {"none"} /\ "gone" # "approve"
  BY DEF Verdicts
<1>2. GateOK(Purged(g))
  BY <1>1, RemovedIs DEF Purged
<1>3. ASSUME NEW t \in Turns, NEW r, NEW y, Heard(t, r, g, y)
      PROVE  Heard(t, r, Purged(g), y)
  BY <1>1, <1>3, RemovedHeard DEF Purged
<1> QED BY <1>2, <1>3

LEMMA IssueIs ==
  ASSUME NEW g, GateOK(g), NEW t \in Turns, NEW n \in 1..(CallLimit + 1)
  PROVE  /\ GateOK(Issue(g, <<t, n>>))
         /\ \A u \in Turns : \A r, y : u # t /\ Heard(u, r, g, y) => Heard(u, r, Issue(g, <<t, n>>), y)
         /\ \A r, y : r.stage = "gate" /\ r.calls = n /\ NeedsApproval(r.job) =>
              Heard(t, r, Issue(g, <<t, n>>), y)
<1> DEFINE q == Purged(g)
           c == <<t, n>>
           o == q.open \cup {c}
           w == [q.waits EXCEPT ![t] = n]
           f == [q.said EXCEPT ![t] = "none"]
           x == Issue(g, <<t, n>>)
<1>1. q \in GateRec /\ q.lapsed \subseteq q.open
  BY PurgedIs DEF GateOK
<1>2. c \in Challenges /\ n \in Nat
  BY TurnAssumption DEF Challenges
<1>3. /\ o \in SUBSET Challenges /\ q.lapsed \subseteq o
      /\ w \in [Turns -> Nat] /\ f \in [Turns -> Verdicts]
      /\ w[t] = n /\ f[t] = "none" /\ c \in o /\ q.open \subseteq o
      /\ \A u \in Turns : u # t => w[u] = q.waits[u] /\ f[u] = q.said[u]
  BY <1>1, <1>2 DEF GateRec, Verdicts
<1>4. x = [q EXCEPT !.open = o, !.waits = w, !.said = f]
  BY DEF Issue
<1> HIDE DEF q, o, w, f, x
<1>5. x \in GateRec /\ x.open = o /\ x.lapsed = q.lapsed /\ x.waits = w /\ x.said = f
  BY <1>1, <1>3, <1>4 DEF GateRec
<1>6. ASSUME NEW u \in Turns, NEW r, NEW y, u # t, Heard(u, r, g, y)
      PROVE  Heard(u, r, x, y)
  <2>1. Heard(u, r, q, y)
    BY <1>6, PurgedIs DEF q
  <2> QED BY <1>3, <1>5, <1>6, <2>1 DEF Heard
<1>7. ASSUME NEW r, NEW y, r.stage = "gate", r.calls = n, NeedsApproval(r.job)
      PROVE  Heard(t, r, x, y)
  BY <1>3, <1>5, <1>7 DEF Heard
<1> QED BY <1>3, <1>5, <1>6, <1>7 DEF GateOK, x

LEMMA ForgottenIs ==
  ASSUME NEW g, GateOK(g), NEW t \in Turns
  PROVE  /\ GateOK(Forgotten(g, t))
         /\ \A u \in Turns : \A r, y : u # t /\ Heard(u, r, g, y) => Heard(u, r, Forgotten(g, t), y)
         /\ \A r, y : r.stage \notin Calling => Heard(t, r, Forgotten(g, t), y)
         /\ \A r, y : r.stage = "ready" /\ Licensed(r.job, <<t, r.calls>>, y) =>
              Heard(t, r, Forgotten(g, t), y)
<1> DEFINE w == [g.waits EXCEPT ![t] = 0]
           f == [g.said EXCEPT ![t] = "none"]
           x == Forgotten(g, t)
<1>1. g \in GateRec /\ g.lapsed \subseteq g.open
  BY DEF GateOK
<1>2. /\ w \in [Turns -> Nat] /\ f \in [Turns -> Verdicts] /\ f[t] = "none"
      /\ \A u \in Turns : u # t => w[u] = g.waits[u] /\ f[u] = g.said[u]
  BY <1>1 DEF GateRec, Verdicts
<1>3. x = [g EXCEPT !.waits = w, !.said = f]
  BY DEF Forgotten
<1> HIDE DEF w, f, x
<1>4. x \in GateRec /\ x.open = g.open /\ x.lapsed = g.lapsed /\ x.waits = w /\ x.said = f
  BY <1>1, <1>2, <1>3 DEF GateRec
<1>5. ASSUME NEW u \in Turns, NEW r, NEW y, u # t, Heard(u, r, g, y)
      PROVE  Heard(u, r, x, y)
  BY <1>2, <1>4, <1>5 DEF Heard
<1>6. ASSUME NEW r, NEW y, r.stage \notin Calling PROVE Heard(t, r, x, y)
  BY <1>2, <1>4, <1>6 DEF Heard, Calling
<1>7. ASSUME NEW r, NEW y, r.stage = "ready", Licensed(r.job, <<t, r.calls>>, y)
      PROVE  Heard(t, r, x, y)
  BY <1>2, <1>4, <1>7 DEF Heard
<1> QED BY <1>1, <1>4, <1>5, <1>6, <1>7 DEF GateOK, x

LEMMA LapseIs ==
  ASSUME NEW g, GateOK(g), NEW c \in g.open
  PROVE  /\ GateOK(Lapse(g, c))
         /\ \A t \in Turns : \A r, y : Heard(t, r, g, y) => Heard(t, r, Lapse(g, c), y)
<1> DEFINE l == g.lapsed \cup {c}
           x == Lapse(g, c)
<1>1. g \in GateRec /\ g.lapsed \subseteq g.open /\ l \subseteq g.open
  BY DEF GateOK
<1>2. l \in SUBSET Challenges
  BY <1>1 DEF GateRec
<1>3. x = [g EXCEPT !.lapsed = l]
  BY DEF Lapse
<1> HIDE DEF l, x
<1>4. x \in GateRec /\ x.open = g.open /\ x.lapsed = l /\ x.waits = g.waits /\ x.said = g.said
  BY <1>1, <1>2, <1>3 DEF GateRec
<1>5. ASSUME NEW t \in Turns, NEW r, NEW y, Heard(t, r, g, y) PROVE Heard(t, r, x, y)
  BY <1>4, <1>5 DEF Heard
<1> QED BY <1>1, <1>4, <1>5 DEF GateOK, x

-----------------------------------------------------------------------------
(* A turn moves on.                                                        *)

Moves(t, r) ==
  /\ turn' = [turn EXCEPT ![t] = r] /\ Sound(r) /\ r.stage # "idle"
  /\ turn[t].phase = "unsafe" => r.phase = "unsafe"
  /\ p' \in ProcessRec
  /\ AllBridged => r.origin = t /\ r.from = t /\ Tidy(t, r, p')

Entered(t) ==
  \/ InTurn(t)
  \/ /\ turn[t].stage = "idle"
     /\ kind[t] = "channel" => \A u \in Bridged : u < t => turn[u].stage = "over"

LEMMA EnteredAlone ==
  ASSUME Inv, AllBridged, NEW t \in Turns, Entered(t)
  PROVE  Alone(t)
<1> SUFFICES ASSUME NEW u \in Turns, u # t PROVE ~InTurn(u)
  BY DEF Alone
<1>1. t \in Nat /\ u \in Nat /\ t \in Bridged /\ u \in Bridged /\ kind[t] = "channel"
  BY TurnsAreNumbers DEF AllBridged, Bridged
<1>2. CASE u < t
  BY <1>1, <1>2 DEF Inv, OneByOne, Entered, InTurn
<1>3. CASE t < u
  BY <1>1, <1>3 DEF Inv, OneByOne, Entered, InTurn
<1> QED BY <1>1, <1>2, <1>3

(* What holds of a turn that may move.                                     *)
LEMMA Here ==
  ASSUME Inv, NEW t \in Turns
  PROVE  /\ turn[t] \in TurnRec /\ Sound(turn[t]) /\ Heard(t, turn[t], gate, yes)
         /\ p \in ProcessRec /\ GateOK(gate)
         /\ AllBridged => turn[t].origin = t /\ turn[t].from = t
         /\ AllBridged /\ Entered(t) => Tidy(t, turn[t], p)
<1>1. AllBridged /\ Entered(t) => Tidy(t, turn[t], p)
  BY EnteredAlone DEF Inv, BridgeInv
<1> QED BY <1>1 DEF Inv, TurnInv, Typed, BridgeInv

LEMMA MovedTurns ==
  ASSUME Inv, NEW t \in Turns, NEW r, Moves(t, r)
  PROVE  /\ turn'[t] = r /\ \A u \in Turns : u # t => turn'[u] = turn[u]
         /\ turn' \in [Turns -> TurnRec]
BY DEF Moves, Inv, TurnInv, Typed, Sound

LEMMA MoveKeepsOrder ==
  ASSUME Inv, NEW t \in Turns, Entered(t), NEW r, Moves(t, r), UNCHANGED setup
  PROVE  OneByOne'
<1>1. turn'[t] = r /\ \A u \in Turns : u # t => turn'[u] = turn[u]
  BY MovedTurns
<1>2. Bridged' = Bridged
  BY DEF Bridged, kind
<1>3. ASSUME NEW a \in Bridged, NEW b \in Bridged, b < a, turn'[a].stage # "idle"
      PROVE  turn'[b].stage = "over"
  <2>1. a \in Turns /\ b \in Turns /\ a \in Nat /\ b \in Nat /\ a # b
    BY <1>3, TurnsAreNumbers DEF Bridged
  <2>2. turn[a].stage # "idle" => turn[b].stage = "over"
    BY <1>3 DEF Inv, OneByOne
  <2>3. CASE a = t
    <3>1. turn[b].stage = "over"
      BY <1>3, <2>2, <2>3 DEF Entered, InTurn, Bridged
    <3> QED BY <1>1, <2>1, <2>3, <3>1
  <2>4. CASE b = t
    BY <1>1, <1>3, <2>1, <2>2, <2>4 DEF Entered, InTurn
  <2>5. CASE a # t /\ b # t
    BY <1>1, <1>3, <2>1, <2>2, <2>5
  <2> QED BY <2>3, <2>4, <2>5
<1> QED BY <1>2, <1>3 DEF OneByOne

LEMMA MoveKeepsTidy ==
  ASSUME Inv, AllBridged, NEW t \in Turns, Entered(t), NEW r, Moves(t, r)
  PROVE  \A v \in Turns : Alone(v)' => Tidy(v, turn'[v], p')
<1>1. turn'[t] = r /\ \A u \in Turns : u # t => turn'[u] = turn[u]
  BY MovedTurns
<1>2. \A u \in Turns : u # t => ~InTurn(u)
  BY EnteredAlone DEF Alone
<1>3. Tidy(t, r, p')
  BY DEF Moves
<1>4. ASSUME NEW v \in Turns, v # t, Alone(v)' PROVE Tidy(v, turn'[v], p')
  <2>1. r.stage \in {"idle", "over"}
    BY <1>1, <1>4 DEF Alone, InTurn
  <2>2. Empty(p')
    BY <1>3, <2>1 DEF Tidy, Reads, Ending, EndStages, Calling
  <2>3. turn'[v].stage \in {"idle", "over"}
    BY <1>1, <1>2, <1>4 DEF InTurn
  <2> QED BY <2>2, <2>3 DEF Tidy, Reads, Calling
<1> QED BY <1>1, <1>3, <1>4

LEMMA MoveKeeps ==
  ASSUME Inv, NEW t \in Turns, Entered(t), NEW r, Moves(t, r), UNCHANGED <<setup, yes, ran>>,
         GateOK(gate'), Heard(t, r, gate', yes),
         \A u \in Turns : u # t => Heard(u, turn[u], gate', yes),
         sent' \subseteq CallRec,
         \A x \in sent' \ sent : x.by = t /\ Backed(x, turn', yes) /\ (AllBridged => x.origin = t),
         AllBridged => took' = took,
         AllBridged /\ r.cancel = "acked" => sent' = {}
  PROVE  Inv'
<1>1. turn'[t] = r /\ (\A u \in Turns : u # t => turn'[u] = turn[u]) /\ turn' \in [Turns -> TurnRec]
  BY MovedTurns
<1>2. Typed'
  BY <1>1 DEF Typed, Inv, TurnInv, Moves
<1>3. \A u \in Turns : (Sound(turn[u]) /\ Heard(u, turn[u], gate, yes))'
  <2> TAKE u \in Turns
  <2>1. CASE u = t
    BY <1>1, <2>1 DEF Moves, Heard, mode, ModeFor, Licensed, NeedsApproval
  <2>2. CASE u # t
    <3>1. Sound(turn[u]) /\ Heard(u, turn[u], gate', yes)
      BY <2>2 DEF Inv, TurnInv
    <3> QED BY <1>1, <2>2, <3>1 DEF Heard, mode, ModeFor, Licensed, NeedsApproval
  <2> QED BY <2>1, <2>2
<1>4. \A x \in sent' \cup ran' : Backed(x, turn, yes)'
  <2> SUFFICES ASSUME NEW x \in sent' \cup ran' PROVE Backed(x, turn', yes')
    BY DEF Backed, mode, ModeFor, Licensed
  <2>1. CASE x \in sent' \ sent
    BY <2>1 DEF Backed, mode, ModeFor, Licensed
  <2>2. CASE x \in sent \cup ran
    <3>1. Backed(x, turn, yes) /\ x.by \in Turns
      BY <2>2 DEF Inv, TurnInv, Typed, CallRec
    <3>2. turn[x.by].phase = "unsafe" => turn'[x.by].phase = "unsafe"
      BY <1>1, <3>1 DEF Moves
    <3> QED BY <3>1, <3>2 DEF Backed, mode, ModeFor, Licensed
  <2> QED BY <2>1, <2>2
<1>5. OneByOne'
  BY MoveKeepsOrder
<1>6. AllBridged' => BridgeInv'
  <2> SUFFICES ASSUME AllBridged PROVE BridgeInv'
    BY DEF AllBridged, Bridged, kind
  <2>1. BridgeInv
    BY DEF Inv
  <2>2. \A u \in Turns : turn'[u].origin = u /\ turn'[u].from = u
    BY <1>1, <2>1 DEF BridgeInv, Moves
  <2>3. \A v \in Turns : Alone(v)' => Tidy(v, turn'[v], p')
    BY MoveKeepsTidy
  <2>4. \A x \in sent' \cup ran' : x.by = x.origin
    BY <2>1 DEF BridgeInv
  <2>5. \A x \in sent' : turn'[x.by].cancel # "acked"
    <3> SUFFICES ASSUME NEW x \in sent' PROVE turn'[x.by].cancel # "acked"
      OBVIOUS
    <3>1. r.cancel # "acked"
      OBVIOUS
    <3>2. CASE x \in sent' \ sent
      BY <1>1, <3>1, <3>2
    <3>3. CASE x \in sent
      BY <1>1, <2>1, <3>1, <3>3 DEF BridgeInv, CallRec
    <3> QED BY <3>2, <3>3
  <2>6. (\A x \in ran' : Mutates(x.job)) /\ took' = {}
    BY <2>1 DEF BridgeInv
  <2> QED BY <2>2, <2>3, <2>4, <2>5, <2>6 DEF BridgeInv
<1> QED BY <1>2, <1>3, <1>4, <1>5, <1>6 DEF Inv, TurnInv

(* A turn moves on to a stage where it does not call.                      *)
LEMMA EndsKeep ==
  ASSUME Inv, NEW t \in Turns, Entered(t), NEW r, Moves(t, r), r.stage \notin Calling,
         UNCHANGED <<setup, yes, ran>>, gate' = gate \/ gate' = Forgotten(gate, t),
         sent' \subseteq sent, AllBridged => took' = took,
         AllBridged /\ r.cancel = "acked" => sent' = {}
  PROVE  Inv'
<1>1. GateOK(gate) /\ \A u \in Turns : Heard(u, turn[u], gate, yes)
  BY DEF Inv, TurnInv, Typed
<1>2. GateOK(gate') /\ \A u \in Turns : u # t => Heard(u, turn[u], gate', yes)
  BY <1>1, ForgottenIs
<1>3. Heard(t, r, gate, yes)
  BY <1>1 DEF Heard, Calling
<1>4. Heard(t, r, gate', yes)
  BY <1>1, <1>3, ForgottenIs
<1>5. sent' \subseteq CallRec
  BY DEF Inv, TurnInv, Typed
<1> QED BY <1>2, <1>4, <1>5, MoveKeeps

(* Only whether a turn waits, or is to be cancelled, changes; a wait that  *)
(* breaks withdraws its challenge.                                         *)
SameWork(r, x) ==
  /\ x \in TurnRec /\ x.stage = r.stage /\ x.via = r.via /\ x.job = r.job
  /\ x.origin = r.origin /\ x.from = r.from /\ x.plan = r.plan /\ x.wire = r.wire
  /\ x.calls = r.calls /\ x.phase = r.phase /\ x.requeued = r.requeued
  /\ x.cancel = "acked" => r.cancel = "acked"

LEMMA WaitIs ==
  ASSUME NEW r \in TurnRec, NEW w \in {"no", "posting", "polling"}
  PROVE  SameWork(r, [r EXCEPT !.wait = w])
BY DEF SameWork, TurnRec

LEMMA CancelIs ==
  ASSUME NEW r \in TurnRec, NEW c \in {"marked", "asked"}
  PROVE  SameWork(r, [r EXCEPT !.cancel = c])
BY DEF SameWork, TurnRec

LEMMA SameWorkKeeps ==
  ASSUME Inv, NEW t \in Turns, NEW x, SameWork(turn[t], x), turn' = [turn EXCEPT ![t] = x],
         UNCHANGED <<setup, p, sent, history>>,
         gate' = gate \/ gate' = Withdraw(gate, Challenge(t))
  PROVE  Inv'
<1>0. UNCHANGED <<ran, yes, took>>
  BY DEF history
<1>1. /\ turn' \in [Turns -> TurnRec] /\ \A u \in Turns : SameWork(turn[u], turn'[u])
  BY DEF Inv, TurnInv, Typed, SameWork
<1>2. GateOK(gate') /\ \A u \in Turns : Heard(u, turn[u], gate', yes)
  <2>1. GateOK(gate) /\ \A u \in Turns : Heard(u, turn[u], gate, yes)
    BY DEF Inv, TurnInv, Typed
  <2>2. "gone" \in Verdicts \ {"none"} /\ "gone" # "approve"
    BY DEF Verdicts
  <2>3. ASSUME gate' = Removed(gate, {Challenge(t)}, "gone")
        PROVE  GateOK(gate') /\ \A u \in Turns : Heard(u, turn[u], gate', yes)
    <3>1. GateOK(gate')
      BY <2>1, <2>2, <2>3, RemovedIs
    <3>2. \A u \in Turns : Heard(u, turn[u], gate', yes)
      BY <2>1, <2>2, <2>3, RemovedHeard
    <3> QED BY <3>1, <3>2
  <2> QED BY <2>1, <2>3 DEF Withdraw
<1>3. Typed'
  BY <1>0, <1>1, <1>2 DEF Typed, Inv, TurnInv
<1>4. \A u \in Turns : (Sound(turn[u]) /\ Heard(u, turn[u], gate, yes))'
  <2> TAKE u \in Turns
  <2>1. Sound(turn[u]) /\ SameWork(turn[u], turn'[u])
    BY <1>1 DEF Inv, TurnInv
  <2>2. Sound(turn'[u])
    BY <2>1 DEF Sound, SameWork
  <2>3. Heard(u, turn'[u], gate', yes')
    BY <1>0, <1>2, <2>1 DEF Heard, SameWork, mode, ModeFor, Licensed, NeedsApproval
  <2> QED BY <2>2, <2>3 DEF Heard, mode, ModeFor, Licensed, NeedsApproval
<1>5. \A x1 \in sent' \cup ran' : Backed(x1, turn, yes)'
  <2> SUFFICES ASSUME NEW x1 \in sent \cup ran PROVE Backed(x1, turn', yes')
    BY <1>0 DEF Backed, mode, ModeFor, Licensed
  <2>1. Backed(x1, turn, yes) /\ x1.by \in Turns
    BY DEF Inv, TurnInv, Typed, CallRec
  <2>2. turn'[x1.by].phase = turn[x1.by].phase
    BY <1>1, <2>1 DEF SameWork
  <2> QED BY <1>0, <2>1, <2>2 DEF Backed, mode, ModeFor, Licensed
<1>6. OneByOne'
  <2>1. \A u \in Turns : turn'[u].stage = turn[u].stage
    BY <1>1 DEF SameWork
  <2> QED BY <2>1 DEF Inv, OneByOne, Bridged, kind
<1>7. AllBridged' => BridgeInv'
  <2> SUFFICES ASSUME AllBridged PROVE BridgeInv'
    BY DEF AllBridged, Bridged, kind
  <2>1. BridgeInv
    BY DEF Inv
  <2>2. \A u \in Turns : turn'[u].origin = u /\ turn'[u].from = u
    BY <1>1, <2>1 DEF BridgeInv, SameWork
  <2>3. \A v \in Turns : Alone(v)' => Tidy(v, turn'[v], p')
    <3> SUFFICES ASSUME NEW v \in Turns, Alone(v)' PROVE Tidy(v, turn'[v], p')
      OBVIOUS
    <3>1. Alone(v)
      BY <1>1 DEF Alone, InTurn, SameWork
    <3>2. Tidy(v, turn[v], p)
      BY <2>1, <3>1 DEF BridgeInv
    <3>3. SameWork(turn[v], turn'[v])
      BY <1>1
    <3> QED BY <3>2, <3>3 DEF Tidy, Reads, Ending, SameWork
  <2>4. \A x1 \in sent : turn'[x1.by].cancel # "acked"
    BY <1>1, <2>1 DEF BridgeInv, SameWork, Inv, TurnInv, Typed, CallRec
  <2> QED BY <1>0, <2>1, <2>2, <2>3, <2>4 DEF BridgeInv
<1> QED BY <1>3, <1>4, <1>5, <1>6, <1>7 DEF Inv, TurnInv

-----------------------------------------------------------------------------
(* The environment moves.                                                  *)

(* The turns rest, and so do the provider and the tool.                    *)
LEMMA GateKeeps ==
  ASSUME Inv, UNCHANGED <<setup, turn, p, sent, ran, took>>,
         GateOK(gate'), yes \subseteq yes', yes' \subseteq Challenges,
         \A t \in Turns : Heard(t, turn[t], gate', yes')
  PROVE  Inv'
<1>1. Typed'
  BY DEF Inv, TurnInv, Typed
<1>2. \A t \in Turns : (Sound(turn[t]) /\ Heard(t, turn[t], gate, yes))'
  BY DEF Inv, TurnInv, Heard, mode, ModeFor, Licensed, NeedsApproval
<1>3. \A x \in sent' \cup ran' : Backed(x, turn, yes)'
  BY DEF Inv, TurnInv, Backed, mode, ModeFor, Licensed
<1>4. OneByOne'
  BY DEF Inv, OneByOne, Bridged, kind
<1>5. AllBridged' => BridgeInv'
  <2>1. \A t \in Turns : Alone(t)' <=> Alone(t)
    BY DEF Alone, InTurn
  <2> QED BY <2>1 DEF Inv, AllBridged, Bridged, kind, BridgeInv
<1> QED BY <1>1, <1>2, <1>3, <1>4, <1>5 DEF Inv, TurnInv

(* Only the provider process moves.                                        *)
LEMMA ProcessKeeps ==
  ASSUME Inv, UNCHANGED <<setup, turn, gate, sent, history>>, p' \in ProcessRec,
         Empty(p) => Empty(p'),
         \A t \in Turns, wire \in Nat : OneRequest(p, t, wire) => OneRequest(p', t, wire)
  PROVE  Inv'
<1>0. UNCHANGED <<ran, yes, took>>
  BY DEF history
<1>1. Typed'
  BY <1>0 DEF Inv, TurnInv, Typed
<1>2. \A t \in Turns : (Sound(turn[t]) /\ Heard(t, turn[t], gate, yes))'
  BY <1>0 DEF Inv, TurnInv, Heard, mode, ModeFor, Licensed, NeedsApproval
<1>3. \A x \in sent' \cup ran' : Backed(x, turn, yes)'
  BY <1>0 DEF Inv, TurnInv, Backed, mode, ModeFor, Licensed
<1>4. OneByOne'
  BY DEF Inv, OneByOne, Bridged, kind
<1>5. AllBridged' => BridgeInv'
  <2> SUFFICES ASSUME AllBridged PROVE BridgeInv'
    BY DEF AllBridged, Bridged, kind
  <2>1. ASSUME NEW t \in Turns, Alone(t)' PROVE Tidy(t, turn'[t], p')
    <3>1. Alone(t)
      BY <2>1 DEF Alone, InTurn
    <3>2. Tidy(t, turn[t], p) /\ turn[t].wire \in Nat
      BY <3>1 DEF Inv, BridgeInv, TurnInv, Typed, TurnRec
    <3> QED BY <3>2 DEF Tidy
  <2> QED BY <1>0, <2>1 DEF Inv, BridgeInv
<1> QED BY <1>1, <1>2, <1>3, <1>4, <1>5 DEF Inv, TurnInv

LEMMA EmptyIsOne ==
  ASSUME NEW q, Empty(q), NEW t, NEW wire
  PROVE  OneRequest(q, t, wire)
<1>1. Requests(q) = {} /\ q.workers = {} /\ q.stdout = <<>> /\ DOMAIN q.stdout = {}
  BY DEF Empty
<1>2. Finals(q) = {}
  BY <1>1 DEF Finals
<1> QED BY <1>1, <1>2 DEF OneRequest, OwnInput, OwnOutput, Single

LEMMA PluginStepKeeps == Inv /\ PluginStep => Inv'
<1> SUFFICES ASSUME Inv, PluginStep PROVE Inv'
  OBVIOUS
<1>0. p \in ProcessRec /\ setup.asks \subseteq Jobs /\ setup.plans \subseteq Seq(Jobs)
  BY TurnAssumption DEF Inv, TurnInv, Typed
<1>1. (p.stdin # <<>> /\ p' = PluginReads(p)) \/ WorkerMoves(p, p')
  BY <1>0 DEF PluginStep, WorkerMoves
<1>2. CASE p.stdin # <<>> /\ p' = PluginReads(p)
  <2>1. p' \in ProcessRec /\ (Empty(p) => Empty(p'))
    BY <1>0, <1>2, PluginReadsType, PluginReadsEmpty
  <2>2. \A t \in Turns, wire \in Nat : OneRequest(p, t, wire) => OneRequest(p', t, wire)
    BY <1>0, <1>2, PluginReadsSingle
  <2> QED BY <2>1, <2>2, ProcessKeeps DEF PluginStep
<1>3. CASE WorkerMoves(p, p')
  <2>1. p' \in ProcessRec /\ ~Empty(p)
    BY <1>0, <1>3, WorkerMovesType DEF WorkerMoves, Empty
  <2>2. \A t \in Turns, wire \in Nat : OneRequest(p, t, wire) => OneRequest(p', t, wire)
    BY <1>0, <1>3, WorkerMovesSingle
  <2> QED BY <2>1, <2>2, ProcessKeeps DEF PluginStep
<1> QED BY <1>1, <1>2, <1>3

LEMMA PluginDiesKeeps == Inv /\ PluginDies => Inv'
BY EndsType, EmptyIsOne, ProcessKeeps DEF PluginDies

LEMMA ListApprovalsKeeps == Inv /\ ListApprovals => Inv'
<1> SUFFICES ASSUME Inv, ListApprovals PROVE Inv'
  OBVIOUS
<1>1. GateOK(gate) /\ yes \subseteq Challenges /\ \A t \in Turns : Heard(t, turn[t], gate, yes)
  BY DEF Inv, TurnInv, Typed
<1>2. gate' = Purged(gate) /\ UNCHANGED <<setup, turn, p, sent, ran, yes, took>>
  BY DEF ListApprovals, history
<1>3. GateOK(gate') /\ \A t \in Turns : Heard(t, turn[t], gate', yes)
  BY <1>1, <1>2, PurgedIs
<1> QED BY <1>1, <1>2, <1>3, GateKeeps

LEMMA LapseKeeps ==
  ASSUME Inv, NEW c \in gate.open, LapseChallenge(c)
  PROVE  Inv'
<1>1. GateOK(gate) /\ yes \subseteq Challenges /\ \A t \in Turns : Heard(t, turn[t], gate, yes)
  BY DEF Inv, TurnInv, Typed
<1>2. gate' = Lapse(gate, c) /\ UNCHANGED <<setup, turn, p, sent, ran, yes, took>>
  BY DEF LapseChallenge, history
<1>3. GateOK(gate') /\ \A t \in Turns : Heard(t, turn[t], gate', yes)
  BY <1>1, <1>2, LapseIs
<1> QED BY <1>1, <1>2, <1>3, GateKeeps

(* A challenge is answered, and what is approved is put down.              *)
LEMMA AnswerKeeps ==
  ASSUME Inv, NEW c \in gate.open, NEW said \in {"approve", "deny", "gone"},
         gate' = Removed(gate, {c}, said), yes' \in {yes, yes \cup {c}},
         said = "approve" => c \in yes',
         UNCHANGED <<setup, turn, p, sent, ran, took>>
  PROVE  Inv'
<1>1. /\ GateOK(gate) /\ yes \subseteq Challenges
      /\ \A t \in Turns : Heard(t, turn[t], gate, yes)
  BY DEF Inv, TurnInv, Typed
<1>2. said \in Verdicts \ {"none"} /\ c \in Challenges
  BY <1>1 DEF Verdicts, GateOK, GateRec
<1>3. GateOK(gate') /\ yes \subseteq yes' /\ yes' \subseteq Challenges
  BY <1>1, <1>2, RemovedIs
<1>4. said = "approve" => gate.open \cap {c} \subseteq yes'
  OBVIOUS
<1>5. \A t \in Turns : Heard(t, turn[t], gate', yes')
  BY <1>1, <1>2, <1>3, <1>4, RemovedHeard
<1> QED BY <1>3, <1>5, GateKeeps

LEMMA PressKeeps ==
  ASSUME Inv, NEW c \in gate.open, NEW verdict \in {"approve", "deny"},
         NEW chat, NEW allowed, Press(c, chat, allowed, verdict)
  PROVE  Inv'
<1>1. allowed /\ chat = c[1] /\ c \notin gate.lapsed
  BY DEF Press, AcceptsPress
<1>2. /\ gate' = Removed(gate, {c}, verdict) /\ UNCHANGED <<setup, turn, p, sent, ran, took>>
      /\ yes' = IF verdict = "approve" THEN yes \cup {c} ELSE yes
  BY <1>1 DEF Press, Resolve
<1> QED BY <1>2, AnswerKeeps

LEMMA PressLocalKeeps ==
  ASSUME Inv, NEW c \in gate.open, NEW verdict \in {"approve", "deny"}, PressLocal(c, verdict)
  PROVE  Inv'
<1> DEFINE said == IF c \in gate.lapsed THEN "gone" ELSE verdict
<1>1. /\ gate' = Removed(gate, {c}, said) /\ UNCHANGED <<setup, turn, p, sent, ran, took>>
      /\ yes' = IF verdict = "approve" /\ c \notin gate.lapsed THEN yes \cup {c} ELSE yes
  BY DEF PressLocal, ResolveLocal
<1>2. said \in {"approve", "deny", "gone"} /\ yes' \in {yes, yes \cup {c}}
  BY <1>1
<1>3. said = "approve" => c \in yes'
  BY <1>1
<1> HIDE DEF said
<1> QED BY <1>1, <1>2, <1>3, AnswerKeeps

(* The tool carries out a call.                                            *)
LEMMA ToolRunsKeeps ==
  ASSUME Inv, NEW x \in sent, ToolRuns(x)
  PROVE  Inv'
<1>0. /\ UNCHANGED <<setup, turn, p, gate, yes, took>> /\ sent' \subseteq sent
      /\ ran' \subseteq ran \cup sent
      /\ \A c \in ran' \ ran : Mutates(c.job)
  BY DEF ToolRuns
<1>1. Typed'
  BY <1>0 DEF Inv, TurnInv, Typed
<1>2. \A t \in Turns : (Sound(turn[t]) /\ Heard(t, turn[t], gate, yes))'
  BY <1>0 DEF Inv, TurnInv, Heard, mode, ModeFor, Licensed, NeedsApproval
<1>3. \A c \in sent' \cup ran' : Backed(c, turn, yes)'
  <2> SUFFICES ASSUME NEW c \in sent \cup ran PROVE Backed(c, turn', yes')
    BY <1>0 DEF Backed, mode, ModeFor, Licensed
  <2> QED BY <1>0 DEF Inv, TurnInv, Backed, mode, ModeFor, Licensed
<1>4. OneByOne'
  BY <1>0 DEF Inv, OneByOne, Bridged, kind
<1>5. AllBridged' => BridgeInv'
  <2>1. \A t \in Turns : Alone(t)' <=> Alone(t)
    BY <1>0 DEF Alone, InTurn
  <2> QED BY <1>0, <2>1 DEF Inv, AllBridged, Bridged, kind, BridgeInv
<1> QED BY <1>1, <1>2, <1>3, <1>4, <1>5 DEF Inv, TurnInv

(* A cancellation is marked, and then asked for.                           *)
LEMMA CancelKeeps ==
  ASSUME Inv, NEW t \in Turns, MarkCancel(t) \/ RequestCancel(t)
  PROVE  Inv'
<1>1. turn[t] \in TurnRec
  BY Here
<1>2. PICK c \in {"marked", "asked"} : turn' = [turn EXCEPT ![t] = [turn[t] EXCEPT !.cancel = c]]
  BY DEF MarkCancel, RequestCancel
<1> DEFINE x == [turn[t] EXCEPT !.cancel = c]
<1>3. SameWork(turn[t], x)
  BY <1>1, CancelIs
<1>4. turn' = [turn EXCEPT ![t] = x] /\ UNCHANGED <<setup, p, gate, sent, history>>
  BY <1>2 DEF MarkCancel, RequestCancel
<1> HIDE DEF x
<1> QED BY <1>3, <1>4, SameWorkKeeps

-----------------------------------------------------------------------------
(* The forms that the moves of a turn take.                                *)

LEMMA EnteredLive ==
  ASSUME Inv, NEW t \in Turns, Entered(t), turn[t].stage # "recovering"
  PROVE  Live(turn[t])
BY Here, SoundLive DEF Entered, InTurn

LEMMA NotBridged ==
  ASSUME NEW t \in Turns, kind[t] # "channel"
  PROVE  ~AllBridged
BY DEF AllBridged, Bridged

(* The turn is left to its end.                                            *)
LEMMA LeaveKeeps ==
  ASSUME Inv, NEW t \in Turns, Entered(t), NEW r, Live(r), r.phase = turn[t].phase,
         NEW s \in EndStages, turn' = [turn EXCEPT ![t] = Left(t, r, s)], p' \in ProcessRec,
         UNCHANGED <<setup, yes, ran>>, gate' = gate \/ gate' = Forgotten(gate, t),
         sent' \subseteq sent, AllBridged => took' = took
  PROVE  Inv'
<1> DEFINE x == Left(t, r, s)
<1>1. s \in Stages \ Calling
  BY DEF EndStages, Stages, Calling
<1>2. /\ x.stage = s /\ x.origin = t /\ x.from = t /\ x.phase = r.phase
      /\ x.cancel # "acked" /\ Sound(x)
  BY <1>1, LeftIs DEF Live
<1> HIDE DEF x
<1>3. Tidy(t, x, p') /\ x.stage # "idle" /\ x.stage \notin Calling
  BY <1>2 DEF Tidy, Reads, Ending, EndStages, Calling
<1>4. turn' = [turn EXCEPT ![t] = x]
  BY DEF x
<1>5. Moves(t, x)
  BY <1>2, <1>3, <1>4 DEF Moves
<1> QED BY <1>2, <1>3, <1>5, EndsKeep

(* The turn is over, and nothing of it is left in the process.             *)
LEMMA OverKeeps ==
  ASSUME Inv, NEW t \in Turns, InTurn(t), NEW x, Sound(x), x.stage = "over",
         x.origin = t, x.from = t, x.phase = turn[t].phase,
         turn' = [turn EXCEPT ![t] = x], p' \in ProcessRec,
         UNCHANGED <<setup, yes, ran>>, gate' = gate \/ gate' = Forgotten(gate, t),
         sent' \subseteq sent, AllBridged => took' = took /\ Empty(p'),
         AllBridged /\ x.cancel = "acked" => sent' = {}
  PROVE  Inv'
<1>1. AllBridged => Tidy(t, x, p')
  BY DEF Tidy, Reads, Calling
<1>2. Moves(t, x) /\ x.stage \notin Calling /\ Entered(t)
  BY <1>1 DEF Moves, Calling, Entered
<1> QED BY <1>2, EndsKeep

LEMMA AckedKeeps ==
  ASSUME Inv, NEW t \in Turns, InTurn(t), turn[t].stage # "recovering", Acked(t),
         p' \in ProcessRec,
         UNCHANGED <<setup, yes, ran, took>>, gate' = gate \/ gate' = Forgotten(gate, t),
         sent' \subseteq sent, AllBridged => sent' = {} /\ Empty(p')
  PROVE  Inv'
<1> DEFINE x == AckedRec(t, turn[t])
<1>1. Live(turn[t])
  BY EnteredLive DEF Entered
<1>2. /\ x.stage = "over" /\ x.origin = t /\ x.from = t /\ x.phase = turn[t].phase /\ Sound(x)
  BY <1>1, AckedIs
<1>3. turn' = [turn EXCEPT ![t] = x]
  BY DEF Acked, AckedRec
<1> HIDE DEF x
<1> QED BY <1>2, <1>3, OverKeeps

(* The turn goes on elsewhere, with nothing in the process.                *)
LEMMA StagedKeeps ==
  ASSUME Inv, NEW t \in Turns, Entered(t), NEW s \in {"waiting", "failed", "clearing", "stopping"},
         turn[t].stage # "recovering",
         To(t, s), p' \in ProcessRec, AllBridged /\ s \in {"waiting", "stopping"} => Empty(p'),
         UNCHANGED <<setup, gate, sent, history>>
  PROVE  Inv'
<1> DEFINE x == Staged(turn[t], s)
<1>0. UNCHANGED <<ran, yes, took>>
  BY DEF history
<1>1. s \in Stages \ Calling /\ s # "idle" /\ Live(turn[t]) /\ turn[t] \in TurnRec
  BY EnteredLive DEF Stages, Calling, Live
<1>2. Sound(x)
  BY <1>1, StagedSound
<1>3. /\ x.stage = s /\ x.origin = turn[t].origin /\ x.from = turn[t].from
      /\ x.phase = turn[t].phase /\ x.cancel = turn[t].cancel
  BY <1>1, StagedIs
<1>4. turn' = [turn EXCEPT ![t] = x]
  BY DEF To, Staged
<1> HIDE DEF x
<1>5. AllBridged => Tidy(t, x, p')
  BY <1>3 DEF Tidy, Reads, Ending, EndStages, Calling
<1>6. Moves(t, x)
  BY <1>1, <1>2, <1>3, <1>4, <1>5, Here DEF Moves
<1>7. x.cancel # "acked" /\ x.stage \notin Calling
  BY <1>1, <1>3 DEF Live
<1> QED BY <1>0, <1>6, <1>7, EndsKeep

(* A result goes back.                                                     *)
LEMMA GiveBackKeeps ==
  ASSUME Inv, NEW t \in Turns, InTurn(t), NEW r, Live(r), r.phase = turn[t].phase,
         AllBridged => r.origin = t /\ r.from = t,
         NEW q \in ProcessRec, NEW emit \in Nat, NEW ok \in BOOLEAN,
         ok /\ r.via = "loop" => r.plan # <<>>,
         AllBridged /\ r.via = "host" => OneRequest(q, t, r.wire),
         AllBridged /\ r.via # "host" => Empty(q),
         GiveBack(t, r, emit, ok, q),
         UNCHANGED <<setup, yes, ran, took>>, gate' = gate \/ gate' = Forgotten(gate, t),
         sent' \subseteq sent
  PROVE  Inv'
<1>0. Entered(t) /\ r \in TurnRec /\ r.cancel # "acked" /\ r.via \in {"host", "loop"}
  BY DEF Entered, Live, TurnRec
<1>1. CASE p' = q /\ turn' = [turn EXCEPT ![t] = Left(t, r, "failing")]
  <2>1. "failing" \in EndStages
    BY DEF EndStages
  <2> QED BY <1>0, <1>1, <2>1, LeaveKeeps
<1>2. CASE /\ r.via = "host" /\ p' = HostWrites(q, Answer(emit))
           /\ turn' = [turn EXCEPT ![t] = [r EXCEPT !.stage = "reading"]]
  <2> DEFINE x == Staged(r, "reading")
  <2>1. "reading" \in Stages \ Calling
    BY DEF Stages, Calling
  <2>2. Sound(x)
    BY <2>1, StagedSound
  <2>3. /\ x.stage = "reading" /\ x.origin = r.origin /\ x.from = r.from /\ x.wire = r.wire
        /\ x.phase = r.phase /\ x.cancel = r.cancel
    BY <1>0, <2>1, StagedIs
  <2>4. turn' = [turn EXCEPT ![t] = x]
    BY <1>2 DEF Staged
  <2>5. p' \in ProcessRec
    BY <1>2, FrameTypes, HostWritesType
  <2>6. AllBridged => OneRequest(p', t, r.wire)
    <3>1. r.wire \in Nat
      BY <1>0 DEF TurnRec
    <3> QED BY <1>2, <3>1, AnswerWrites
  <2> HIDE DEF x
  <2>7. AllBridged => Tidy(t, x, p')
    BY <2>3, <2>6 DEF Tidy, Reads
  <2>8. Moves(t, x)
    BY <2>2, <2>3, <2>4, <2>5, <2>7 DEF Moves
  <2> QED BY <1>0, <2>1, <2>3, <2>8, EndsKeep
<1>3. CASE /\ r.via = "loop" /\ ok /\ p' = q
           /\ turn' = [turn EXCEPT ![t] = [r EXCEPT !.stage = "picking", !.plan = Tail(@), !.wire = @ + 1]]
  <2> DEFINE x == NextCall(r)
  <2>1. r.cancel = x.cancel
    BY <1>0 DEF NextCall, TurnRec
  <2>2. /\ Sound(x) /\ x.stage = "picking" /\ x.origin = r.origin /\ x.from = r.from
        /\ x.phase = r.phase
    BY <1>3, NextCallIs
  <2>3. turn' = [turn EXCEPT ![t] = x]
    BY <1>3 DEF NextCall
  <2> HIDE DEF x
  <2>4. AllBridged => Tidy(t, x, p')
    BY <1>3, <2>2 DEF Tidy, Reads, Calling
  <2>5. Moves(t, x) /\ x.stage \notin Calling
    BY <1>3, <2>2, <2>3, <2>4 DEF Moves, Calling
  <2> QED BY <1>0, <2>1, <2>5, EndsKeep
<1> QED BY <1>0, <1>1, <1>2, <1>3 DEF GiveBack

-----------------------------------------------------------------------------
(* Asking the provider.                                                    *)

LEMMA StartKeeps ==
  ASSUME Inv, NEW t \in Turns, Start(t)
  PROVE  Inv'
<1>1. Entered(t) /\ turn[t].stage = "idle"
  BY DEF Start, Entered
<1>2. p' \in ProcessRec /\ (AllBridged => Empty(p'))
  BY <1>1, Here DEF Start, Tidy, Reads, Ending, EndStages, Calling
<1> QED BY <1>1, <1>2, StagedKeeps DEF Start

LEMMA AskKeeps ==
  ASSUME Inv, NEW t \in Turns, Ask(t)
  PROVE  Inv'
<1>1. /\ turn[t].stage = "waiting" /\ Entered(t) /\ Live(turn[t]) /\ turn[t] \in TurnRec
      /\ p \in ProcessRec /\ UNCHANGED <<ran, yes, took>>
  BY EnteredLive, Here DEF Ask, Entered, InTurn, history
<1>2. AllBridged => Empty(p)
  BY <1>1, Here DEF Tidy, Reads, Ending, EndStages, Calling
<1>3. CASE p.up
  <2> DEFINE x == Staged(turn[t], "reading")
  <2>1. "reading" \in Stages \ Calling /\ turn[t].wire \in Nat
    BY <1>1 DEF Stages, Calling, TurnRec
  <2>2. Sound(x)
    BY <1>1, <2>1, StagedSound
  <2>3. /\ x.stage = "reading" /\ x.origin = turn[t].origin /\ x.from = turn[t].from
        /\ x.wire = turn[t].wire /\ x.phase = turn[t].phase /\ x.cancel = turn[t].cancel
    BY <1>1, <2>1, StagedIs
  <2>4. turn' = [turn EXCEPT ![t] = x] /\ p' = HostWrites(p, Request(turn[t].wire, t))
    BY <1>3 DEF Ask, To, Staged
  <2>5. p' \in ProcessRec
    BY <1>1, <2>1, <2>4, FrameTypes, HostWritesType
  <2>6. AllBridged => OneRequest(p', t, turn[t].wire)
    BY <1>1, <1>2, <2>1, <2>4, AskWrites
  <2> HIDE DEF x
  <2>7. AllBridged => Tidy(t, x, p')
    BY <2>3, <2>6 DEF Tidy, Reads
  <2>8. Moves(t, x)
    BY <2>2, <2>3, <2>4, <2>5, <2>7, Here DEF Moves
  <2>9. x.cancel # "acked"
    BY <1>1, <2>3 DEF Live
  <2> QED BY <1>1, <2>1, <2>3, <2>8, <2>9, EndsKeep DEF Ask
<1>4. CASE ~p.up
  <2>1. "failing" \in EndStages
    BY DEF EndStages
  <2> QED BY <1>1, <1>4, <2>1, LeaveKeeps DEF Ask, Leave
<1> QED BY <1>3, <1>4

(* A turn that reads.                                                      *)
LEMMA ReadingHere ==
  ASSUME Inv, NEW t \in Turns, turn[t].stage = "reading"
  PROVE  /\ Entered(t) /\ InTurn(t) /\ Live(turn[t]) /\ turn[t] \in TurnRec /\ p \in ProcessRec
         /\ AllBridged => OneRequest(p, t, turn[t].wire)
<1>1. InTurn(t)
  BY DEF InTurn
<1> QED BY <1>1, EnteredLive, Here DEF Entered, Tidy, Reads

LEMMA ReadingFrame ==
  ASSUME Inv, NEW t \in Turns, NEW frame \in {"broken", "reply", "refusal", "call"},
         Reading(t, frame)
  PROVE  /\ turn[t].stage = "reading" /\ p.stdout # <<>> /\ Head(p.stdout).kind = frame
         /\ Head(p.stdout) \in OutFrame /\ HostReads(p) \in ProcessRec
<1>1. turn[t].stage = "reading" /\ p.stdout # <<>> /\ Head(p.stdout).kind = frame
  BY DEF Reading
<1>2. p \in ProcessRec /\ p.stdout \in Seq(OutFrame)
  BY Here DEF ProcessRec
<1> QED BY <1>1, <1>2, HostReadsType

LEMMA ReadEndKeeps ==
  ASSUME Inv, NEW t \in Turns, ReadEnd(t)
  PROVE  Inv'
<1>1. turn[t].stage = "reading" /\ "failing" \in EndStages
  BY DEF ReadEnd, Reading, EndStages
<1> QED BY <1>1, ReadingHere, LeaveKeeps DEF ReadEnd, Leave, history

LEMMA ReadBrokenKeeps ==
  ASSUME Inv, NEW t \in Turns, ReadBroken(t)
  PROVE  Inv'
<1>1. turn[t].stage = "reading" /\ HostReads(p) \in ProcessRec /\ "failing" \in EndStages
  BY ReadingFrame DEF ReadBroken, EndStages
<1> QED BY <1>1, ReadingHere, LeaveKeeps DEF ReadBroken, Leave, history

LEMMA ReadRefusalKeeps ==
  ASSUME Inv, NEW t \in Turns, ReadRefusal(t)
  PROVE  Inv'
<1>1. turn[t].stage = "reading" /\ HostReads(p) \in ProcessRec /\ "failing" \in EndStages
  BY ReadingFrame DEF ReadRefusal, EndStages
<1> QED BY <1>1, ReadingHere, LeaveKeeps DEF ReadRefusal, Leave, history

(* No bridged turn passes a frame over.                                    *)
LEMMA ReadOtherKeeps ==
  ASSUME Inv, NEW t \in Turns, ReadOther(t)
  PROVE  Inv'
<1>1. /\ turn[t].stage = "reading" /\ p.stdout # <<>> /\ HostReads(p) \in ProcessRec
      /\ Head(p.stdout).kind \in {"reply", "refusal"} /\ Head(p.stdout).id # turn[t].wire
  BY ReadingFrame DEF ReadOther
<1>2. /\ Entered(t) /\ Live(turn[t]) /\ p \in ProcessRec
      /\ AllBridged => OneRequest(p, t, turn[t].wire)
  BY <1>1, ReadingHere
<1>3. ~AllBridged
  BY <1>1, <1>2, Heads
<1>4. turn' = [turn EXCEPT ![t] = turn[t]]
  BY DEF ReadOther, Inv, TurnInv, Typed
<1>5. Moves(t, turn[t]) /\ turn[t].stage \notin Calling
  BY <1>1, <1>3, <1>4, Here DEF Moves, ReadOther, Calling
<1> QED BY <1>2, <1>3, <1>5, EndsKeep DEF ReadOther, history

PickingRec(r, plan, from) ==
  [r EXCEPT !.stage = "picking", !.plan = plan, !.from = from, !.wire = @ + 1, !.step = @ + 1]

LEMMA PickingIs ==
  ASSUME NEW r, Live(r), NEW plan \in Seq(Jobs), NEW from \in Turns, r.step # ToolSteps
  PROVE  /\ Sound(PickingRec(r, plan, from)) /\ PickingRec(r, plan, from).stage = "picking"
         /\ PickingRec(r, plan, from).origin = r.origin /\ PickingRec(r, plan, from).from = from
         /\ PickingRec(r, plan, from).phase = r.phase
         /\ PickingRec(r, plan, from).cancel = r.cancel
<1> DEFINE w == r.wire + 1
           k == r.step + 1
           x == PickingRec(r, plan, from)
<1>1. r \in TurnRec /\ r.requeued = FALSE /\ r.cancel # "acked" /\ ToolSteps \in Nat
  BY TurnAssumption DEF Live, TurnRec
<1>2. w \in Nat /\ k \in 0..ToolSteps
  BY <1>1 DEF TurnRec
<1>3. x = [r EXCEPT !.stage = "picking", !.plan = plan, !.from = from, !.wire = w, !.step = k]
  BY DEF PickingRec
<1> HIDE DEF w, k, x
<1>4. x \in TurnRec
  BY <1>1, <1>2, <1>3 DEF TurnRec, Stages
<1>5. /\ x.stage = "picking" /\ x.requeued = FALSE /\ x.cancel = r.cancel
      /\ x.origin = r.origin /\ x.from = from /\ x.phase = r.phase
  BY <1>1, <1>3 DEF TurnRec
<1> QED BY <1>1, <1>4, <1>5 DEF Sound, Calling, x

LEMMA ReadReplyKeeps ==
  ASSUME Inv, NEW t \in Turns, ReadReply(t)
  PROVE  Inv'
<1> DEFINE f == Head(p.stdout)
           plan == KeepOneMutation(f.plan)
<1>1. /\ turn[t].stage = "reading" /\ p.stdout # <<>> /\ f.kind = "reply" /\ f \in OutFrame
      /\ p' = HostReads(p) /\ p' \in ProcessRec
      /\ UNCHANGED <<setup, gate, sent, ran, yes>>
      /\ took' = IF f.origin = t THEN took ELSE took \cup {<<t, f.origin>>}
  BY ReadingFrame DEF ReadReply
<1>2. /\ Entered(t) /\ InTurn(t) /\ Live(turn[t]) /\ turn[t] \in TurnRec /\ p \in ProcessRec
      /\ AllBridged => OneRequest(p, t, turn[t].wire)
  BY <1>1, ReadingHere
<1>3. f.origin \in Turns /\ f.plan \in Seq(Jobs)
  BY <1>1 DEF OutFrame
<1>4. plan \in Seq(Jobs)
  BY <1>3, KeptPlan
<1>5. AllBridged => f.origin = t /\ Empty(p')
  BY <1>1, <1>2, Heads, FinalRead
<1>6. AllBridged => took' = took
  BY <1>1, <1>5
<1>7. CASE Leave(t, "failing")
  <2>1. "failing" \in EndStages
    BY DEF EndStages
  <2> QED BY <1>1, <1>2, <1>6, <1>7, <2>1, LeaveKeeps DEF Leave
<1>8. CASE Leave(t, "over")
  <2> DEFINE x == Left(t, turn[t], "over")
  <2>1. "over" \in Stages \ Calling
    BY DEF Stages, Calling
  <2>2. /\ Sound(x) /\ x.stage = "over" /\ x.origin = t /\ x.from = t
        /\ x.phase = turn[t].phase /\ x.cancel # "acked"
    BY <1>2, <2>1, LeftIs DEF Live
  <2>3. turn' = [turn EXCEPT ![t] = x]
    BY <1>8 DEF Leave
  <2> HIDE DEF x
  <2> QED BY <1>1, <1>2, <1>5, <1>6, <2>2, <2>3, OverKeeps
<1>9. CASE /\ turn[t].step # ToolSteps
           /\ turn' = [turn EXCEPT ![t] = PickingRec(turn[t], plan, f.origin)]
  <2> DEFINE x == PickingRec(turn[t], plan, f.origin)
  <2>1. /\ Sound(x) /\ x.stage = "picking" /\ x.origin = turn[t].origin /\ x.from = f.origin
        /\ x.phase = turn[t].phase /\ x.cancel = turn[t].cancel
    BY <1>2, <1>3, <1>4, <1>9, PickingIs
  <2>2. turn' = [turn EXCEPT ![t] = x]
    BY <1>9
  <2> HIDE DEF x, f
  <2>3. AllBridged => Tidy(t, x, p')
    BY <1>5, <2>1 DEF Tidy, Reads, Calling
  <2>4. Moves(t, x) /\ x.stage \notin Calling
    BY <1>1, <1>5, <2>1, <2>2, <2>3, Here DEF Moves, Calling
  <2>5. x.cancel # "acked"
    BY <1>2, <2>1 DEF Live
  <2> QED BY <1>1, <1>2, <1>6, <2>4, <2>5, EndsKeep
<1>10. Leave(t, "failing") \/ Leave(t, "over")
       \/ (/\ turn[t].step # ToolSteps
           /\ turn' = [turn EXCEPT ![t] = PickingRec(turn[t], plan, f.origin)])
  BY DEF ReadReply, PickingRec
<1> QED BY <1>7, <1>8, <1>9, <1>10

LEMMA AskAgainKeeps ==
  ASSUME Inv, NEW t \in Turns, AskAgain(t)
  PROVE  Inv'
<1>1. Entered(t) /\ turn[t].stage = "picking"
  BY DEF AskAgain, Entered, InTurn
<1>2. p' \in ProcessRec /\ (AllBridged => Empty(p'))
  BY <1>1, Here DEF AskAgain, Tidy, Reads, Ending, EndStages, Calling
<1> QED BY <1>1, <1>2, StagedKeeps DEF AskAgain

-----------------------------------------------------------------------------
(* Tool calls.                                                             *)

(* What a turn is offered: a call of the provider, read from its output,   *)
(* or the next call of the reply, with nothing left in the process.        *)
Offered(t, o) ==
  /\ o.job \in Jobs /\ o.origin \in Turns /\ o.emit \in Nat
  /\ Consumed(o.via) \in ProcessRec
  /\ InTurn(t) /\ turn[t].stage \notin {"recovering"} \cup Calling
  /\ AllBridged => o.origin = t
  /\ \/ o.via = "host" /\ (AllBridged => OneRequest(Consumed(o.via), t, turn[t].wire))
     \/ /\ o.via = "loop" /\ turn[t].plan # <<>>
        /\ AllBridged => Empty(Consumed(o.via))

LEMMA OffersAre ==
  ASSUME Inv, NEW t \in Turns, NEW o \in Offers(t)
  PROVE  Offered(t, o)
<1>1. CASE Reading(t, "call")
  <2> DEFINE f == Head(p.stdout)
  <2>1. /\ turn[t].stage = "reading" /\ p.stdout # <<>> /\ f.kind = "call" /\ f \in OutFrame
        /\ HostReads(p) \in ProcessRec
    BY <1>1, ReadingFrame
  <2>2. o = [via |-> "host", job |-> f.job, origin |-> f.origin, emit |-> f.id]
    BY <1>1 DEF Offers
  <2>3. o.via = "host" /\ o.job = f.job /\ o.origin = f.origin /\ o.emit = f.id
    BY <2>2
  <2>4. f.job \in Jobs /\ f.origin \in Turns /\ f.id \in Nat
    BY <2>1 DEF OutFrame
  <2>5. InTurn(t) /\ p \in ProcessRec /\ (AllBridged => OneRequest(p, t, turn[t].wire))
    BY <2>1, ReadingHere
  <2>6. AllBridged => f.origin = t /\ OneRequest(HostReads(p), t, turn[t].wire)
    BY <2>1, <2>5, Heads, CallRead
  <2> HIDE DEF f
  <2> QED BY <2>1, <2>3, <2>4, <2>5, <2>6 DEF Offered, Consumed, Calling
<1>2. CASE ~Reading(t, "call") /\ turn[t].stage = "picking" /\ turn[t].plan # <<>>
  <2>1. o = [via |-> "loop", job |-> Head(turn[t].plan), origin |-> turn[t].from, emit |-> NoCall]
    BY <1>2 DEF Offers
  <2>2. o.via = "loop" /\ o.job = Head(turn[t].plan) /\ o.origin = turn[t].from /\ o.emit = 0
    BY <2>1 DEF NoCall
  <2>3. InTurn(t) /\ Entered(t)
    BY <1>2 DEF InTurn, Entered
  <2>4. turn[t].plan \in Seq(Jobs) /\ turn[t].from \in Turns /\ p \in ProcessRec
    BY Here DEF TurnRec
  <2>5. AllBridged => turn[t].from = t /\ Empty(p)
    BY <1>2, <2>3, Here DEF Tidy, Reads, Ending, EndStages, Calling
  <2>6. Head(turn[t].plan) \in Jobs
    BY <1>2, <2>4
  <2> QED BY <1>2, <2>2, <2>3, <2>4, <2>5, <2>6 DEF Offered, Consumed, Calling
<1> QED BY <1>1, <1>2 DEF Offers

LEMMA RefuseKeeps ==
  ASSUME Inv, NEW t \in Turns, NEW o \in Offers(t), Refuse(t, o)
  PROVE  Inv'
<1> DEFINE r == RefusedRec(turn[t], o.via)
           q == Consumed(o.via)
<1>1. /\ o.emit \in Nat /\ q \in ProcessRec /\ InTurn(t)
      /\ turn[t].stage \notin {"recovering"} \cup Calling
      /\ \/ o.via = "host" /\ (AllBridged => OneRequest(q, t, turn[t].wire))
         \/ o.via = "loop" /\ (AllBridged => Empty(q))
  BY OffersAre DEF Offered
<1>2. Live(turn[t]) /\ o.via \in {"host", "loop"}
  BY <1>1, EnteredLive DEF Entered
<1>3. /\ Live(r) /\ r.via = o.via /\ r.origin = turn[t].origin /\ r.from = turn[t].from
      /\ r.phase = turn[t].phase /\ r.wire = turn[t].wire
  BY <1>2, RefusedIs
<1>4. GiveBack(t, r, o.emit, FALSE, q) /\ UNCHANGED <<setup, gate, sent, ran, yes, took>>
  BY DEF Refuse, RefusedRec, history
<1> HIDE DEF r, q
<1>5. AllBridged => r.origin = t /\ r.from = t
  BY <1>3, Here
<1>6. /\ AllBridged /\ r.via = "host" => OneRequest(q, t, r.wire)
      /\ AllBridged /\ r.via # "host" => Empty(q)
  BY <1>1, <1>3
<1> QED BY <1>1, <1>3, <1>4, <1>5, <1>6, GiveBackKeeps

LEMMA TakenIs ==
  ASSUME NEW t \in Turns, Live(turn[t]), NEW o, NEW s \in Stages,
         o.via \in {"host", "loop"}, o.job \in Jobs, o.origin \in Turns, o.emit \in Nat
  PROVE  /\ Taken(t, o, s) \in TurnRec /\ Live(Taken(t, o, s))
         /\ Taken(t, o, s).stage = s /\ Taken(t, o, s).via = o.via /\ Taken(t, o, s).job = o.job
         /\ Taken(t, o, s).origin = o.origin /\ Taken(t, o, s).from = turn[t].from
         /\ Taken(t, o, s).plan = turn[t].plan /\ Taken(t, o, s).wire = turn[t].wire
         /\ Taken(t, o, s).phase = turn[t].phase
         /\ Taken(t, o, s).calls \in {turn[t].calls + 1, turn[t].calls + 2}
<1> DEFINE r == turn[t]
           c == r.calls + (IF o.via = "host" THEN 1 ELSE 2)
           x == Taken(t, o, s)
<1>1. r \in TurnRec /\ r.requeued = FALSE /\ r.cancel # "acked"
  BY DEF Live, TurnRec
<1>2. r.calls \in Nat
  BY <1>1 DEF TurnRec
<1>3. c \in Nat /\ c \in {r.calls + 1, r.calls + 2}
  BY <1>2
<1>4. x = [r EXCEPT !.stage = s, !.via = o.via, !.job = o.job, !.origin = o.origin,
                    !.emit = o.emit, !.calls = c]
  BY DEF Taken
<1> HIDE DEF r, c, x
<1>5. x \in TurnRec
  BY <1>1, <1>3, <1>4 DEF TurnRec
<1>6. /\ x.stage = s /\ x.via = o.via /\ x.job = o.job /\ x.origin = o.origin
      /\ x.from = r.from /\ x.plan = r.plan /\ x.wire = r.wire /\ x.phase = r.phase
      /\ x.calls = c /\ x.requeued = r.requeued /\ x.cancel = r.cancel
  BY <1>1, <1>4 DEF TurnRec
<1> QED BY <1>1, <1>3, <1>5, <1>6 DEF Live, x, r

LEMMA MarkedIs ==
  ASSUME NEW r, Live(r)
  PROVE  /\ Marked(r) \in TurnRec /\ Live(Marked(r))
         /\ Marked(r).stage = r.stage /\ Marked(r).via = r.via /\ Marked(r).job = r.job
         /\ Marked(r).origin = r.origin /\ Marked(r).from = r.from
         /\ Marked(r).plan = r.plan /\ Marked(r).wire = r.wire /\ Marked(r).calls = r.calls
         /\ Mutates(r.job) => Marked(r).phase = "unsafe"
         /\ r.phase = "unsafe" => Marked(r).phase = "unsafe"
<1> DEFINE x == [r EXCEPT !.phase = "unsafe"]
<1>1. r \in TurnRec /\ r.requeued = FALSE /\ r.cancel # "acked"
  BY DEF Live, TurnRec
<1>2. /\ x \in TurnRec /\ x.phase = "unsafe" /\ x.requeued = FALSE /\ x.cancel # "acked"
      /\ x.stage = r.stage /\ x.via = r.via /\ x.job = r.job
      /\ x.origin = r.origin /\ x.from = r.from
      /\ x.plan = r.plan /\ x.wire = r.wire /\ x.calls = r.calls
  BY <1>1 DEF TurnRec
<1>3. Marked(r) = IF Mutates(r.job) THEN x ELSE r
  BY DEF Marked
<1> HIDE DEF x
<1> QED BY <1>1, <1>2, <1>3 DEF Live

(* Nothing is admitted past the limit of the calls.                        *)
LEMMA WithinLimit ==
  ASSUME Inv, NEW t \in Turns, NEW job, ~Refused(t, job), NEW c \in {turn[t].calls + 1, turn[t].calls + 2}
  PROVE  c \in 1..(CallLimit + 1)
<1>1. turn[t].calls \in Nat /\ CallLimit \in Nat
  BY Here, TurnAssumption DEF TurnRec
<1>2. ~(turn[t].calls >= CallLimit)
  BY DEF Refused
<1> QED BY <1>1, <1>2

WaitRec(r, w) == [r EXCEPT !.wait = w]

LEMMA AdmitKeeps ==
  ASSUME Inv, NEW t \in Turns, NEW o \in Offers(t), Admit(t, o)
  PROVE  Inv'
<1>1. /\ o.via \in {"host", "loop"} /\ o.job \in Jobs /\ o.origin \in Turns /\ o.emit \in Nat
      /\ Consumed(o.via) \in ProcessRec
      /\ InTurn(t) /\ turn[t].stage \notin {"recovering"} \cup Calling
      /\ AllBridged => o.origin = t
      /\ o.via = "loop" => turn[t].plan # <<>>
      /\ AllBridged /\ o.via = "host" => OneRequest(Consumed(o.via), t, turn[t].wire)
      /\ AllBridged /\ o.via = "loop" => Empty(Consumed(o.via))
  BY OffersAre DEF Offered
<1>2. Live(turn[t]) /\ Entered(t)
  BY <1>1, EnteredLive DEF Entered
<1>3. /\ GateOK(gate) /\ Heard(t, turn[t], gate, yes)
      /\ \A u \in Turns : Heard(u, turn[u], gate, yes)
      /\ sent \subseteq CallRec
      /\ AllBridged => turn[t].from = t
  BY Here DEF Inv, TurnInv, Typed
<1>4. /\ ~Refused(t, o.job) /\ p' = Consumed(o.via) /\ UNCHANGED <<setup, ran, yes>>
      /\ took' = took /\ sent' = sent /\ sent' \subseteq CallRec /\ sent' \ sent = {}
      /\ Mutates(o.job) => ModeFor(o.job) # "off"
  BY <1>3 DEF Admit, Refused, history
<1>5. ASSUME NEW x, Live(x), x.stage \in Calling, x.via = o.via, x.calls \in 1..(CallLimit + 1),
             x.plan = turn[t].plan, x.wire = turn[t].wire, x.origin = o.origin,
             x.from = turn[t].from, turn[t].phase = "unsafe" => x.phase = "unsafe",
             x.stage \in {"ready", "called"} /\ Mutates(x.job) => x.phase = "unsafe",
             turn' = [turn EXCEPT ![t] = x]
      PROVE  Moves(t, x) /\ x.cancel # "acked"
  <2>1. Sound(x)
    BY <1>1, <1>5 DEF Sound, Live
  <2>2. AllBridged => Tidy(t, x, p')
    BY <1>1, <1>4, <1>5 DEF Tidy, Reads, Calling
  <2>3. x.stage # "idle" /\ x.cancel # "acked"
    BY <1>5 DEF Calling, Live
  <2>4. AllBridged => x.origin = t /\ x.from = t
    BY <1>1, <1>3, <1>5
  <2>5. p' \in ProcessRec
    BY <1>1, <1>4
  <2> QED BY <1>5, <2>1, <2>2, <2>3, <2>4, <2>5 DEF Moves
<1>6. CASE NeedsApproval(o.job)
  <2> DEFINE r == Taken(t, o, "gate")
             w == IF kind[t] = "channel" THEN "posting" ELSE "no"
             x == WaitRec(r, w)
  <2>0. "gate" \in Stages /\ w \in {"no", "posting", "polling"}
    BY DEF Stages
  <2>1. /\ Live(r) /\ r.stage = "gate" /\ r.via = o.via /\ r.origin = o.origin /\ r.job = o.job
        /\ r.from = turn[t].from /\ r.plan = turn[t].plan /\ r.wire = turn[t].wire
        /\ r.phase = turn[t].phase /\ r.calls \in {turn[t].calls + 1, turn[t].calls + 2}
    BY <1>1, <1>2, <2>0, TakenIs
  <2>2. turn' = [turn EXCEPT ![t] = x] /\ gate' = Issue(gate, <<t, r.calls>>)
    BY <1>6 DEF Admit, WaitRec
  <2> HIDE DEF r, w
  <2>3. r.calls \in 1..(CallLimit + 1)
    BY <1>4, <2>1, WithinLimit
  <2>4. SameWork(r, x) /\ x.cancel = r.cancel
    BY <2>0, <2>1, WaitIs DEF Live, WaitRec, TurnRec
  <2> HIDE DEF x
  <2>5. Live(x)
    BY <2>1, <2>4 DEF Live, SameWork
  <2>6. /\ x.stage = "gate" /\ x.via = o.via /\ x.calls = r.calls /\ x.plan = turn[t].plan
        /\ x.wire = turn[t].wire /\ x.origin = o.origin /\ x.from = turn[t].from
        /\ x.phase = turn[t].phase /\ x.job = o.job
    BY <2>1, <2>4 DEF SameWork
  <2>7. Moves(t, x) /\ x.cancel # "acked"
    BY <1>5, <2>2, <2>3, <2>5, <2>6 DEF Calling
  <2>8. /\ GateOK(gate') /\ Heard(t, x, gate', yes)
        /\ \A u \in Turns : u # t => Heard(u, turn[u], gate', yes)
    BY <1>3, <1>6, <2>2, <2>3, <2>6, IssueIs
  <2> QED BY <1>2, <1>3, <1>4, <2>7, <2>8, MoveKeeps
<1>7. CASE ~NeedsApproval(o.job)
  <2> DEFINE r == Taken(t, o, "ready")
             x == Marked(r)
  <2>0. "ready" \in Stages
    BY DEF Stages
  <2>1. /\ Live(r) /\ r.stage = "ready" /\ r.via = o.via /\ r.origin = o.origin /\ r.job = o.job
        /\ r.from = turn[t].from /\ r.plan = turn[t].plan /\ r.wire = turn[t].wire
        /\ r.phase = turn[t].phase /\ r.calls \in {turn[t].calls + 1, turn[t].calls + 2}
    BY <1>1, <1>2, <2>0, TakenIs
  <2>2. turn' = [turn EXCEPT ![t] = x] /\ gate' = gate
    BY <1>7 DEF Admit
  <2> HIDE DEF r
  <2>3. r.calls \in 1..(CallLimit + 1)
    BY <1>4, <2>1, WithinLimit
  <2>4. /\ Live(x) /\ x.stage = "ready" /\ x.via = o.via /\ x.calls = r.calls /\ x.job = o.job
        /\ x.plan = turn[t].plan /\ x.wire = turn[t].wire /\ x.origin = o.origin
        /\ x.from = turn[t].from /\ x.job = o.job
        /\ Mutates(x.job) => x.phase = "unsafe"
        /\ turn[t].phase = "unsafe" => x.phase = "unsafe"
    BY <2>1, MarkedIs
  <2> HIDE DEF x
  <2>5. Moves(t, x) /\ x.cancel # "acked"
    BY <1>5, <2>2, <2>3, <2>4 DEF Calling
  <2>6. Heard(t, x, gate', yes)
    BY <1>3, <1>4, <1>7, <2>2, <2>4 DEF Heard, NeedsApproval, Licensed
  <2> QED BY <1>2, <1>3, <1>4, <2>2, <2>5, <2>6, MoveKeeps
<1> QED BY <1>6, <1>7
-----------------------------------------------------------------------------
(* Approvals.                                                              *)

LEMMA WaitKeeps ==
  ASSUME Inv, NEW t \in Turns, Posted(t) \/ WaitOver(t) \/ WaitBroken(t)
  PROVE  Inv'
<1>1. turn[t] \in TurnRec
  BY Here
<1>2. PICK w \in {"no", "polling"} : SetWait(t, w)
  BY DEF Posted, WaitOver, WaitBroken
<1> DEFINE x == [turn[t] EXCEPT !.wait = w]
<1>3. SameWork(turn[t], x)
  BY <1>1, WaitIs
<1>4. turn' = [turn EXCEPT ![t] = x]
  BY <1>2 DEF SetWait
<1>5. /\ UNCHANGED <<setup, p, sent, history>>
      /\ gate' = gate \/ gate' = Withdraw(gate, Challenge(t))
  BY DEF Posted, WaitOver, WaitBroken
<1> HIDE DEF x
<1> QED BY <1>3, <1>4, <1>5, SameWorkKeeps

(* A turn that calls, and what its result is given back to.                *)
LEMMA CallingHere ==
  ASSUME Inv, NEW t \in Turns, turn[t].stage \in Calling
  PROVE  /\ Entered(t) /\ InTurn(t) /\ Live(turn[t]) /\ turn[t] \in TurnRec /\ p \in ProcessRec
         /\ turn[t].emit \in Nat
         /\ turn[t].via = "loop" => turn[t].plan # <<>>
         /\ AllBridged /\ turn[t].via = "host" => OneRequest(p, t, turn[t].wire)
         /\ AllBridged /\ turn[t].via # "host" => Empty(p)
<1>1. /\ InTurn(t) /\ Entered(t) /\ turn[t].stage \notin {"recovering", "reading"}
      /\ turn[t].stage \notin EndStages
  BY DEF InTurn, Calling, Entered, EndStages
<1>2. Sound(turn[t]) /\ turn[t] \in TurnRec /\ p \in ProcessRec
  BY Here
<1>3. AllBridged => Tidy(t, turn[t], p)
  BY <1>1, Here
<1>4. turn[t].via = "loop" => turn[t].plan # <<>>
  BY <1>2 DEF Sound
<1>5. /\ AllBridged /\ turn[t].via = "host" => OneRequest(p, t, turn[t].wire)
      /\ AllBridged /\ turn[t].via # "host" => Empty(p)
  BY <1>1, <1>3 DEF Tidy, Reads, Ending
<1>6. turn[t].emit \in Nat
  BY <1>2 DEF TurnRec
<1> QED BY <1>1, <1>2, <1>4, <1>5, <1>6, EnteredLive

(* The result of a call goes back.                                         *)
LEMMA ResultKeeps ==
  ASSUME Inv, NEW t \in Turns, turn[t].stage \in Calling, NEW ok \in BOOLEAN,
         GiveBack(t, turn[t], turn[t].emit, ok, p), UNCHANGED <<setup, sent, history>>,
         gate' = gate \/ gate' = Forgotten(gate, t)
  PROVE  Inv'
<1>1. AllBridged => turn[t].origin = t /\ turn[t].from = t
  BY Here
<1>2. UNCHANGED <<setup, yes, ran, took>> /\ sent' \subseteq sent
  BY DEF history
<1> QED BY <1>1, <1>2, CallingHere, GiveBackKeeps

LEMMA DeniedKeeps ==
  ASSUME Inv, NEW t \in Turns, Denied(t) \/ Withdrawn(t)
  PROVE  Inv'
<1>1. turn[t].stage \in Calling
  BY DEF Denied, Withdrawn, AtGate, Calling
<1>2. PICK ok \in BOOLEAN : GiveBack(t, turn[t], turn[t].emit, ok, p)
  BY DEF Denied, Withdrawn
<1> QED BY <1>1, <1>2, ResultKeeps DEF Denied, Withdrawn

LEMMA ToolReturnsKeeps ==
  ASSUME Inv, NEW t \in Turns, ToolReturns(t)
  PROVE  Inv'
<1>1. turn[t].stage \in Calling
  BY DEF ToolReturns, Calling
<1>2. PICK ok \in BOOLEAN : GiveBack(t, turn[t], turn[t].emit, ok, p)
  BY DEF ToolReturns
<1> QED BY <1>1, <1>2, ResultKeeps DEF ToolReturns

(* The turn goes from one stage of its call to another.                    *)
LEMMA CallMoves ==
  ASSUME Inv, NEW t \in Turns, turn[t].stage \in Calling,
         NEW x, Live(x), x.stage \in {"ready", "called"},
         x.via = turn[t].via, x.calls = turn[t].calls, x.plan = turn[t].plan,
         x.wire = turn[t].wire, x.origin = turn[t].origin, x.from = turn[t].from,
         turn[t].phase = "unsafe" => x.phase = "unsafe",
         Mutates(x.job) => x.phase = "unsafe",
         turn' = [turn EXCEPT ![t] = x], p' = p
  PROVE  Moves(t, x) /\ x.cancel # "acked"
<1>1. Sound(turn[t]) /\ p \in ProcessRec /\ (AllBridged => turn[t].origin = t /\ turn[t].from = t)
  BY Here
<1>2. /\ turn[t].calls \in 1..(CallLimit + 1)
      /\ turn[t].via = "loop" => turn[t].plan # <<>>
  BY <1>1 DEF Sound
<1>3. x.cancel # "acked" /\ x.stage \in Calling /\ x.stage # "idle"
  BY DEF Live, Calling
<1>4. Sound(x)
  BY <1>2, <1>3 DEF Sound, Live
<1>5. AllBridged => Tidy(t, x, p')
  <2>1. x.via = "host" \/ x.via = "loop"
    BY DEF Live, TurnRec
  <2> QED BY <1>3, <2>1, CallingHere DEF Tidy, Reads, Calling
<1> QED BY <1>1, <1>3, <1>4, <1>5 DEF Moves

LEMMA ApprovedKeeps ==
  ASSUME Inv, NEW t \in Turns, Approved(t)
  PROVE  Inv'
<1>1. /\ turn[t].stage = "gate" /\ turn[t].stage \in Calling /\ gate.said[t] = "approve"
      /\ gate' = Forgotten(gate, t) /\ UNCHANGED <<setup, sent, history>>
  BY DEF Approved, AtGate, Calling
<1>2. CASE GiveBack(t, turn[t], turn[t].emit, FALSE, p)
  BY <1>1, <1>2, ResultKeeps
<1>3. CASE turn' = [turn EXCEPT ![t] = Marked(Staged(turn[t], "ready"))] /\ p' = p
  <2> DEFINE r == Staged(turn[t], "ready")
             x == Marked(r)
  <2>1. Live(turn[t]) /\ turn[t] \in TurnRec /\ "ready" \in Stages /\ Entered(t)
    BY <1>1, CallingHere DEF Stages
  <2>2. /\ Live(r) /\ r.stage = "ready" /\ r.via = turn[t].via /\ r.origin = turn[t].origin
        /\ r.from = turn[t].from /\ r.plan = turn[t].plan /\ r.wire = turn[t].wire
        /\ r.phase = turn[t].phase /\ r.calls = turn[t].calls /\ r.job = turn[t].job
    BY <2>1, StagedIs DEF Live
  <2> HIDE DEF r
  <2>3. /\ Live(x) /\ x.stage = "ready" /\ x.via = r.via /\ x.calls = r.calls /\ x.job = r.job
        /\ x.plan = r.plan /\ x.wire = r.wire /\ x.origin = r.origin /\ x.from = r.from
        /\ r.phase = "unsafe" => x.phase = "unsafe"
    BY <2>2, MarkedIs
  <2>4. Mutates(x.job) => x.phase = "unsafe"
    BY <2>2, MarkedIs
  <2>5. turn' = [turn EXCEPT ![t] = x]
    BY <1>3 DEF r
  <2> HIDE DEF x
  <2>a. /\ x.stage \in {"ready", "called"} /\ x.via = turn[t].via /\ x.calls = turn[t].calls
        /\ x.plan = turn[t].plan /\ x.wire = turn[t].wire /\ x.origin = turn[t].origin
        /\ x.from = turn[t].from
    BY <2>2, <2>3
  <2>b. turn[t].phase = "unsafe" => x.phase = "unsafe"
    BY <2>2, <2>3
  <2>6. Moves(t, x) /\ x.cancel # "acked"
    BY <1>1, <1>3, <2>3, <2>4, <2>5, <2>a, <2>b, CallMoves
  <2>7. Licensed(x.job, <<t, x.calls>>, yes)
    BY <1>1, <2>2, <2>3, Here DEF Heard, NeedsApproval, Licensed
  <2>8. /\ GateOK(gate') /\ Heard(t, x, gate', yes)
        /\ \A u \in Turns : u # t => Heard(u, turn[u], gate', yes)
    BY <1>1, <2>3, <2>7, ForgottenIs DEF Inv, TurnInv, Typed
  <2>9. /\ sent' \subseteq CallRec /\ sent' \ sent = {} /\ UNCHANGED <<setup, yes, ran>>
        /\ took' = took
    BY <1>1 DEF Inv, TurnInv, Typed, history
  <2> QED BY <2>1, <2>6, <2>8, <2>9, MoveKeeps
<1> QED BY <1>2, <1>3 DEF Approved, Staged
-----------------------------------------------------------------------------
(* The tool process.                                                       *)

LEMMA CallIs ==
  ASSUME NEW t \in Turns, turn[t] \in TurnRec
  PROVE  /\ Call(t) \in CallRec /\ Call(t).by = t /\ Call(t).origin = turn[t].origin
         /\ Call(t).job = turn[t].job /\ Call(t).n = turn[t].calls
BY DEF Call, CallRec, TurnRec

LEMMA CallToolKeeps ==
  ASSUME Inv, NEW t \in Turns, CallTool(t)
  PROVE  Inv'
<1>1. /\ turn[t].stage = "ready" /\ turn[t].stage \in Calling
      /\ sent' = sent \cup {Call(t)} /\ To(t, "called") /\ p' = p /\ gate' = gate
      /\ UNCHANGED <<setup, ran, yes, took>>
  BY DEF CallTool, Calling, history
<1> DEFINE x == Staged(turn[t], "called")
<1>2. Live(turn[t]) /\ turn[t] \in TurnRec /\ "called" \in Stages /\ Entered(t)
  BY <1>1, CallingHere DEF Stages
<1>3. /\ x \in TurnRec /\ x.stage = "called" /\ x.via = turn[t].via /\ x.origin = turn[t].origin
      /\ x.from = turn[t].from /\ x.plan = turn[t].plan /\ x.wire = turn[t].wire
      /\ x.phase = turn[t].phase /\ x.calls = turn[t].calls /\ x.job = turn[t].job
      /\ x.requeued = turn[t].requeued /\ x.cancel = turn[t].cancel
  BY <1>2, StagedIs
<1>4. turn' = [turn EXCEPT ![t] = x]
  BY <1>1 DEF To, Staged
<1> HIDE DEF x
<1>5. Live(x)
  BY <1>2, <1>3 DEF Live
<1>6. /\ Sound(turn[t]) /\ Heard(t, turn[t], gate, yes) /\ GateOK(gate)
      /\ AllBridged => turn[t].origin = t
  BY Here
<1>7. Mutates(x.job) => x.phase = "unsafe"
  BY <1>1, <1>3, <1>6 DEF Sound
<1>8. Moves(t, x) /\ x.cancel # "acked"
  BY <1>1, <1>3, <1>4, <1>5, <1>7, CallMoves
<1>9. Heard(t, x, gate', yes)
  BY <1>1, <1>3, <1>6 DEF Heard
<1>10. \A u \in Turns : u # t => Heard(u, turn[u], gate', yes)
  BY <1>1 DEF Inv, TurnInv
<1>11. turn'[t] = x
  BY <1>8, MovedTurns
<1>12. Call(t) \in CallRec /\ Call(t).by = t /\ Call(t).origin = turn[t].origin
       /\ Call(t).job = turn[t].job /\ Call(t).n = turn[t].calls
  BY <1>2, CallIs
<1>13. Backed(Call(t), turn', yes)
  BY <1>1, <1>3, <1>6, <1>7, <1>11, <1>12 DEF Backed, Heard
<1>14. sent' \subseteq CallRec
  BY <1>1, <1>12 DEF Inv, TurnInv, Typed
<1>15. \A c \in sent' \ sent : c.by = t /\ Backed(c, turn', yes) /\ (AllBridged => c.origin = t)
  BY <1>1, <1>6, <1>12, <1>13
<1> QED BY <1>1, <1>2, <1>6, <1>8, <1>9, <1>10, <1>14, <1>15, MoveKeeps

(* The record of a turn with the tool known to be broken, or not.          *)
BrokenRec(r, b) == [r EXCEPT !.broken = b]

LEMMA BrokenIs ==
  ASSUME NEW r, Live(r), NEW b \in BOOLEAN
  PROVE  /\ Live(BrokenRec(r, b)) /\ BrokenRec(r, b).stage = r.stage
         /\ BrokenRec(r, b).via = r.via /\ BrokenRec(r, b).plan = r.plan
         /\ BrokenRec(r, b).wire = r.wire
         /\ BrokenRec(r, b).origin = r.origin /\ BrokenRec(r, b).from = r.from
         /\ BrokenRec(r, b).phase = r.phase /\ BrokenRec(r, b).cancel = r.cancel
<1> DEFINE x == BrokenRec(r, b)
<1>1. r \in TurnRec /\ r.requeued = FALSE /\ r.cancel # "acked"
  BY DEF Live, TurnRec
<1>2. x \in TurnRec /\ x.requeued = r.requeued /\ x.cancel = r.cancel
  BY <1>1 DEF BrokenRec, TurnRec
<1>3. /\ x.stage = r.stage /\ x.via = r.via /\ x.plan = r.plan /\ x.wire = r.wire
      /\ x.origin = r.origin /\ x.from = r.from /\ x.phase = r.phase
  BY <1>1 DEF BrokenRec, TurnRec
<1> HIDE DEF x
<1> QED BY <1>1, <1>2, <1>3 DEF Live, x

LEMMA ToolBreaksKeeps ==
  ASSUME Inv, NEW t \in Turns, ToolBreaks(t)
  PROVE  Inv'
<1> DEFINE b == turn[t].via = "loop"
           r == BrokenRec(turn[t], b)
<1>1. /\ turn[t].stage \in Calling /\ GiveBack(t, r, turn[t].emit, FALSE, p)
      /\ gate' = gate /\ UNCHANGED <<setup, yes, ran, took>> /\ sent' \subseteq sent
  BY DEF ToolBreaks, Calling, BrokenRec, history
<1>2. /\ InTurn(t) /\ Live(turn[t]) /\ p \in ProcessRec /\ turn[t].emit \in Nat
      /\ AllBridged /\ turn[t].via = "host" => OneRequest(p, t, turn[t].wire)
      /\ AllBridged /\ turn[t].via # "host" => Empty(p)
  BY <1>1, CallingHere
<1>3. b \in BOOLEAN
  OBVIOUS
<1> HIDE DEF b
<1>4. /\ Live(r) /\ r.via = turn[t].via /\ r.wire = turn[t].wire /\ r.origin = turn[t].origin
      /\ r.from = turn[t].from /\ r.phase = turn[t].phase
  BY <1>2, <1>3, BrokenIs
<1> HIDE DEF r
<1>5. AllBridged => r.origin = t /\ r.from = t
  BY <1>4, Here
<1>6. /\ AllBridged /\ r.via = "host" => OneRequest(p, t, r.wire)
      /\ AllBridged /\ r.via # "host" => Empty(p)
  BY <1>2, <1>4
<1> QED BY <1>1, <1>2, <1>4, <1>5, <1>6, GiveBackKeeps

-----------------------------------------------------------------------------
(* The ends of a turn.                                                     *)

LEMMA Dropped ==
  ASSUME Inv, NEW t \in Turns, Drop(t)
  PROVE  p' \in ProcessRec /\ gate' = Forgotten(gate, t)
BY Here, AbandonedType DEF Drop

LEMMA AwaitingIs ==
  ASSUME Inv, NEW t \in Turns, turn[t].stage \in Awaiting
  PROVE  Entered(t) /\ InTurn(t) /\ Live(turn[t]) /\ turn[t].stage # "recovering"
BY EnteredLive DEF Awaiting, InTurn, Entered

LEMMA SeesCancelKeeps ==
  ASSUME Inv, NEW t \in Turns, SeesCancel(t)
  PROVE  Inv'
<1>1. /\ Entered(t) /\ InTurn(t) /\ Live(turn[t]) /\ turn[t].stage # "recovering"
      /\ p' \in ProcessRec /\ gate' = Forgotten(gate, t)
      /\ UNCHANGED <<setup, sent, ran, yes, took>>
  BY Dropped, AwaitingIs DEF SeesCancel, history
<1>2. CASE kind[t] = "channel"
  <2>1. "clearing" \in EndStages /\ Leave(t, "clearing")
    BY <1>2 DEF EndStages, SeesCancel
  <2> QED BY <1>1, <2>1, LeaveKeeps DEF Leave
<1>3. CASE kind[t] # "channel"
  BY <1>1, <1>3, NotBridged, AckedKeeps DEF SeesCancel
<1> QED BY <1>2, <1>3

LEMMA TimesOutKeeps ==
  ASSUME Inv, NEW t \in Turns, TimesOut(t)
  PROVE  Inv'
<1> DEFINE b == turn[t].via = "loop" /\ turn[t].stage \in {"gate", "ready", "called"}
           r == BrokenRec(turn[t], b)
<1>1. /\ Entered(t) /\ Live(turn[t]) /\ p' \in ProcessRec /\ gate' = Forgotten(gate, t)
      /\ UNCHANGED <<setup, sent, ran, yes, took>>
  BY Dropped, AwaitingIs DEF TimesOut, history
<1>2. turn' = [turn EXCEPT ![t] = Left(t, r, "failing")]
  BY DEF TimesOut, BrokenRec
<1>3. b \in BOOLEAN /\ "failing" \in EndStages
  BY DEF EndStages
<1> HIDE DEF b
<1>4. Live(r) /\ r.phase = turn[t].phase
  BY <1>1, <1>3, BrokenIs
<1> HIDE DEF r
<1> QED BY <1>1, <1>2, <1>3, <1>4, LeaveKeeps

LEMMA ProviderTimesOutKeeps ==
  ASSUME Inv, NEW t \in Turns, ProviderTimesOut(t)
  PROVE  Inv'
<1>1. turn[t].stage \in Awaiting /\ "failing" \in EndStages
  BY DEF ProviderTimesOut, Holds, Awaiting, EndStages
<1>2. /\ Entered(t) /\ Live(turn[t]) /\ p' \in ProcessRec /\ gate' = Forgotten(gate, t)
      /\ UNCHANGED <<setup, sent, ran, yes, took>>
  BY <1>1, Dropped, AwaitingIs DEF ProviderTimesOut, history
<1> QED BY <1>1, <1>2, LeaveKeeps DEF ProviderTimesOut, Leave

LEMMA ClientGoneKeeps ==
  ASSUME Inv, NEW t \in Turns, ClientGone(t)
  PROVE  Inv'
<1> DEFINE x == Left(t, turn[t], "over")
<1>1. /\ Entered(t) /\ InTurn(t) /\ Live(turn[t]) /\ ~AllBridged
      /\ p' \in ProcessRec /\ gate' = Forgotten(gate, t)
      /\ UNCHANGED <<setup, sent, ran, yes, took>>
  BY Dropped, AwaitingIs, NotBridged DEF ClientGone, history
<1>2. "over" \in Stages \ Calling
  BY DEF Stages, Calling
<1>3. Sound(x) /\ x.stage = "over" /\ x.origin = t /\ x.from = t /\ x.phase = turn[t].phase
  BY <1>1, <1>2, LeftIs
<1>4. turn' = [turn EXCEPT ![t] = x]
  BY DEF ClientGone, Leave
<1> HIDE DEF x
<1> QED BY <1>1, <1>3, <1>4, OverKeeps
LEMMA FailTerminalKeeps ==
  ASSUME Inv, NEW t \in Turns, FailTerminal(t)
  PROVE  Inv'
<1>1. /\ InTurn(t) /\ turn[t].stage # "recovering" /\ Acked(t) /\ ~AllBridged
      /\ p' = p /\ gate' = gate /\ UNCHANGED <<setup, sent, ran, yes, took>>
  BY NotBridged DEF FailTerminal, InTurn, history
<1>2. p' \in ProcessRec
  BY <1>1, Here
<1> QED BY <1>1, <1>2, AckedKeeps

LEMMA FailChannelKeeps ==
  ASSUME Inv, NEW t \in Turns, FailChannel(t)
  PROVE  Inv'
<1>1. /\ Entered(t) /\ turn[t].stage # "recovering" /\ p' = p
      /\ UNCHANGED <<setup, gate, sent, history>>
  BY DEF FailChannel, InTurn, Entered
<1>2. PICK s \in {"failed", "clearing"} : To(t, s)
  BY DEF FailChannel
<1>3. p' \in ProcessRec
  BY <1>1, Here
<1> QED BY <1>1, <1>2, <1>3, StagedKeeps

LEMMA RestartToolsKeeps ==
  ASSUME Inv, NEW t \in Turns, RestartTools(t)
  PROVE  Inv'
<1> DEFINE x == BrokenRec(turn[t], FALSE)
<1>1. /\ turn[t].stage = "failed" /\ sent' = {} /\ p' = p /\ gate' = gate
      /\ UNCHANGED <<setup, ran, yes, took>>
  BY DEF RestartTools, history
<1>2. Entered(t) /\ Live(turn[t])
  BY <1>1, EnteredLive DEF Entered, InTurn
<1>3. /\ Live(x) /\ x.stage = turn[t].stage /\ x.origin = turn[t].origin
      /\ x.from = turn[t].from /\ x.phase = turn[t].phase
  BY <1>2, BrokenIs
<1>4. turn' = [turn EXCEPT ![t] = x]
  BY DEF RestartTools, BrokenRec
<1> HIDE DEF x
<1>5. Sound(x) /\ x.stage \notin Calling /\ x.cancel # "acked"
  <2>1. x \in TurnRec /\ x.requeued = FALSE /\ x.cancel # "acked"
    BY <1>3 DEF Live, TurnRec
  <2> QED BY <1>1, <1>3, <2>1 DEF Sound, Calling
<1>6. Tidy(t, x, p')
  BY <1>1, <1>3 DEF Tidy, Reads, Ending, EndStages, Calling
<1>7. Moves(t, x)
  BY <1>1, <1>3, <1>4, <1>5, <1>6, Here DEF Moves
<1> QED BY <1>1, <1>2, <1>5, <1>7, EndsKeep

(* The record of a turn whose failure was recorded.                        *)
RecordedRec(r, b) == [r EXCEPT !.stage = "recovering", !.requeued = b]

LEMMA RecordedIs ==
  ASSUME NEW r, Live(r), NEW b \in BOOLEAN, b => r.phase = "safe"
  PROVE  /\ Sound(RecordedRec(r, b)) /\ RecordedRec(r, b).stage = "recovering"
         /\ RecordedRec(r, b).origin = r.origin /\ RecordedRec(r, b).from = r.from
         /\ RecordedRec(r, b).phase = r.phase /\ RecordedRec(r, b).cancel # "acked"
<1> DEFINE x == RecordedRec(r, b)
<1>1. r \in TurnRec /\ r.cancel # "acked" /\ "recovering" \in Stages
  BY DEF Live, Stages
<1>2. x \in TurnRec /\ x.requeued = b /\ x.cancel = r.cancel
  BY <1>1 DEF RecordedRec, TurnRec
<1>3. /\ x.stage = "recovering" /\ x.origin = r.origin /\ x.from = r.from /\ x.phase = r.phase
  BY <1>1 DEF RecordedRec, TurnRec
<1> HIDE DEF x
<1> QED BY <1>1, <1>2, <1>3 DEF Sound, Calling, x

LEMMA RecordFailureKeeps ==
  ASSUME Inv, NEW t \in Turns, RecordFailure(t)
  PROVE  Inv'
<1> DEFINE b == turn[t].phase = "safe"
           x == RecordedRec(turn[t], b)
<1>1. /\ turn[t].stage = "failed" /\ sent' = sent /\ p' = p /\ gate' = gate
      /\ UNCHANGED <<setup, ran, yes, took>>
  BY DEF RecordFailure, history
<1>2. Entered(t) /\ Live(turn[t])
  BY <1>1, EnteredLive DEF Entered, InTurn
<1>3. b \in BOOLEAN /\ (b => turn[t].phase = "safe")
  OBVIOUS
<1>4. turn' = [turn EXCEPT ![t] = x]
  BY DEF RecordFailure, RecordedRec
<1> HIDE DEF b
<1>5. /\ Sound(x) /\ x.stage = "recovering" /\ x.origin = turn[t].origin
      /\ x.from = turn[t].from /\ x.phase = turn[t].phase /\ x.cancel # "acked"
  BY <1>2, <1>3, RecordedIs
<1> HIDE DEF x
<1>6. Tidy(t, x, p') /\ x.stage \notin Calling
  BY <1>5 DEF Tidy, Reads, Ending, EndStages, Calling
<1>7. Moves(t, x)
  BY <1>1, <1>4, <1>5, <1>6, Here DEF Moves
<1> QED BY <1>1, <1>2, <1>5, <1>6, <1>7, EndsKeep

LEMMA RecoverKeeps ==
  ASSUME Inv, NEW t \in Turns, Recover(t)
  PROVE  Inv'
<1>1. /\ turn[t].stage = "recovering" /\ p' \in ProcessRec /\ Empty(p')
      /\ UNCHANGED <<setup, gate, sent, ran, yes, took>>
  BY RestartedType DEF Recover, history
<1>2. PICK s \in {"over", "recovering"} : To(t, s)
  BY DEF Recover
<1> DEFINE x == Staged(turn[t], s)
<1>3. Entered(t) /\ Sound(turn[t]) /\ turn[t] \in TurnRec /\ s \in Stages
  BY <1>1, Here DEF Entered, InTurn, Stages
<1>4. /\ x \in TurnRec /\ x.stage = s /\ x.origin = turn[t].origin /\ x.from = turn[t].from
      /\ x.phase = turn[t].phase /\ x.cancel = turn[t].cancel /\ x.requeued = turn[t].requeued
  BY <1>3, StagedIs
<1>5. turn' = [turn EXCEPT ![t] = x]
  BY <1>2 DEF To, Staged
<1> HIDE DEF x
<1>6. x.cancel # "acked" /\ Sound(x)
  BY <1>1, <1>3, <1>4 DEF Sound, Calling
<1>7. Tidy(t, x, p') /\ x.stage \notin Calling /\ x.stage # "idle"
  BY <1>1, <1>4 DEF Tidy, Reads, Calling
<1>8. Moves(t, x)
  BY <1>1, <1>4, <1>5, <1>6, <1>7, Here DEF Moves
<1> QED BY <1>1, <1>3, <1>6, <1>7, <1>8, EndsKeep

LEMMA ClearKeeps ==
  ASSUME Inv, NEW t \in Turns, Clear(t)
  PROVE  Inv'
<1>1. /\ Entered(t) /\ turn[t].stage # "recovering" /\ To(t, "stopping")
      /\ UNCHANGED <<setup, gate, sent, history>>
  BY DEF Clear, InTurn, Entered
<1>2. p' \in ProcessRec /\ Empty(p')
  BY RestartedType DEF Clear
<1> QED BY <1>1, <1>2, StagedKeeps

LEMMA ClearedKeeps ==
  ASSUME Inv, NEW t \in Turns, Cleared(t)
  PROVE  Inv'
<1>1. /\ InTurn(t) /\ turn[t].stage = "stopping" /\ Acked(t) /\ sent' = {}
      /\ p' = p /\ gate' = gate /\ UNCHANGED <<setup, ran, yes, took>>
  BY DEF Cleared, InTurn, history
<1>2. p' \in ProcessRec /\ (AllBridged => Empty(p'))
  BY <1>1, Here DEF Entered, Tidy, Reads, Ending, EndStages, Calling
<1> QED BY <1>1, <1>2, AckedKeeps

-----------------------------------------------------------------------------
(* The invariant.                                                          *)

LEMMA TurnKeeps ==
  ASSUME Inv, NEW t \in Turns, Turn(t)
  PROVE  Inv'
<1>1. CASE Start(t) \/ Ask(t) \/ AskAgain(t)
  BY <1>1, StartKeeps, AskKeeps, AskAgainKeeps
<1>2. CASE ReadEnd(t) \/ ReadBroken(t) \/ ReadOther(t) \/ ReadRefusal(t) \/ ReadReply(t)
  BY <1>2, ReadEndKeeps, ReadBrokenKeeps, ReadOtherKeeps, ReadRefusalKeeps, ReadReplyKeeps
<1>3. CASE \E o \in Offers(t) : Refuse(t, o) \/ Admit(t, o)
  BY <1>3, RefuseKeeps, AdmitKeeps
<1>4. CASE Posted(t) \/ WaitOver(t) \/ WaitBroken(t)
  BY <1>4, WaitKeeps
<1>5. CASE Approved(t) \/ Denied(t) \/ Withdrawn(t)
  BY <1>5, ApprovedKeeps, DeniedKeeps
<1>6. CASE CallTool(t) \/ ToolReturns(t) \/ ToolBreaks(t)
  BY <1>6, CallToolKeeps, ToolReturnsKeeps, ToolBreaksKeeps
<1>7. CASE SeesCancel(t) \/ TimesOut(t) \/ ProviderTimesOut(t) \/ ClientGone(t)
  BY <1>7, SeesCancelKeeps, TimesOutKeeps, ProviderTimesOutKeeps, ClientGoneKeeps
<1>8. CASE FailTerminal(t) \/ FailChannel(t) \/ RestartTools(t) \/ RecordFailure(t) \/ Recover(t)
  BY <1>8, FailTerminalKeeps, FailChannelKeeps, RestartToolsKeeps, RecordFailureKeeps, RecoverKeeps
<1>9. CASE Clear(t) \/ Cleared(t)
  BY <1>9, ClearKeeps, ClearedKeeps
<1> QED BY <1>1, <1>2, <1>3, <1>4, <1>5, <1>6, <1>7, <1>8, <1>9 DEF Turn

LEMMA EnvironmentKeeps ==
  ASSUME Inv, Environment
  PROVE  Inv'
<1>1. CASE PluginStep \/ PluginDies \/ ListApprovals
  BY <1>1, PluginStepKeeps, PluginDiesKeeps, ListApprovalsKeeps
<1>2. CASE \E x \in sent : ToolRuns(x)
  BY <1>2, ToolRunsKeeps
<1>3. ASSUME NEW c \in gate.open, LapseChallenge(c)
      PROVE  Inv'
  BY <1>3, LapseKeeps
<1>4. ASSUME NEW c \in gate.open, NEW verdict \in {"approve", "deny"}, PressLocal(c, verdict)
      PROVE  Inv'
  BY <1>4, PressLocalKeeps
<1>5. ASSUME NEW c \in gate.open, NEW verdict \in {"approve", "deny"},
             NEW chat \in Turns, NEW allowed \in BOOLEAN, Press(c, chat, allowed, verdict)
      PROVE  Inv'
  BY <1>5, PressKeeps
<1>6. CASE \E t \in Turns : MarkCancel(t) \/ RequestCancel(t)
  BY <1>6, CancelKeeps
<1> QED BY <1>1, <1>2, <1>3, <1>4, <1>5, <1>6 DEF Environment

LEMMA IdleKeeps == Inv /\ UNCHANGED vars => Inv'
<1> SUFFICES ASSUME Inv, UNCHANGED vars PROVE Inv'
  OBVIOUS
<1>1. UNCHANGED <<setup, turn, p, gate, sent, history>>
  BY DEF vars
<1>2. \A t \in Turns, wire \in Nat : OneRequest(p, t, wire) => OneRequest(p', t, wire)
  BY <1>1
<1>3. p' \in ProcessRec
  BY <1>1 DEF Inv, TurnInv, Typed
<1> QED BY <1>1, <1>2, <1>3, ProcessKeeps

(* The gate at the start.                                                  *)
LEMMA EmptyGateIs ==
  /\ GateOK(EmptyGate(Turns))
  /\ \A t \in Turns : \A r, y : r.stage = "idle" => Heard(t, r, EmptyGate(Turns), y)
<1> DEFINE g == EmptyGate(Turns)
<1>1. /\ g.open = {} /\ g.lapsed = {} /\ g.waits = [t \in Turns |-> 0]
      /\ g.said = [t \in Turns |-> "none"] /\ g \in GateRec
  BY DEF EmptyGate, GateRec, Verdicts
<1> HIDE DEF g
<1> QED BY <1>1 DEF GateOK, Heard, g

LEMMA InitInv == Init => Inv
<1> SUFFICES ASSUME Init PROVE Inv
  OBVIOUS
<1>1. \A t \in Turns : turn[t] = NewTurn(t)
  BY DEF Init
<1>2. /\ setup \in Setups /\ p = Started /\ gate = EmptyGate(Turns)
      /\ sent = {} /\ ran = {} /\ yes = {} /\ took = {} /\ turn = [t \in Turns |-> NewTurn(t)]
  BY DEF Init
<1>3. \A t \in Turns : /\ turn[t] \in TurnRec /\ turn[t].origin = t /\ turn[t].from = t
                       /\ turn[t].stage = "idle" /\ ~turn[t].requeued /\ turn[t].cancel = "no"
  BY <1>1, NewTurnType
<1>4. turn \in [Turns -> TurnRec]
  BY <1>2, <1>3
<1>5. Typed
  BY <1>2, <1>4, EndsType, EmptyGateIs DEF Typed
<1>6. \A t \in Turns : Sound(turn[t]) /\ Heard(t, turn[t], gate, yes)
  BY <1>2, <1>3, EmptyGateIs DEF Sound, Calling
<1>7. TurnInv
  BY <1>2, <1>5, <1>6 DEF TurnInv
<1>8. OneByOne
  BY <1>3 DEF OneByOne, Bridged
<1>9. BridgeInv
  BY <1>2, <1>3, EndsType DEF BridgeInv, Tidy, Reads, Calling
<1> QED BY <1>7, <1>8, <1>9 DEF Inv

LEMMA NextKeepsInv == Inv /\ [Next]_vars => Inv'
BY TurnKeeps, EnvironmentKeeps, IdleKeeps DEF Next

(* The invariant holds of every behaviour of the turns (answer).           *)
THEOREM Invariant == Spec => []Inv
BY InitInv, NextKeepsInv, PTL DEF Spec
-----------------------------------------------------------------------------
(* What the turns promise.                                                 *)

(* No turn waits at the gate for an answer that can no longer come,        *)
(* whatever was issued, answered, withdrawn or has lapsed beside it        *)
(* (approval::Gate).                                                       *)
THEOREM NoLostWait == Spec => []WaitsForSomething
<1>1. Inv => WaitsForSomething
  BY DEF Inv, TurnInv, Heard, WaitsForSomething, Challenge
<1> QED BY <1>1, Invariant, PTL

(* But for the proposal of a schedule, the tool carries out no mutating    *)
(* call in the off mode, and in the prompt mode only those that were       *)
(* approved, each by its own challenge (execute_tool_with_registry).       *)
THEOREM OnlyApproved == Spec => []ApprovedOnly
<1>1. Inv => ApprovedOnly
  <2> SUFFICES ASSUME Inv, NEW x \in ran, Mutates(x.job), x.job # "propose"
               PROVE  mode = "auto" \/ (mode = "prompt" /\ <<x.by, x.n>> \in yes)
    BY DEF ApprovedOnly
  <2>1. Licensed(x.job, <<x.by, x.n>>, yes)
    BY DEF Inv, TurnInv, Backed
  <2>2. mode \in {"off", "prompt", "auto"}
    BY TurnAssumption DEF Inv, TurnInv, Typed, mode
  <2> QED BY <2>1, <2>2 DEF Licensed, ModeFor
<1> QED BY <1>1, Invariant, PTL

(* A mutating call finds the lease of its turn marked when it reaches the  *)
(* tool, and ever after (mark_unsafe before the call).                     *)
THEOREM LeaseMarkedFirst == Spec => []MarkedFirst
<1>1. Inv => MarkedFirst
  BY DEF Inv, TurnInv, Backed, MarkedFirst
<1> QED BY <1>1, Invariant, PTL

(* The bridge queues a message again only if no call of it was, or will    *)
(* be, carried out: record_failure trusts the mark of the lease.           *)
THEOREM RequeuedUntouched == Spec => []RequeuedHasNoEffect
<1>1. Inv => RequeuedHasNoEffect
  <2> SUFFICES ASSUME Inv, AllBridged, NEW t \in Turns, turn[t].requeued, NEW x \in ran,
                      x.origin = t
               PROVE  FALSE
    BY DEF RequeuedHasNoEffect
  <2>1. turn[t].phase = "safe"
    BY DEF Inv, TurnInv, Sound
  <2>2. x.by = t /\ Mutates(x.job)
    BY DEF Inv, BridgeInv
  <2>3. turn[t].phase = "unsafe"
    BY <2>2 DEF Inv, TurnInv, Backed
  <2> QED BY <2>1, <2>3
<1> QED BY <1>1, Invariant, PTL

(* The turns of the bridge carry out their own calls and take their own    *)
(* replies, though all speak through one pair of pipes.                    *)
THEOREM OnlyOwnWork == Spec => []OwnWorkOnly
<1>1. Inv => OwnWorkOnly
  BY DEF Inv, BridgeInv, OwnWorkOnly
<1> QED BY <1>1, Invariant, PTL

(* What is carried out was sent.                                           *)
LEMMA RunsAreSent ==
  ASSUME [Next]_vars
  PROVE  ran' = ran \/ \E x \in sent : ran' \subseteq ran \cup {x}
<1>1. CASE Environment
  <2>1. CASE \E x \in sent : ToolRuns(x)
    BY <2>1 DEF ToolRuns
  <2>2. CASE PluginStep \/ PluginDies \/ ListApprovals
    BY <2>2 DEF PluginStep, PluginDies, ListApprovals, history
  <2>3. CASE \E c \in gate.open :
               \/ LapseChallenge(c)
               \/ \E verdict \in {"approve", "deny"} :
                    \/ PressLocal(c, verdict)
                    \/ \E chat \in Turns, allowed \in BOOLEAN : Press(c, chat, allowed, verdict)
    BY <2>3 DEF LapseChallenge, PressLocal, Press, history
  <2>4. CASE \E t \in Turns : MarkCancel(t) \/ RequestCancel(t)
    BY <2>4 DEF MarkCancel, RequestCancel, history
  <2> QED BY <1>1, <2>1, <2>2, <2>3, <2>4 DEF Environment
<1>2. ASSUME NEW t \in Turns, Turn(t) PROVE ran' = ran
  <2>1. CASE Start(t) \/ Ask(t) \/ AskAgain(t)
    BY <2>1 DEF Start, Ask, AskAgain, history
  <2>2. CASE ReadEnd(t) \/ ReadBroken(t) \/ ReadOther(t) \/ ReadRefusal(t) \/ ReadReply(t)
    BY <2>2 DEF ReadEnd, ReadBroken, ReadOther, ReadRefusal, ReadReply, history
  <2>3. CASE \E o \in Offers(t) : Refuse(t, o) \/ Admit(t, o)
    BY <2>3 DEF Refuse, Admit, history
  <2>4. CASE Posted(t) \/ WaitOver(t) \/ WaitBroken(t)
    BY <2>4 DEF Posted, WaitOver, WaitBroken, history
  <2>5. CASE Approved(t) \/ Denied(t) \/ Withdrawn(t)
    BY <2>5 DEF Approved, Denied, Withdrawn, history
  <2>6. CASE CallTool(t) \/ ToolReturns(t) \/ ToolBreaks(t)
    BY <2>6 DEF CallTool, ToolReturns, ToolBreaks, history
  <2>7. CASE SeesCancel(t) \/ TimesOut(t) \/ ProviderTimesOut(t) \/ ClientGone(t)
    BY <2>7 DEF SeesCancel, TimesOut, ProviderTimesOut, ClientGone, history
  <2>8. CASE \/ FailTerminal(t) \/ FailChannel(t) \/ RestartTools(t) \/ RecordFailure(t)
             \/ Recover(t) \/ Clear(t) \/ Cleared(t)
    BY <2>8 DEF FailTerminal, FailChannel, RestartTools, RecordFailure, Recover, Clear,
                Cleared, history
  <2> QED BY <1>2, <2>1, <2>2, <2>3, <2>4, <2>5, <2>6, <2>7, <2>8 DEF Turn
<1>3. CASE UNCHANGED vars
  BY <1>3 DEF vars, history
<1> QED BY <1>1, <1>2, <1>3 DEF Next

(* Nothing of a turn of the bridge is carried out after the client that    *)
(* cancelled it was told so: the tool was restarted before                 *)
(* (the cancellation path of the channel worker).                          *)
THEOREM NothingAfterCancel == Spec => CancelledStops
<1>1. Inv /\ [Next]_vars =>
        [AllBridged => \A x \in ran' \ ran : turn[x.origin].cancel # "acked"]_vars
  <2> SUFFICES ASSUME Inv, [Next]_vars, AllBridged, NEW x \in ran' \ ran
               PROVE  turn[x.origin].cancel # "acked"
    OBVIOUS
  <2>1. x \in sent
    BY RunsAreSent
  <2>2. x.by = x.origin /\ turn[x.by].cancel # "acked"
    BY <2>1 DEF Inv, BridgeInv
  <2> QED BY <2>2
<1> QED BY <1>1, Invariant, PTL DEF Spec, CancelledStops
-----------------------------------------------------------------------------
(* Turns of any kind, side by side, whose provider calls are not dropped.  *)

(* A turn ends, or its client is gone, while the provider owes it a reply. *)
CallDropped ==
  \E t \in Turns :
    Holds(t) /\ (SeesCancel(t) \/ TimesOut(t) \/ ProviderTimesOut(t) \/ ClientGone(t))

OwnWork == took = {} /\ \A x \in ran : x.by = x.origin

(* The turns take the provider one after the other, and leave nothing in   *)
(* the pipes of a process that can still be asked.                         *)
OneReader ==
  /\ \A t, u \in Turns : Reads(turn[t]) /\ Reads(turn[u]) => t = u
  /\ \A t \in Turns : Reads(turn[t]) => OneRequest(p, t, turn[t].wire)
  /\ (\A t \in Turns : ~Reads(turn[t])) => Empty(p) \/ ~p.up

Separate ==
  /\ OneReader /\ OwnWork
  /\ \A t \in Turns : turn[t].origin = t /\ turn[t].from = t
  /\ \A x \in sent : x.by = x.origin

LEMMA HoldsIs ==
  ASSUME NEW t \in Turns
  PROVE  Holds(t) <=> Reads(turn[t])
BY DEF Holds, Reads, Calling

(* One turn moves.                                                         *)
LEMMA SeparateKept ==
  ASSUME Inv, Separate, NEW t \in Turns, NEW x, turn' = [turn EXCEPT ![t] = x],
         x.origin = t, x.from = t,
         \/ /\ p' = p /\ (Reads(x) <=> Reads(turn[t])) /\ x.wire = turn[t].wire
         \/ /\ p' = p /\ ~Reads(x) /\ ~Reads(turn[t])
         \/ /\ \A u \in Turns : u # t => ~Reads(turn[u])
            /\ Reads(x) => OneRequest(p', t, x.wire)
            /\ ~Reads(x) => Empty(p') \/ ~p'.up,
         \A c \in sent' \ sent : c.by = c.origin,
         UNCHANGED <<ran, took>>
  PROVE  Separate'
<1>1. turn'[t] = x /\ \A u \in Turns : u # t => turn'[u] = turn[u]
  BY DEF Inv, TurnInv, Typed
<1>2. OneReader'
  BY <1>1 DEF Separate, OneReader
<1>3. /\ OwnWork' /\ \A c \in sent' : c.by = c.origin
      /\ \A u \in Turns : turn'[u].origin = u /\ turn'[u].from = u
  BY <1>1 DEF Separate, OwnWork
<1> QED BY <1>2, <1>3 DEF Separate

(* What the reader finds.                                                  *)
LEMMA ReaderHas ==
  ASSUME Separate, NEW t \in Turns
  PROVE  /\ turn[t].origin = t /\ turn[t].from = t
         /\ Reads(turn[t]) => /\ OneRequest(p, t, turn[t].wire)
                              /\ \A u \in Turns : u # t => ~Reads(turn[u])
BY DEF Separate, OneReader

(* The turn does not read, before or after.                                *)
LEMMA AsideKeeps ==
  ASSUME Inv, Separate, NEW t \in Turns, NEW x, turn' = [turn EXCEPT ![t] = x],
         x.origin = t, x.from = t, ~Reads(turn[t]), ~Reads(x), p' = p,
         sent' \subseteq sent, UNCHANGED <<ran, took>>
  PROVE  Separate'
BY SeparateKept

(* The turn is left, having read all there is, or with nothing to read.    *)
LEMMA LeftSeparate ==
  ASSUME Inv, Separate, NEW t \in Turns, NEW r, Live(r), NEW s \in Stages \ ({"reading"} \cup Calling),
         turn' = [turn EXCEPT ![t] = Left(t, r, s)],
         \/ p' = p /\ ~Reads(turn[t])
         \/ Reads(turn[t]) /\ (Empty(p') \/ ~p'.up),
         sent' \subseteq sent, UNCHANGED <<ran, took>>
  PROVE  Separate'
<1> DEFINE x == Left(t, r, s)
<1>1. x.origin = t /\ x.from = t /\ x.stage = s
  BY LeftIs
<1> HIDE DEF x
<1>2. ~Reads(x)
  BY <1>1 DEF Reads
<1>3. turn' = [turn EXCEPT ![t] = x]
  BY DEF x
<1>4. CASE p' = p /\ ~Reads(turn[t])
  BY <1>1, <1>2, <1>3, <1>4, AsideKeeps
<1>5. CASE Reads(turn[t]) /\ (Empty(p') \/ ~p'.up)
  <2>1. \A u \in Turns : u # t => ~Reads(turn[u])
    BY <1>5, ReaderHas
  <2> QED BY <1>1, <1>2, <1>3, <1>5, <2>1, SeparateKept
<1> QED BY <1>4, <1>5

LEMMA AckedSeparate ==
  ASSUME Inv, Separate, NEW t \in Turns, Live(turn[t]), Acked(t), p' = p, ~Reads(turn[t]),
         sent' \subseteq sent, UNCHANGED <<ran, took>>
  PROVE  Separate'
<1> DEFINE x == AckedRec(t, turn[t])
<1>1. x.stage = "over" /\ x.origin = t /\ x.from = t
  BY AckedIs
<1>2. turn' = [turn EXCEPT ![t] = x]
  BY DEF Acked, AckedRec
<1> HIDE DEF x
<1>3. ~Reads(x)
  BY <1>1 DEF Reads, Calling
<1> QED BY <1>1, <1>2, <1>3, AsideKeeps

(* The stage changes, and nothing in the process.                          *)
LEMMA StagedSeparate ==
  ASSUME Inv, Separate, NEW t \in Turns, NEW s \in Stages, To(t, s),
         \/ p' = p /\ ~Reads(turn[t]) /\ s \notin {"reading"} \cup Calling
         \/ p' = p /\ turn[t].stage \in Calling /\ s \in Calling
         \/ ProviderFree /\ Empty(p') /\ s \notin {"reading"} \cup Calling,
         \A c \in sent' \ sent : c.by = c.origin, UNCHANGED <<ran, took>>
  PROVE  Separate'
<1> DEFINE x == Staged(turn[t], s)
<1>1. turn[t] \in TurnRec /\ turn[t].origin = t /\ turn[t].from = t
  BY Here, ReaderHas
<1>2. x.stage = s /\ x.via = turn[t].via /\ x.origin = t /\ x.from = t /\ x.wire = turn[t].wire
  BY <1>1, StagedIs
<1>3. turn' = [turn EXCEPT ![t] = x]
  BY DEF To, Staged
<1> HIDE DEF x
<1>4. CASE p' = p /\ ~Reads(turn[t]) /\ s \notin {"reading"} \cup Calling
  <2>1. ~Reads(x)
    BY <1>2, <1>4 DEF Reads
  <2> QED BY <1>2, <1>3, <1>4, <2>1, SeparateKept
<1>5. CASE p' = p /\ turn[t].stage \in Calling /\ s \in Calling
  <2>1. Reads(x) <=> Reads(turn[t])
    BY <1>2, <1>5 DEF Reads, Calling
  <2> QED BY <1>2, <1>3, <1>5, <2>1, SeparateKept
<1>6. CASE ProviderFree /\ Empty(p') /\ s \notin {"reading"} \cup Calling
  <2>1. ~Reads(x) /\ \A u \in Turns : u # t => ~Reads(turn[u])
    BY <1>2, <1>6, HoldsIs DEF Reads, ProviderFree
  <2> QED BY <1>2, <1>3, <1>6, <2>1, SeparateKept
<1> QED BY <1>4, <1>5, <1>6

(* The same work, with another wait or mark.                               *)
LEMMA SameWorkSeparate ==
  ASSUME Inv, Separate, NEW t \in Turns, NEW x, SameWork(turn[t], x),
         turn' = [turn EXCEPT ![t] = x], UNCHANGED <<p, sent, ran, took>>
  PROVE  Separate'
<1>1. x.origin = t /\ x.from = t /\ x.wire = turn[t].wire /\ (Reads(x) <=> Reads(turn[t]))
  BY ReaderHas DEF SameWork, Reads
<1> QED BY <1>1, SeparateKept

-----------------------------------------------------------------------------
(* A result goes back.                                                     *)
LEMMA GiveBackSeparate ==
  ASSUME Inv, Separate, NEW t \in Turns, NEW r, Live(r), r.origin = t, r.from = t,
         NEW q \in ProcessRec, NEW emit \in Nat, NEW ok \in BOOLEAN,
         ok /\ r.via = "loop" => r.plan # <<>>,
         r.via = "host" => Reads(turn[t]) /\ OneRequest(q, t, r.wire),
         r.via # "host" => ~Reads(turn[t]) /\ q = p,
         GiveBack(t, r, emit, ok, q), sent' \subseteq sent, UNCHANGED <<ran, took>>
  PROVE  Separate'
<1>0. r \in TurnRec /\ r.via \in {"host", "loop"} /\ r.wire \in Nat
  BY DEF Live, TurnRec
<1>1. CASE p' = q /\ turn' = [turn EXCEPT ![t] = Left(t, r, "failing")] /\ (r.via = "host" => ~q.up)
  <2>1. "failing" \in Stages \ ({"reading"} \cup Calling)
    BY DEF Stages, Calling
  <2> QED BY <1>0, <1>1, <2>1, LeftSeparate
<1>2. CASE /\ r.via = "host" /\ p' = HostWrites(q, Answer(emit))
           /\ turn' = [turn EXCEPT ![t] = [r EXCEPT !.stage = "reading"]]
  <2> DEFINE x == Staged(r, "reading")
  <2>1. "reading" \in Stages
    BY DEF Stages
  <2>2. x.stage = "reading" /\ x.origin = t /\ x.from = t /\ x.wire = r.wire
    BY <1>0, <2>1, StagedIs
  <2>3. turn' = [turn EXCEPT ![t] = x]
    BY <1>2 DEF Staged
  <2>4. OneRequest(p', t, r.wire)
    BY <1>0, <1>2, AnswerWrites
  <2> HIDE DEF x
  <2>5. Reads(x) /\ \A u \in Turns : u # t => ~Reads(turn[u])
    BY <1>2, <2>2, ReaderHas DEF Reads
  <2> QED BY <2>2, <2>3, <2>4, <2>5, SeparateKept
<1>3. CASE /\ r.via = "loop" /\ ok /\ p' = q
           /\ turn' = [turn EXCEPT ![t] = [r EXCEPT !.stage = "picking", !.plan = Tail(@), !.wire = @ + 1]]
  <2> DEFINE x == NextCall(r)
  <2>1. x.stage = "picking" /\ x.origin = t /\ x.from = t
    BY <1>3, NextCallIs
  <2>2. turn' = [turn EXCEPT ![t] = x]
    BY <1>3 DEF NextCall
  <2> HIDE DEF x
  <2>3. ~Reads(x)
    BY <2>1 DEF Reads, Calling
  <2> QED BY <1>3, <2>1, <2>2, <2>3, AsideKeeps
<1> QED BY <1>0, <1>1, <1>2, <1>3 DEF GiveBack

-----------------------------------------------------------------------------
(* The steps of a turn.                                                    *)

LEMMA AskSeparate ==
  ASSUME Inv, Separate, NEW t \in Turns, Ask(t)
  PROVE  Separate'
<1>1. /\ turn[t].stage = "waiting" /\ Live(turn[t]) /\ turn[t] \in TurnRec /\ turn[t].wire \in Nat
      /\ p \in ProcessRec /\ UNCHANGED <<sent, ran, took>> /\ ~Reads(turn[t])
      /\ turn[t].origin = t /\ turn[t].from = t
  BY EnteredLive, Here, ReaderHas DEF Ask, Entered, InTurn, history, Reads, Calling, TurnRec
<1>2. \A u \in Turns : ~Reads(turn[u])
  BY HoldsIs DEF Ask, ProviderFree
<1>3. CASE p.up
  <2> DEFINE x == Staged(turn[t], "reading")
  <2>1. Empty(p)
    BY <1>2, <1>3 DEF Separate, OneReader
  <2>2. "reading" \in Stages
    BY DEF Stages
  <2>3. x.stage = "reading" /\ x.origin = t /\ x.from = t /\ x.wire = turn[t].wire
    BY <1>1, <2>2, StagedIs
  <2>4. turn' = [turn EXCEPT ![t] = x] /\ p' = HostWrites(p, Request(turn[t].wire, t))
    BY <1>3 DEF Ask, To, Staged
  <2>5. OneRequest(p', t, turn[t].wire)
    BY <1>1, <2>1, <2>4, AskWrites
  <2> HIDE DEF x
  <2>6. Reads(x)
    BY <2>3 DEF Reads
  <2> QED BY <1>1, <1>2, <2>3, <2>4, <2>5, <2>6, SeparateKept
<1>4. CASE ~p.up
  <2>1. "failing" \in Stages \ ({"reading"} \cup Calling)
    BY DEF Stages, Calling
  <2> QED BY <1>1, <1>4, <2>1, LeftSeparate DEF Ask, Leave
<1> QED BY <1>3, <1>4

LEMMA ReadSeparate ==
  ASSUME Inv, Separate, NEW t \in Turns,
         ReadEnd(t) \/ ReadBroken(t) \/ ReadOther(t) \/ ReadRefusal(t)
  PROVE  Separate'
<1>1. /\ turn[t].stage = "reading" /\ Reads(turn[t])
      /\ OneRequest(p, t, turn[t].wire) /\ Live(turn[t]) /\ p \in ProcessRec
  BY ReadingHere, ReaderHas DEF ReadEnd, ReadBroken, ReadOther, ReadRefusal, Reading, Reads
<1>2. ~ReadBroken(t) /\ ~ReadOther(t)
  BY <1>1, ReadingFrame, Heads DEF ReadBroken, ReadOther
<1>3. UNCHANGED <<sent, ran, took>> /\ Leave(t, "failing")
  BY <1>2 DEF ReadEnd, ReadRefusal, history
<1>4. ReadEnd(t) => ~p'.up
  <2>1. p.stdout # <<>> => Head(p.stdout).kind # "end"
    BY <1>1, Heads DEF OutFrame
  <2> QED BY <2>1 DEF ReadEnd, Reading
<1>5. ReadRefusal(t) => Empty(p')
  BY <1>1, ReadingFrame, FinalRead DEF ReadRefusal
<1>6. "failing" \in Stages \ ({"reading"} \cup Calling)
  BY DEF Stages, Calling
<1> QED BY <1>1, <1>2, <1>3, <1>4, <1>5, <1>6, LeftSeparate DEF Leave

LEMMA ReadReplySeparate ==
  ASSUME Inv, Separate, NEW t \in Turns, ReadReply(t)
  PROVE  Separate'
<1> DEFINE f == Head(p.stdout)
           plan == KeepOneMutation(f.plan)
<1>1. /\ turn[t].stage = "reading" /\ p.stdout # <<>> /\ f.kind = "reply" /\ f \in OutFrame
      /\ p' = HostReads(p) /\ UNCHANGED <<sent, ran>>
      /\ took' = IF f.origin = t THEN took ELSE took \cup {<<t, f.origin>>}
  BY ReadingFrame DEF ReadReply
<1>2. /\ Reads(turn[t]) /\ OneRequest(p, t, turn[t].wire) /\ Live(turn[t]) /\ p \in ProcessRec
      /\ turn[t].origin = t /\ \A u \in Turns : u # t => ~Reads(turn[u])
  BY <1>1, ReadingHere, ReaderHas DEF Reads
<1>3. f.origin = t /\ Empty(p') /\ took' = took
  BY <1>1, <1>2, Heads, FinalRead
<1>4. plan \in Seq(Jobs)
  <2>1. f.plan \in Seq(Jobs)
    BY <1>1 DEF OutFrame
  <2> QED BY <2>1, KeptPlan
<1>5. ASSUME NEW s \in {"failing", "over"}, Leave(t, s) PROVE Separate'
  <2>1. s \in Stages \ ({"reading"} \cup Calling)
    BY <1>5 DEF Stages, Calling
  <2> QED BY <1>1, <1>2, <1>3, <1>5, <2>1, LeftSeparate DEF Leave
<1>6. CASE /\ turn[t].step # ToolSteps
           /\ turn' = [turn EXCEPT ![t] = PickingRec(turn[t], plan, f.origin)]
  <2> DEFINE x == PickingRec(turn[t], plan, t)
  <2>1. x.stage = "picking" /\ x.origin = t /\ x.from = t
    BY <1>2, <1>4, <1>6, PickingIs
  <2>2. turn' = [turn EXCEPT ![t] = x]
    BY <1>3, <1>6
  <2> HIDE DEF x, f
  <2>3. ~Reads(x)
    BY <2>1 DEF Reads, Calling
  <2> QED BY <1>1, <1>2, <1>3, <2>1, <2>2, <2>3, SeparateKept
<1>7. Leave(t, "failing") \/ Leave(t, "over")
      \/ (/\ turn[t].step # ToolSteps
          /\ turn' = [turn EXCEPT ![t] = PickingRec(turn[t], plan, f.origin)])
  BY DEF ReadReply, PickingRec
<1> QED BY <1>5, <1>6, <1>7

LEMMA OffersSeparate ==
  ASSUME Inv, Separate, NEW t \in Turns, NEW o \in Offers(t)
  PROVE  /\ o.origin = t
         /\ \/ /\ o.via = "host" /\ Reads(turn[t])
               /\ OneRequest(Consumed(o.via), t, turn[t].wire)
            \/ o.via = "loop" /\ ~Reads(turn[t]) /\ Consumed(o.via) = p
<1>1. CASE Reading(t, "call")
  <2>1. o.via = "host" /\ o.origin = Head(p.stdout).origin
    BY <1>1 DEF Offers
  <2>2. /\ Reads(turn[t]) /\ p.stdout # <<>> /\ Head(p.stdout).kind = "call"
        /\ p \in ProcessRec
    BY <1>1, ReadingFrame, Here DEF Reads
  <2>3. OneRequest(p, t, turn[t].wire)
    BY <2>2, ReaderHas
  <2> QED BY <2>1, <2>2, <2>3, Heads, CallRead DEF Consumed
<1>2. CASE ~Reading(t, "call") /\ turn[t].stage = "picking" /\ turn[t].plan # <<>>
  <2>1. o.via = "loop" /\ o.origin = turn[t].from
    BY <1>2 DEF Offers
  <2> QED BY <1>2, <2>1, ReaderHas DEF Reads, Calling, Consumed
<1> QED BY <1>1, <1>2 DEF Offers

LEMMA RefuseSeparate ==
  ASSUME Inv, Separate, NEW t \in Turns, NEW o \in Offers(t), Refuse(t, o)
  PROVE  Separate'
<1> DEFINE r == RefusedRec(turn[t], o.via)
           q == Consumed(o.via)
<1>1. o.emit \in Nat /\ q \in ProcessRec /\ InTurn(t) /\ turn[t].stage # "recovering"
  BY OffersAre DEF Offered
<1>2. /\ Live(turn[t]) /\ o.via \in {"host", "loop"} /\ turn[t].origin = t /\ turn[t].from = t
      /\ \/ o.via = "host" /\ Reads(turn[t]) /\ OneRequest(q, t, turn[t].wire)
         \/ o.via = "loop" /\ ~Reads(turn[t]) /\ q = p
  BY <1>1, EnteredLive, OffersSeparate, ReaderHas DEF Entered
<1>3. Live(r) /\ r.via = o.via /\ r.origin = t /\ r.from = t /\ r.wire = turn[t].wire
  BY <1>2, RefusedIs
<1>4. GiveBack(t, r, o.emit, FALSE, q) /\ UNCHANGED <<sent, ran, took>>
  BY DEF Refuse, RefusedRec, history
<1> HIDE DEF r, q
<1> QED BY <1>1, <1>2, <1>3, <1>4, GiveBackSeparate

LEMMA AdmitSeparate ==
  ASSUME Inv, Separate, NEW t \in Turns, NEW o \in Offers(t), Admit(t, o)
  PROVE  Separate'
<1>1. /\ InTurn(t) /\ turn[t].stage # "recovering" /\ o.job \in Jobs /\ o.emit \in Nat
      /\ o.via \in {"host", "loop"} /\ o.origin \in Turns
  BY OffersAre DEF Offered
<1>2. /\ Live(turn[t]) /\ o.origin = t /\ turn[t].from = t
      /\ \/ o.via = "host" /\ Reads(turn[t]) /\ OneRequest(Consumed(o.via), t, turn[t].wire)
         \/ o.via = "loop" /\ ~Reads(turn[t]) /\ Consumed(o.via) = p
  BY <1>1, EnteredLive, OffersSeparate, ReaderHas DEF Entered
<1>3. p' = Consumed(o.via) /\ UNCHANGED <<sent, ran, took>>
  BY DEF Admit, history
<1>4. ASSUME NEW x, x.stage \in Calling, x.via = o.via, x.wire = turn[t].wire, x.origin = t,
             x.from = t, turn' = [turn EXCEPT ![t] = x]
      PROVE  Separate'
  <2>1. CASE o.via = "host"
    <3>1. Reads(x) /\ \A u \in Turns : u # t => ~Reads(turn[u])
      BY <1>2, <1>4, <2>1, ReaderHas DEF Reads
    <3> QED BY <1>2, <1>3, <1>4, <2>1, <3>1, SeparateKept
  <2>2. CASE o.via = "loop"
    <3>1. ~Reads(x)
      BY <1>4, <2>2 DEF Reads, Calling
    <3> QED BY <1>2, <1>3, <1>4, <2>2, <3>1, AsideKeeps
  <2> QED BY <1>1, <2>1, <2>2
<1>5. CASE NeedsApproval(o.job)
  <2> DEFINE r == Taken(t, o, "gate")
             w == IF kind[t] = "channel" THEN "posting" ELSE "no"
             x == WaitRec(r, w)
  <2>1. "gate" \in Stages /\ "gate" \in Calling
    BY DEF Stages, Calling
  <2>2. /\ r \in TurnRec /\ r.stage = "gate" /\ r.via = o.via /\ r.wire = turn[t].wire
        /\ r.origin = t /\ r.from = t
    BY <1>1, <1>2, <2>1, TakenIs
  <2>3. turn' = [turn EXCEPT ![t] = x]
    BY <1>5 DEF Admit, WaitRec
  <2>4. w \in {"no", "posting"}
    OBVIOUS
  <2> HIDE DEF r, w
  <2>5. x.stage = "gate" /\ x.via = o.via /\ x.wire = turn[t].wire /\ x.origin = t /\ x.from = t
    BY <2>2, <2>4 DEF WaitRec, TurnRec
  <2> HIDE DEF x
  <2> QED BY <1>4, <2>1, <2>3, <2>5
<1>6. CASE ~NeedsApproval(o.job)
  <2> DEFINE r == Taken(t, o, "ready")
             x == Marked(r)
  <2>1. "ready" \in Stages /\ "ready" \in Calling
    BY DEF Stages, Calling
  <2>2. /\ Live(r) /\ r.stage = "ready" /\ r.via = o.via /\ r.wire = turn[t].wire
        /\ r.origin = t /\ r.from = t
    BY <1>1, <1>2, <2>1, TakenIs
  <2>3. turn' = [turn EXCEPT ![t] = x]
    BY <1>6 DEF Admit
  <2> HIDE DEF r
  <2>4. x.stage = "ready" /\ x.via = o.via /\ x.wire = turn[t].wire /\ x.origin = t /\ x.from = t
    BY <2>2, MarkedIs
  <2> HIDE DEF x
  <2> QED BY <1>4, <2>1, <2>3, <2>4
<1> QED BY <1>5, <1>6

LEMMA ResultSeparate ==
  ASSUME Inv, Separate, NEW t \in Turns, Denied(t) \/ Withdrawn(t) \/ ToolReturns(t) \/ ToolBreaks(t)
  PROVE  Separate'
<1>1. /\ turn[t].stage \in Calling /\ sent' \subseteq sent /\ UNCHANGED <<ran, took>>
      /\ \E b, ok \in BOOLEAN : \/ GiveBack(t, turn[t], turn[t].emit, ok, p)
                                \/ GiveBack(t, BrokenRec(turn[t], b), turn[t].emit, ok, p)
  BY DEF Denied, Withdrawn, ToolReturns, ToolBreaks, AtGate, Calling, BrokenRec, history
<1>2. PICK b, ok \in BOOLEAN : \/ GiveBack(t, turn[t], turn[t].emit, ok, p)
                               \/ GiveBack(t, BrokenRec(turn[t], b), turn[t].emit, ok, p)
  BY <1>1
<1>3. PICK r \in {turn[t], BrokenRec(turn[t], b)} : GiveBack(t, r, turn[t].emit, ok, p)
  BY <1>2
<1>4. /\ Live(turn[t]) /\ p \in ProcessRec /\ turn[t].emit \in Nat
      /\ turn[t].via = "loop" => turn[t].plan # <<>>
      /\ turn[t].origin = t /\ turn[t].from = t
      /\ turn[t].via = "host" => Reads(turn[t]) /\ OneRequest(p, t, turn[t].wire)
      /\ turn[t].via # "host" => ~Reads(turn[t])
  BY <1>1, CallingHere, ReaderHas DEF Reads, Calling
<1>5. /\ Live(r) /\ r.via = turn[t].via /\ r.wire = turn[t].wire /\ r.plan = turn[t].plan
      /\ r.origin = t /\ r.from = t
  BY <1>4, BrokenIs
<1> QED BY <1>1, <1>3, <1>4, <1>5, GiveBackSeparate

LEMMA ApprovedSeparate ==
  ASSUME Inv, Separate, NEW t \in Turns, Approved(t)
  PROVE  Separate'
<1>1. turn[t].stage = "gate" /\ turn[t].stage \in Calling /\ UNCHANGED <<sent, ran, took>>
  BY DEF Approved, AtGate, Calling, history
<1>2. /\ Live(turn[t]) /\ turn[t] \in TurnRec /\ p \in ProcessRec /\ turn[t].emit \in Nat
      /\ turn[t].via = "loop" => turn[t].plan # <<>>
      /\ turn[t].origin = t /\ turn[t].from = t
      /\ turn[t].via = "host" => Reads(turn[t]) /\ OneRequest(p, t, turn[t].wire)
      /\ turn[t].via # "host" => ~Reads(turn[t])
  BY <1>1, CallingHere, ReaderHas DEF Reads, Calling
<1>3. CASE GiveBack(t, turn[t], turn[t].emit, FALSE, p)
  BY <1>1, <1>2, <1>3, GiveBackSeparate
<1>4. CASE turn' = [turn EXCEPT ![t] = Marked(Staged(turn[t], "ready"))] /\ p' = p
  <2> DEFINE r == Staged(turn[t], "ready")
             x == Marked(r)
  <2>1. "ready" \in Stages
    BY DEF Stages
  <2>2. /\ Live(r) /\ r.stage = "ready" /\ r.via = turn[t].via /\ r.wire = turn[t].wire
        /\ r.origin = t /\ r.from = t
    BY <1>2, <2>1, StagedIs DEF Live
  <2> HIDE DEF r
  <2>3. /\ x.stage = "ready" /\ x.via = turn[t].via /\ x.wire = turn[t].wire
        /\ x.origin = t /\ x.from = t
    BY <2>2, MarkedIs
  <2>4. turn' = [turn EXCEPT ![t] = x]
    BY <1>4 DEF r
  <2> HIDE DEF x
  <2>5. Reads(x) <=> Reads(turn[t])
    BY <1>1, <2>3 DEF Reads, Calling
  <2> QED BY <1>1, <1>4, <2>3, <2>4, <2>5, SeparateKept
<1> QED BY <1>3, <1>4 DEF Approved, Staged

LEMMA MoveSeparate ==
  ASSUME Inv, Separate, NEW t \in Turns,
         Start(t) \/ AskAgain(t) \/ FailChannel(t) \/ Recover(t) \/ Clear(t)
  PROVE  Separate'
<1>1. UNCHANGED <<sent, ran, took>>
  BY DEF Start, AskAgain, FailChannel, Recover, Clear, history
<1>2. CASE Start(t) \/ AskAgain(t) \/ FailChannel(t)
  <2>1. p' = p /\ ~Reads(turn[t])
    BY <1>2 DEF Start, AskAgain, FailChannel, Reads, Calling
  <2>2. PICK s \in {"waiting", "failed", "clearing"} : To(t, s)
    BY <1>2 DEF Start, AskAgain, FailChannel
  <2>3. s \in Stages /\ s \notin {"reading"} \cup Calling
    BY DEF Stages, Calling
  <2> QED BY <1>1, <2>1, <2>2, <2>3, StagedSeparate
<1>3. CASE Recover(t) \/ Clear(t)
  <2>1. ProviderFree /\ Empty(p')
    BY <1>3, RestartedType DEF Recover, Clear
  <2>2. PICK s \in {"over", "recovering", "stopping"} : To(t, s)
    BY <1>3 DEF Recover, Clear
  <2>3. s \in Stages /\ s \notin {"reading"} \cup Calling
    BY DEF Stages, Calling
  <2> QED BY <1>1, <2>1, <2>2, <2>3, StagedSeparate
<1> QED BY <1>2, <1>3

LEMMA CallToolSeparate ==
  ASSUME Inv, Separate, NEW t \in Turns, CallTool(t)
  PROVE  Separate'
<1>1. /\ turn[t].stage \in Calling /\ "called" \in Calling /\ "called" \in Stages
      /\ To(t, "called") /\ p' = p /\ sent' = sent \cup {Call(t)} /\ UNCHANGED <<ran, took>>
  BY DEF CallTool, Calling, Stages, history
<1>2. Call(t).by = Call(t).origin
  BY Here, ReaderHas, CallIs
<1>3. \A c \in sent' \ sent : c.by = c.origin
  BY <1>1, <1>2
<1> QED BY <1>1, <1>3, StagedSeparate

LEMMA MarkSeparate ==
  ASSUME Inv, Separate, NEW t \in Turns,
         Posted(t) \/ WaitOver(t) \/ WaitBroken(t) \/ MarkCancel(t) \/ RequestCancel(t)
  PROVE  Separate'
<1>1. UNCHANGED <<p, sent, ran, took>> /\ turn[t] \in TurnRec
  BY Here DEF Posted, WaitOver, WaitBroken, MarkCancel, RequestCancel, history
<1>2. CASE Posted(t) \/ WaitOver(t) \/ WaitBroken(t)
  <2>1. PICK w \in {"no", "polling"} : SetWait(t, w)
    BY <1>2 DEF Posted, WaitOver, WaitBroken
  <2> DEFINE x == [turn[t] EXCEPT !.wait = w]
  <2>2. SameWork(turn[t], x)
    BY <1>1, WaitIs
  <2>3. turn' = [turn EXCEPT ![t] = x]
    BY <2>1 DEF SetWait
  <2> HIDE DEF x
  <2> QED BY <1>1, <2>2, <2>3, SameWorkSeparate
<1>3. CASE MarkCancel(t) \/ RequestCancel(t)
  <2>1. PICK c \in {"marked", "asked"} : turn' = [turn EXCEPT ![t].cancel = c]
    BY <1>3 DEF MarkCancel, RequestCancel
  <2> DEFINE x == [turn[t] EXCEPT !.cancel = c]
  <2>2. SameWork(turn[t], x)
    BY <1>1, CancelIs
  <2>3. turn' = [turn EXCEPT ![t] = x]
    BY <2>1
  <2> HIDE DEF x
  <2> QED BY <1>1, <2>2, <2>3, SameWorkSeparate
<1> QED BY <1>2, <1>3

LEMMA FailedSeparate ==
  ASSUME Inv, Separate, NEW t \in Turns, RestartTools(t) \/ RecordFailure(t)
  PROVE  Separate'
<1>1. /\ turn[t].stage = "failed" /\ p' = p /\ sent' \subseteq sent /\ UNCHANGED <<ran, took>>
      /\ turn[t].origin = t /\ turn[t].from = t
  BY ReaderHas DEF RestartTools, RecordFailure, history
<1>2. Live(turn[t]) /\ ~Reads(turn[t])
  BY <1>1, EnteredLive DEF Entered, InTurn, Reads, Calling
<1>3. CASE RestartTools(t)
  <2> DEFINE x == BrokenRec(turn[t], FALSE)
  <2>1. x.stage = "failed" /\ x.origin = t /\ x.from = t
    BY <1>1, <1>2, BrokenIs
  <2>2. turn' = [turn EXCEPT ![t] = x]
    BY <1>3 DEF RestartTools, BrokenRec
  <2> HIDE DEF x
  <2>3. ~Reads(x)
    BY <2>1 DEF Reads, Calling
  <2> QED BY <1>1, <1>2, <2>1, <2>2, <2>3, AsideKeeps
<1>4. CASE RecordFailure(t)
  <2> DEFINE b == turn[t].phase = "safe"
             x == RecordedRec(turn[t], b)
  <2>1. b \in BOOLEAN /\ (b => turn[t].phase = "safe")
    OBVIOUS
  <2>2. turn' = [turn EXCEPT ![t] = x]
    BY <1>4 DEF RecordFailure, RecordedRec
  <2> HIDE DEF b
  <2>3. x.stage = "recovering" /\ x.origin = t /\ x.from = t
    BY <1>1, <1>2, <2>1, RecordedIs
  <2> HIDE DEF x
  <2>4. ~Reads(x)
    BY <2>3 DEF Reads, Calling
  <2> QED BY <1>1, <1>2, <2>2, <2>3, <2>4, AsideKeeps
<1> QED BY <1>3, <1>4

LEMMA EndSeparate ==
  ASSUME Inv, Separate, NEW t \in Turns, FailTerminal(t) \/ Cleared(t)
  PROVE  Separate'
<1>1. /\ turn[t].stage \in {"failing", "stopping"} /\ Acked(t) /\ p' = p /\ sent' \subseteq sent
      /\ UNCHANGED <<ran, took>>
  BY DEF FailTerminal, Cleared, history
<1>2. Live(turn[t]) /\ ~Reads(turn[t])
  BY <1>1, EnteredLive DEF Entered, InTurn, Reads, Calling
<1> QED BY <1>1, <1>2, AckedSeparate

(* A turn that is dropped while the provider owes it nothing.              *)
LEMMA DropSeparate ==
  ASSUME Inv, Separate, ~CallDropped, NEW t \in Turns,
         SeesCancel(t) \/ TimesOut(t) \/ ProviderTimesOut(t) \/ ClientGone(t)
  PROVE  Separate'
<1>1. ~Holds(t) /\ ~Reads(turn[t])
  BY HoldsIs DEF CallDropped
<1>2. ~ProviderTimesOut(t) /\ turn[t].stage \in Awaiting /\ Drop(t)
  BY <1>1 DEF ProviderTimesOut, SeesCancel, TimesOut, ClientGone
<1>3. p' = p
  BY <1>1, <1>2 DEF Drop, Reads
<1>4. Live(turn[t]) /\ UNCHANGED <<sent, ran, took>>
  BY <1>2, AwaitingIs DEF SeesCancel, TimesOut, ClientGone, history
<1>5. {"clearing", "failing", "over"} \subseteq Stages \ ({"reading"} \cup Calling)
  BY DEF Stages, Calling
<1>6. CASE Leave(t, "clearing") \/ Leave(t, "over")
  BY <1>1, <1>3, <1>4, <1>5, <1>6, LeftSeparate DEF Leave
<1>7. CASE Acked(t)
  BY <1>1, <1>3, <1>4, <1>7, AckedSeparate
<1>8. CASE TimesOut(t)
  <2> DEFINE b == turn[t].via = "loop" /\ turn[t].stage \in {"gate", "ready", "called"}
             r == BrokenRec(turn[t], b)
  <2>1. turn' = [turn EXCEPT ![t] = Left(t, r, "failing")]
    BY <1>8 DEF TimesOut, BrokenRec
  <2>2. b \in BOOLEAN
    OBVIOUS
  <2> HIDE DEF b
  <2>3. Live(r)
    BY <1>4, <2>2, BrokenIs
  <2> HIDE DEF r
  <2> QED BY <1>1, <1>3, <1>4, <1>5, <2>1, <2>3, LeftSeparate
<1> QED BY <1>2, <1>6, <1>7, <1>8 DEF SeesCancel, ClientGone

-----------------------------------------------------------------------------
(* The steps of the environment.                                           *)

LEMMA ProcessSeparate ==
  ASSUME Inv, Separate, UNCHANGED <<turn, sent, ran, took>>,
         Empty(p) \/ ~p.up => Empty(p') \/ ~p'.up,
         \A t \in Turns, wire \in Nat : OneRequest(p, t, wire) => OneRequest(p', t, wire)
  PROVE  Separate'
<1>1. \A t \in Turns : turn[t].wire \in Nat
  BY Here DEF TurnRec
<1>2. OneReader'
  BY <1>1 DEF Separate, OneReader
<1> QED BY <1>2 DEF Separate, OwnWork

LEMMA PluginSeparate ==
  ASSUME Inv, Separate, PluginStep \/ PluginDies
  PROVE  Separate'
<1>0. /\ p \in ProcessRec /\ setup.asks \subseteq Jobs /\ setup.plans \subseteq Seq(Jobs) /\ p.up
      /\ UNCHANGED <<turn, sent, ran, took>>
  BY TurnAssumption DEF Inv, TurnInv, Typed, PluginStep, PluginDies, history
<1>1. (p.stdin # <<>> /\ p' = PluginReads(p)) \/ WorkerMoves(p, p') \/ p' = Dead
  BY <1>0 DEF PluginStep, PluginDies, WorkerMoves
<1>2. CASE p.stdin # <<>> /\ p' = PluginReads(p)
  <2>1. Empty(p) => Empty(p')
    BY <1>0, <1>2, PluginReadsEmpty
  <2>2. \A t \in Turns, wire \in Nat : OneRequest(p, t, wire) => OneRequest(p', t, wire)
    BY <1>0, <1>2, PluginReadsSingle
  <2> QED BY <1>0, <2>1, <2>2, ProcessSeparate
<1>3. CASE WorkerMoves(p, p')
  <2>1. ~Empty(p)
    BY <1>3 DEF WorkerMoves, Empty
  <2>2. \A t \in Turns, wire \in Nat : OneRequest(p, t, wire) => OneRequest(p', t, wire)
    BY <1>0, <1>3, WorkerMovesSingle
  <2> QED BY <1>0, <2>1, <2>2, ProcessSeparate
<1>4. CASE p' = Dead
  BY <1>0, <1>4, EndsType, EmptyIsOne, ProcessSeparate
<1> QED BY <1>1, <1>2, <1>3, <1>4

LEMMA ToolSeparate ==
  ASSUME Inv, Separate, NEW x \in sent, ToolRuns(x)
  PROVE  Separate'
<1>1. /\ UNCHANGED <<turn, p, took>> /\ sent' \subseteq sent /\ ran' \subseteq ran \cup {x}
  BY DEF ToolRuns
<1>2. OneReader'
  BY <1>1 DEF Separate, OneReader
<1> QED BY <1>1, <1>2 DEF Separate, OwnWork

LEMMA EnvironmentSeparate ==
  ASSUME Inv, Separate, Environment
  PROVE  Separate'
<1>1. CASE PluginStep \/ PluginDies
  BY <1>1, PluginSeparate
<1>2. CASE \E x \in sent : ToolRuns(x)
  BY <1>2, ToolSeparate
<1>3. CASE \E t \in Turns : MarkCancel(t) \/ RequestCancel(t)
  BY <1>3, MarkSeparate
<1>4. CASE UNCHANGED <<turn, p, sent, ran, took>>
  BY <1>4, ProcessSeparate
<1>5. ListApprovals => UNCHANGED <<turn, p, sent, ran, took>>
  BY DEF ListApprovals, history
<1>6. ASSUME NEW c \in gate.open, LapseChallenge(c) PROVE UNCHANGED <<turn, p, sent, ran, took>>
  BY <1>6 DEF LapseChallenge, history
<1>7. ASSUME NEW c \in gate.open, NEW verdict, PressLocal(c, verdict)
      PROVE  UNCHANGED <<turn, p, sent, ran, took>>
  BY <1>7 DEF PressLocal
<1>8. ASSUME NEW c \in gate.open, NEW verdict, NEW chat, NEW allowed, Press(c, chat, allowed, verdict)
      PROVE  UNCHANGED <<turn, p, sent, ran, took>>
  BY <1>8 DEF Press
<1> QED BY <1>1, <1>2, <1>3, <1>4, <1>5, <1>6, <1>7, <1>8 DEF Environment

LEMMA TurnSeparate ==
  ASSUME Inv, Separate, ~CallDropped, NEW t \in Turns, Turn(t)
  PROVE  Separate'
<1>1. CASE Start(t) \/ AskAgain(t) \/ FailChannel(t) \/ Recover(t) \/ Clear(t)
  BY <1>1, MoveSeparate
<1>2. CASE ReadEnd(t) \/ ReadBroken(t) \/ ReadOther(t) \/ ReadRefusal(t)
  BY <1>2, ReadSeparate
<1>3. CASE Ask(t) \/ ReadReply(t)
  BY <1>3, AskSeparate, ReadReplySeparate
<1>4. CASE \E o \in Offers(t) : Refuse(t, o) \/ Admit(t, o)
  BY <1>4, RefuseSeparate, AdmitSeparate
<1>5. CASE Posted(t) \/ WaitOver(t) \/ WaitBroken(t)
  BY <1>5, MarkSeparate
<1>6. CASE Approved(t) \/ Denied(t) \/ Withdrawn(t) \/ ToolReturns(t) \/ ToolBreaks(t)
  BY <1>6, ApprovedSeparate, ResultSeparate
<1>7. CASE CallTool(t)
  BY <1>7, CallToolSeparate
<1>8. CASE SeesCancel(t) \/ TimesOut(t) \/ ProviderTimesOut(t) \/ ClientGone(t)
  BY <1>8, DropSeparate
<1>9. CASE RestartTools(t) \/ RecordFailure(t)
  BY <1>9, FailedSeparate
<1>10. CASE FailTerminal(t) \/ Cleared(t)
  BY <1>10, EndSeparate
<1> QED BY <1>1, <1>2, <1>3, <1>4, <1>5, <1>6, <1>7, <1>8, <1>9, <1>10 DEF Turn

LEMMA InitSeparate == Init => Separate
<1> SUFFICES ASSUME Init PROVE Separate
  OBVIOUS
<1>1. /\ p = Started /\ sent = {} /\ ran = {} /\ took = {}
      /\ \A t \in Turns : turn[t] = NewTurn(t)
  BY DEF Init
<1>2. \A t \in Turns : turn[t].origin = t /\ turn[t].from = t /\ turn[t].stage = "idle"
  BY <1>1, NewTurnType
<1>3. \A t \in Turns : ~Reads(turn[t])
  BY <1>2 DEF Reads, Calling
<1>4. OneReader
  BY <1>1, <1>3, EndsType DEF OneReader
<1> QED BY <1>1, <1>2, <1>4 DEF Separate, OwnWork

LEMMA NextSeparate ==
  Inv /\ Separate /\ [Next]_vars /\ [~CallDropped]_vars => Separate'
<1> SUFFICES ASSUME Inv, Separate, [Next]_vars, [~CallDropped]_vars PROVE Separate'
  OBVIOUS
<1>1. CASE UNCHANGED vars
  <2>1. UNCHANGED <<turn, p, sent, ran, took>>
    BY <1>1 DEF vars, history
  <2> QED BY <2>1, ProcessSeparate
<1>2. CASE ~UNCHANGED vars
  BY <1>2, EnvironmentSeparate, TurnSeparate DEF Next
<1> QED BY <1>1, <1>2

(* The calls of one turn are carried out as another's only where a turn    *)
(* ended, or its client left, while the provider owed it a reply: whoever  *)
(* starts the turns, and however they cross, nothing else mixes their work *)
(* (Process::call and read_input; the drop of the call's future).          *)
THEOREM OnlyDroppedCallsMix == Spec /\ [][~CallDropped]_vars => [](OwnWork /\ DiscardedStays)
<1>1. Separate => OwnWork /\ DiscardedStays
  BY DEF Separate, OwnWork, DiscardedStays
<1> QED BY <1>1, InitSeparate, NextSeparate, Invariant, PTL DEF Spec
=============================================================================
