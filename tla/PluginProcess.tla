----------------------------- MODULE PluginProcess -----------------------------
(***************************************************************************)
(* A plugin process that serves requests concurrently and calls the host   *)
(* back while it does (serve_io_events_concurrent, Emitter::call and       *)
(* read_input in krabb-core/src/plugin.rs), between the two pipes the host *)
(* holds (Process in the same file).  The process is one record:           *)
(*   up      whether it runs and its pipes are open                        *)
(*   stdin   the frames the host wrote and the plugin has not read         *)
(*   stdout  the frames the plugin wrote and the host has not read         *)
(*   workers the requests it is working on                                 *)
(*   next    the next ID for a call to the host                            *)
(* A frame carries the turn it was made for ("origin"): the protocol has   *)
(* no such field, the model carries it along to say whose work is done.    *)
(***************************************************************************)
EXTENDS Integers, Sequences, FiniteSets, SequencesExt

CONSTANTS
  Workers,   (* CONCURRENT_HANDLERS                                         *)
  MaxAsks,   (* bound: the calls to the host of one worker                  *)
  Jobs       (* the tool calls a model may ask for                          *)

NoCall == 0

Request(id, origin) == [kind |-> "request", id |-> id, origin |-> origin]

Answer(id) == [kind |-> "answer", id |-> id]

HostCall(id, origin, job) == [kind |-> "call", id |-> id, origin |-> origin, job |-> job]

Reply(id, origin, plan) == [kind |-> "reply", id |-> id, origin |-> origin, plan |-> plan]

Refusal(id) == [kind |-> "refusal", id |-> id]

Broken == [kind |-> "broken"]

Worker(id, origin) == [id |-> id, origin |-> origin, asks |-> 0, waits |-> NoCall]

Started == [up |-> TRUE, stdin |-> <<>>, stdout |-> <<>>, workers |-> {}, next |-> 1]

Dead == [Started EXCEPT !.up = FALSE]

-----------------------------------------------------------------------------
(* The plugin's side.                                                      *)

Active(p, id) == \E w \in p.workers : w.id = id

(* A request over the limit, or with the ID of one still worked on, is     *)
(* answered with an error under that very ID.                              *)
Accept(p) ==
  LET r == Head(p.stdin)  rest == [p EXCEPT !.stdin = Tail(@)] IN
  IF Cardinality(p.workers) >= Workers \/ Active(p, r.id)
  THEN [rest EXCEPT !.stdout = Append(@, Refusal(r.id))]
  ELSE [rest EXCEPT !.workers = @ \cup {Worker(r.id, r.origin)}]

(* The answer to a call that no worker waits for ends the process.         *)
TakeAnswer(p) ==
  LET a == Head(p.stdin)  waiting == {w \in p.workers : w.waits = a.id} IN
  IF waiting = {} THEN [p EXCEPT !.up = FALSE, !.stdin = <<>>, !.workers = {}]
  ELSE [p EXCEPT !.stdin = Tail(@),
                 !.workers = (@ \ waiting) \cup {[w EXCEPT !.waits = NoCall] : w \in waiting}]

PluginReads(p) ==
  IF Head(p.stdin).kind = "request" THEN Accept(p) ELSE TakeAnswer(p)

WorkerCalls(p, w, job) ==
  [p EXCEPT !.stdout = Append(@, HostCall(p.next, w.origin, job)),
            !.workers = (@ \ {w}) \cup {[w EXCEPT !.asks = @ + 1, !.waits = p.next]},
            !.next = @ + 1]

(* A worker whose call was not answered in 120 s fails its request.        *)
WorkerGivesUp(p, w) ==
  [p EXCEPT !.workers = @ \ {w}, !.stdout = Append(@, Refusal(w.id))]

WorkerReplies(p, w, plan) ==
  [p EXCEPT !.workers = @ \ {w}, !.stdout = Append(@, Reply(w.id, w.origin, plan))]

-----------------------------------------------------------------------------
(* The host's side.                                                        *)

HostWrites(p, frame) == [p EXCEPT !.stdin = Append(@, frame)]

HostReads(p) == [p EXCEPT !.stdout = Tail(@)]

(* A call that is dropped while it reads may take part of a frame with it. *)
Abandoned(p) ==
  {p} \cup (IF p.stdout = <<>> THEN {} ELSE {[p EXCEPT !.stdout[1] = Broken]})

(* Process::restart ends the old process first; the new one may not start. *)
Restarted == {Started, Dead}
=============================================================================
