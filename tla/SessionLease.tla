------------------------------ MODULE SessionLease ------------------------------
(***************************************************************************)
(* Terminal clients and the reservation of one session, which belongs to   *)
(* no channel (krabb-runtime/src/ipc.rs and state.rs, the client in        *)
(* krabb-plugins/tui/src/main.rs).  A client reserves the session, saves   *)
(* its message, asks the daemon to answer it, to run it as a command, or   *)
(* to compact the session, and gives the session back.  The daemon serves  *)
(* every request in a task of its own, so a task goes on when its client   *)
(* has left or its reservation has run out.                                *)
(*                                                                         *)
(* A submission is one pass of a client through this, and its number is    *)
(* also the owner token it is given; submissions may be of any clients.    *)
(* Its stages:                                                             *)
(*   none, reserved, saved                     what the client has done    *)
(*   summing, starting, running, between,      its task                    *)
(*   ended, acked, stored                                                  *)
(*   told, over                                the answer of the daemon    *)
(* Of the messages of the session only what the last one is is kept, and   *)
(* for each submission whether any by others followed its own (overtaken)  *)
(* or came after its snapshot (missed).                                    *)
(***************************************************************************)
EXTENDS Integers, Sequences, FiniteSets

CONSTANTS
  MaxSubmissions,   (* bound: the submissions                               *)
  MaxCancels,       (* bound: the requests to cancel                        *)
  MaxLeaves,        (* bound: the clients that leave by themselves          *)
  Kinds             (* the kinds of submissions                             *)

ASSUME LeaseAssumption == {MaxSubmissions, MaxCancels, MaxLeaves} \subseteq Nat

VARIABLES
  s,        (* the session                                                  *)
  last,     (* what its last message is                                     *)
  turn,     (* the submissions                                              *)
  token,    (* the entry of the session in State::cancels                   *)
  asked,    (* the tokens that were requested                               *)
  acked,    (* the tokens that were acknowledged                            *)
  used,     (* the number of tokens made                                    *)
  cancel,   (* the requests to cancel                                       *)
  skipped,  (* whether the compacted context stands for messages of others  *)
            (* than the owner it was made under, and was not made of them   *)
  leaves,   (* history: the clients that left by themselves                 *)
  overlap   (* history: two turns have run at the same time                 *)

tokens == <<token, asked, acked, used>>
rest == <<skipped, leaves, overlap>>
lease == <<s, last, turn, tokens, cancel, rest>>

Submissions == 1..MaxSubmissions

Cancels == 1..MaxCancels

None == 0

TurnStages == {"none", "reserved", "saved", "summing", "starting", "running", "between",
           "ended", "acked", "stored", "told", "over"}

Idle == [status |-> "idle", owner |-> None, until |-> FALSE, past |-> FALSE]

NewTurn(kind) ==
  [kind |-> kind, stage |-> "none", holder |-> None, heard |-> TRUE,
   overtaken |-> FALSE, missed |-> FALSE]

NoRequest == [stage |-> "none", tok |-> None, hit |-> {}]

Session ==
  [status : {"idle", "working", "cancelled"}, owner : Submissions \cup {None},
   until : BOOLEAN, past : BOOLEAN]

Turn ==
  [kind : Kinds \cup {"answer"}, stage : TurnStages, holder : Submissions \cup {None},
   heard : BOOLEAN, overtaken : BOOLEAN, missed : BOOLEAN]

Request ==
  [stage : {"none", "marked", "waiting", "told", "failed"}, tok : Nat,
   hit : SUBSET Submissions]

LeaseInit ==
  /\ s = Idle /\ last = "none"
  /\ token = None /\ asked = {} /\ acked = {} /\ used = 0
  /\ turn = [n \in Submissions |-> NewTurn("answer")]
  /\ cancel = [k \in Cancels |-> NoRequest]
  /\ skipped = FALSE /\ leaves = 0 /\ overlap = FALSE

-----------------------------------------------------------------------------
(* The session record.                                                     *)

(* Mutant: a session without a deadline keeps its status.                  *)
RefreshedIfDated(r) == IF r.status = "working" /\ r.past /\ r.until THEN Idle ELSE r

(* recover_reservations, which comes first in every request but those that *)
(* start a task and session.cancel.  Without a deadline the time counts    *)
(* from the last change of the session.                                    *)
Refreshed(r) == IF r.status = "working" /\ r.past THEN Idle ELSE r

Owns(r, n) == r.status = "working" /\ r.owner = n

(* append_reserved starts the time of a reservation anew.                  *)
AppendReserved(r) == [r EXCEPT !.past = FALSE]

(* Mutant: the reservation stays with its owner.                           *)
PushedKeepsOwner(r) == IF r.status = "cancelled" THEN r ELSE [r EXCEPT !.past = FALSE]

(* push_with_status, the exchange of a tool and the answer: the session is *)
(* idle and nobody's, a cancelled one only after the answer.               *)
Pushed(r) == IF r.status = "cancelled" THEN r ELSE Idle

Working(r) == [r EXCEPT !.status = "working", !.past = FALSE]

Moved(t, stage) ==
  IF stage = "over" THEN [NewTurn(t.kind) EXCEPT !.stage = stage] ELSE [t EXCEPT !.stage = stage]

To(n, stage) == turn' = [turn EXCEPT ![n] = Moved(@, stage)]

(* The submissions, once n has appended a message; what a client saves     *)
(* itself follows its message, and belongs to its reservation.             *)
Followed(n, what) ==
  LET saves == what \in {"user", "note"} IN
  [m \in Submissions |->
    [turn[m] EXCEPT
      !.overtaken = @ \/ (turn[m].stage \notin {"none", "reserved", "over"} /\ ~(saves /\ m = n)),
      !.missed = @ \/ (turn[m].stage = "summing" /\ ~(saves /\ turn[m].holder = n))]]

AppendTo(n, what, stage) ==
  /\ last' = what
  /\ turn' = [Followed(n, what) EXCEPT ![n] = Moved(@, stage)]

-----------------------------------------------------------------------------
(* The client.                                                             *)

Reserve(n) ==
  /\ turn[n].stage = "none" /\ \A m \in 1..(n - 1) : turn[m].stage # "none"
  /\ Refreshed(s).status # "working"
  /\ s' = [status |-> "working", owner |-> n, until |-> TRUE, past |-> FALSE]
  /\ \E kind \in Kinds : turn' = [turn EXCEPT ![n].stage = "reserved", ![n].kind = kind]
  /\ UNCHANGED <<last, tokens, cancel, rest>>

SaveMessage(n) ==
  LET r == Refreshed(s) IN
  /\ turn[n].stage = "reserved" /\ turn[n].kind # "compact"
  /\ IF Owns(r, n)
     THEN s' = AppendReserved(r) /\ AppendTo(n, "user", "saved")
     ELSE s' = r /\ UNCHANGED last /\ To(n, "over")
  /\ UNCHANGED <<tokens, cancel, rest>>

(* The command that resolves an approval is saved with its result while    *)
(* the turn runs; if it cannot be, the client ends.                        *)
Note(n) ==
  LET r == Refreshed(s) IN
  /\ turn[n].stage \in {"summing", "running", "between"} /\ turn[n].kind = "answer"
  /\ turn[n].heard
  /\ IF Owns(r, n)
     THEN s' = AppendReserved(r) /\ AppendTo(n, "note", turn[n].stage)
     ELSE s' = r /\ UNCHANGED last /\ turn' = [turn EXCEPT ![n].heard = FALSE]
  /\ UNCHANGED <<tokens, cancel, rest>>

Released(r, n) == IF Owns(r, n) /\ r.until THEN Idle ELSE r

Release(n) ==
  /\ turn[n].stage = "told" /\ turn[n].heard
  /\ s' = Released(Refreshed(s), n) /\ To(n, "over")
  /\ UNCHANGED <<last, tokens, cancel, rest>>

(* The client leaves: it is interrupted, or its call runs out of time, and *)
(* gives the session back; or it dies.                                     *)
Leave(n) ==
  /\ turn[n].stage \notin {"none", "over"} /\ turn[n].heard
  /\ leaves < MaxLeaves /\ leaves' = leaves + 1
  /\ \E r \in {s, Released(Refreshed(s), n)} : s' = r
  /\ IF turn[n].stage \in {"reserved", "told"} THEN To(n, "over")
     ELSE turn' = [turn EXCEPT ![n].heard = FALSE]
  /\ UNCHANGED <<last, tokens, cancel, skipped, overlap>>

-----------------------------------------------------------------------------
(* The tasks of session.answer, session.command and session.compact.       *)

(* The task takes its snapshot; an answer runs for whoever owns the        *)
(* session now, the others compare the owner with the client's.            *)
Snapshot(n) ==
  LET fits == IF turn[n].kind = "answer"
              THEN s.status = "working" /\ s.owner # None /\ last = "user"
              ELSE Owns(s, n) /\ (turn[n].kind = "command" => last = "user")
      r == [turn[n] EXCEPT !.holder = s.owner] IN
  /\ turn[n].stage = (IF turn[n].kind = "compact" THEN "reserved" ELSE "saved")
  /\ turn' = [turn EXCEPT ![n] =
       IF ~fits THEN [@ EXCEPT !.stage = "told"]
       ELSE [r EXCEPT !.stage = IF turn[n].kind = "command" THEN "starting" ELSE "summing"]]
  /\ UNCHANGED <<s, last, tokens, cancel, rest>>

(* Mutant: whoever owns the session now, the summary is kept.              *)
KeepsAnySummary(n) == s.status = "working"

KeepsSummary(n) == Owns(s, turn[n].holder)

(* set_compacted_context_reserved: the summary of the messages at the      *)
(* snapshot stands for all there are now.  An answer goes on whatever      *)
(* became of the summary.                                                  *)
Summarise(n) ==
  /\ turn[n].stage = "summing"
  /\ \/ KeepsSummary(n) /\ skipped' = turn[n].missed
     \/ UNCHANGED skipped
  /\ turn' = [turn EXCEPT ![n].missed = FALSE,
                          ![n].stage = IF turn[n].kind = "compact" THEN "told" ELSE "starting"]
  /\ UNCHANGED <<s, last, tokens, cancel, leaves, overlap>>

Runs(n) == turn[n].stage \in {"running", "between"}

Busy(n) == Runs(n) \/ turn[n].stage = "ended"

(* cancellation: the token of the session, or a new one.                   *)
CurrentToken == IF token = None THEN used + 1 ELSE token

TakeToken == token' = CurrentToken /\ used' = (IF token = None THEN used + 1 ELSE used)

StartRun(n) ==
  /\ turn[n].stage = "starting"
  /\ TakeToken /\ To(n, "running")
  /\ overlap' = (overlap \/ \E m \in Submissions : Busy(m))
  /\ UNCHANGED <<s, last, asked, acked, cancel, skipped, leaves>>

(* A step of the model with tool calls is pushed to the session, which is  *)
(* then marked as working again.                                           *)
Exchange(n) ==
  /\ turn[n].stage = "running" /\ turn[n].kind = "answer"
  /\ s' = Pushed(s) /\ AppendTo(n, "exchange", "between")
  /\ UNCHANGED <<tokens, cancel, rest>>

ExchangePushed(n) ==
  /\ turn[n].stage = "between"
  /\ s' = Working(s) /\ To(n, "running")
  /\ UNCHANGED <<last, tokens, cancel, rest>>

(* The answer or the command ends, by itself, by a failure, at its time    *)
(* limit, or because it sees its token requested.                          *)
EndRun(n) ==
  /\ turn[n].stage = "running"
  /\ To(n, "ended")
  /\ UNCHANGED <<s, last, tokens, cancel, rest>>

(* The stream to a client that has left breaks, which ends the task.       *)
Vanish(n) ==
  /\ turn[n].stage = "running" /\ ~turn[n].heard
  /\ To(n, "over")
  /\ UNCHANGED <<s, last, tokens, cancel, rest>>

(* acknowledge takes the token the map holds now.  A command does not.     *)
AcknowledgeCancel(n) ==
  /\ turn[n].stage = "ended" /\ turn[n].kind = "answer"
  /\ acked' = acked \cup ({token} \ {None}) /\ token' = None
  /\ To(n, "acked")
  /\ UNCHANGED <<s, last, asked, used, cancel, rest>>

(* An answer, if there is one, or the output of a command, however it      *)
(* ended, is appended.                                                     *)
Store(n) ==
  /\ turn[n].stage = (IF turn[n].kind = "answer" THEN "acked" ELSE "ended")
  /\ LET next == IF turn[n].kind = "answer" THEN "stored" ELSE "told" IN
     \/ s' = Idle /\ AppendTo(n, "answer", next)
     \/ turn[n].kind = "answer" /\ To(n, next) /\ UNCHANGED <<s, last>>
  /\ UNCHANGED <<tokens, cancel, rest>>

(* The session is set idle, whoever has it, before the client is told.     *)
SetIdle(n) ==
  /\ turn[n].stage = "stored"
  /\ s' = Idle /\ To(n, "told")
  /\ UNCHANGED <<last, tokens, cancel, rest>>

(* The answer to a client that has left ends the task.                     *)
Forgotten(n) ==
  /\ turn[n].stage = "told" /\ ~turn[n].heard
  /\ To(n, "over")
  /\ UNCHANGED <<s, last, tokens, cancel, rest>>

-----------------------------------------------------------------------------
(* session.cancel, other requests, the scheduler and the clock.            *)

(* A session at rest has its token removed, and the client is told at once. *)
Cancel(k) ==
  /\ cancel[k].stage = "none" /\ \A j \in 1..(k - 1) : cancel[j].stage # "none"
  /\ LET hit == {n \in Submissions : Runs(n)} IN
     IF s.status = "working"
     THEN /\ TakeToken
          /\ cancel' = [cancel EXCEPT ![k] = [stage |-> "marked", tok |-> CurrentToken, hit |-> hit]]
     ELSE /\ token' = None /\ UNCHANGED used
          /\ cancel' = [cancel EXCEPT ![k] = [stage |-> "told", tok |-> None, hit |-> hit]]
  /\ s' = [Idle EXCEPT !.status = "cancelled"]
  /\ UNCHANGED <<last, turn, asked, acked, rest>>

RequestStop(k) ==
  /\ cancel[k].stage = "marked"
  /\ asked' = asked \cup {cancel[k].tok}
  /\ cancel' = [cancel EXCEPT ![k].stage = "waiting"]
  /\ UNCHANGED <<s, last, turn, token, acked, used, rest>>

(* Mutant: the client is told as soon as the token is requested.           *)
CancelDoneAtOnce(k) ==
  /\ cancel[k].stage = "waiting"
  /\ token' = (IF token = cancel[k].tok THEN None ELSE token)
  /\ cancel' = [cancel EXCEPT ![k].stage = "told"]
  /\ UNCHANGED <<s, last, turn, asked, acked, used, rest>>

CancelDone(k) ==
  /\ cancel[k].stage = "waiting" /\ cancel[k].tok \in acked
  /\ token' = (IF token = cancel[k].tok THEN None ELSE token)
  /\ cancel' = [cancel EXCEPT ![k].stage = "told"]
  /\ UNCHANGED <<s, last, turn, asked, acked, used, rest>>

CancelTimesOut(k) ==
  /\ cancel[k].stage = "waiting"
  /\ cancel' = [cancel EXCEPT ![k].stage = "failed"]
  /\ UNCHANGED <<s, last, turn, tokens, rest>>

(* Any other request to the daemon.                                        *)
OtherRequest ==
  /\ s # Refreshed(s) /\ s' = Refreshed(s)
  /\ UNCHANGED <<last, turn, tokens, cancel, rest>>

Notice ==
  /\ last' = "notice"
  /\ s' = IF s.until THEN s ELSE [s EXCEPT !.past = FALSE]
  /\ UNCHANGED <<turn, tokens, cancel, rest>>

TimePasses ==
  /\ s.status = "working" /\ ~s.past /\ s' = [s EXCEPT !.past = TRUE]
  /\ UNCHANGED <<last, turn, tokens, cancel, rest>>

Task(n) ==
  \/ Snapshot(n) \/ Summarise(n) \/ StartRun(n) \/ Exchange(n) \/ ExchangePushed(n)
  \/ EndRun(n) \/ Vanish(n) \/ AcknowledgeCancel(n) \/ Store(n) \/ SetIdle(n) \/ Forgotten(n)

TerminalClient(n) == Reserve(n) \/ SaveMessage(n) \/ Note(n) \/ Release(n) \/ Leave(n)

Canceller(k) == Cancel(k) \/ RequestStop(k) \/ CancelDone(k) \/ CancelTimesOut(k)

LeaseNext ==
  \/ \E n \in Submissions : TerminalClient(n) \/ Task(n)
  \/ \E k \in Cancels : Canceller(k)
  \/ OtherRequest \/ Notice \/ TimePasses

LeaseSpec == LeaseInit /\ [][LeaseNext]_lease

(* Tasks run on, and the limits on the steps and the time of a turn end    *)
(* it; the clock runs, and clients keep asking the daemon, so that one of  *)
(* them comes when a reservation has run out, and not always a notice,     *)
(* which may put the end of a reservation off, first.                      *)
Fairness ==
  /\ \A n \in Submissions : WF_lease(Task(n)) /\ SF_lease(EndRun(n))
  /\ WF_lease(TimePasses) /\ SF_lease(OtherRequest)

FairSpec == LeaseSpec /\ Fairness

-----------------------------------------------------------------------------
(* Properties.                                                             *)

(* The types, and that an owner has a session that is working until a set  *)
(* time: release, renewal and compaction compare owners and trust in that. *)
LeaseTypeOK ==
  /\ s \in Session
  /\ s.owner # None => s.status = "working" /\ s.until
  /\ turn \in [Submissions -> Turn] /\ cancel \in [Cancels -> Request]
  /\ used \in Nat /\ token \in 0..used /\ acked \subseteq 1..used
  /\ {skipped, overlap} \subseteq BOOLEAN

(* While the reservation stands under which a client saved its message,    *)
(* nothing but what it adds itself and notices follows that message: no    *)
(* other client and no task of an earlier turn writes into the session     *)
(* (append_reserved, push_with_status).                                    *)
OwnersMessageLast == \A n \in Submissions : Owns(s, n) => ~turn[n].overtaken

(* What a compacted context stands for and was not made of are notices and *)
(* messages of the client whose reservation the summary was made under:    *)
(* never an answer, or a message of another client (compact_reserved).     *)
NothingElseSkipped == ~skipped

(* A session has one terminal turn at a time.                              *)
OneTurnAtATime == Cardinality({n \in Submissions : Runs(n)}) <= 1

(* As long as no turns have overlapped, a client that waited for a         *)
(* cancellation is told of it when the turn that ran has stopped           *)
(* (session.cancel, acknowledge).                                          *)
CancelWaits ==
  \A k \in Cancels : cancel[k].stage = "told" /\ cancel[k].tok # None /\ ~overlap =>
    \A n \in cancel[k].hit : ~Runs(n)

(* What OwnersMessageLast and NothingElseSkipped rest on: nothing follows  *)
(* a message that was not saved; nobody owns the session, or is the owner  *)
(* under whom a summary is made, before it has reserved it; and a summary  *)
(* has missed nothing of others while its owner has the session.           *)
Reserved(n) == n # None /\ turn[n].stage # "none"

LeaseKept ==
  /\ \A n \in Submissions : turn[n].stage \in {"none", "reserved", "over"} => ~turn[n].overtaken
  /\ OwnersMessageLast
  /\ s.owner # None => Reserved(s.owner)
  /\ \A n \in Submissions :
       IF turn[n].stage = "summing"
       THEN Reserved(turn[n].holder) /\ (Owns(s, turn[n].holder) => ~turn[n].missed)
       ELSE ~turn[n].missed
  /\ NothingElseSkipped

(* What CancelWaits rests on: the token in use is not acknowledged, so one *)
(* that is was acknowledged after the turns that it was to stop had begun, *)
(* by a turn that had ended, and was the only one unless turns overlapped. *)
Begun(n) == turn[n].stage \notin {"none", "reserved", "saved", "summing", "starting"}

TurnsStopped ==
  /\ token \notin acked
  /\ ~overlap => \A m, n \in Submissions : Busy(m) /\ Busy(n) => m = n
  /\ \A k \in Cancels :
       /\ \A n \in cancel[k].hit : Begun(n)
       /\ cancel[k].stage = "told" /\ cancel[k].tok # None => cancel[k].tok \in acked
       /\ ~overlap /\ cancel[k].tok \in acked => \A n \in cancel[k].hit : ~Runs(n)

LeaseInv == LeaseTypeOK /\ LeaseKept /\ TurnsStopped

(* Whatever becomes of clients and tasks, no session stays reserved        *)
(* (recover_reservations).                                                 *)
SessionComesFree == []<>(s.status # "working")
=============================================================================
