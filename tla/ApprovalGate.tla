------------------------------ MODULE ApprovalGate ------------------------------
(***************************************************************************)
(* The approval gate (krabb-runtime/src/approval.rs): single-use, signed   *)
(* challenges, each bound to the chat and the very call it was issued for. *)
(* A challenge is named by the turn that asked and the number of the call; *)
(* that pair stands for its target.  A turn waits for one challenge at a   *)
(* time.  The gate is one record:                                          *)
(*   open    the pending challenges                                        *)
(*   lapsed  those of them that are past their time                        *)
(*   waits   the challenge each turn last asked for                        *)
(*   said    what its receiver was told: an answer, or that its sender is  *)
(*           gone                                                          *)
(***************************************************************************)
EXTENDS Integers, FiniteSets

CONSTANT GateLimit   (* LIMIT, the challenges that may be pending           *)

Verdicts == {"none", "approve", "deny", "gone"}

EmptyGate(turns) ==
  [open |-> {}, lapsed |-> {}, waits |-> [t \in turns |-> 0], said |-> [t \in turns |-> "none"]]

(* Mutant: the challenge goes, and its receiver is not told.               *)
RemovedQuietly(g, cs, said) == [g EXCEPT !.open = @ \ cs, !.lapsed = @ \ cs]

Removed(g, cs, said) ==
  LET told == {t \in DOMAIN g.said : <<t, g.waits[t]>> \in g.open \cap cs} IN
  [g EXCEPT !.open = @ \ cs, !.lapsed = @ \ cs,
            !.said = [t \in DOMAIN @ |-> IF t \in told THEN said ELSE @[t]]]

(* Challenges past their time are only cleared away by the next issue and  *)
(* by the list a client asks for.                                          *)
Purged(g) == Removed(g, g.lapsed, "gone")

IssueRefuses(g) == Cardinality(Purged(g).open) >= GateLimit

Issue(g, c) ==
  [Purged(g) EXCEPT !.open = @ \cup {c}, !.waits[c[1]] = c[2], !.said[c[1]] = "none"]

(* The receiver of a challenge is used up, or dropped with its turn.       *)
Forgotten(g, t) == [g EXCEPT !.waits[t] = 0, !.said[t] = "none"]

(* Mutant: the signature is looked at, and nothing else.                   *)
AcceptsAnyPress(g, c, chat, allowed) == c \in g.open

(* A button counts in the chat it was posted to, from a sender who may use *)
(* tools, while the challenge is pending and in time.                      *)
AcceptsPress(g, c, chat, allowed) ==
  allowed /\ c \in g.open \ g.lapsed /\ c[1] = chat

Resolve(g, c, verdict) == Removed(g, {c}, verdict)

(* A client may resolve any pending challenge; one past its time goes.     *)
ResolveLocal(g, c, verdict) ==
  Removed(g, {c}, IF c \in g.lapsed THEN "gone" ELSE verdict)

Withdraw(g, c) == Removed(g, {c}, "gone")

Lapse(g, c) == [g EXCEPT !.lapsed = @ \cup {c}]

HasPending(g) == g.open # {}
=============================================================================
