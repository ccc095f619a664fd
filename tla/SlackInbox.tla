------------------------------ MODULE SlackInbox ------------------------------
(* The inbox of the Slack plugin, krabb-plugins/messaging/slack/src/main.rs, *)
(* for one channel.  Messages reach it over the socket, where Slack sends    *)
(* again what is not acknowledged but gives up at some time, and by reading  *)
(* the history of the channel, page by page from the newest.  The inbox is   *)
(* saved as it changes, so an end of the process leaves it as it is.         *)
EXTENDS Sequences, Sorting

CONSTANTS
  MaxPosts,        (* bound: messages of the channel                           *)
  InboxLimit,      (* INBOX_LIMIT, and what the loop over pages brings at most *)
  SocketLimit      (* SOCKET_EVENT_LIMIT                                       *)

ASSUME SlackAssumption ==
  /\ {MaxPosts, SocketLimit} \subseteq Nat
  /\ InboxLimit \in Nat \ {0}

VARIABLES
  written,         (* the timestamps of the channel: 1 .. written              *)
  notices,         (* those for which message_supported is false               *)
  envelopes,       (* what Slack sends over the socket until it gives up       *)
  inbox,           (* Inbox, as it is on disk                                  *)
  accepted         (* history: what the daemon has accepted                    *)

slack == <<written, notices, envelopes, inbox, accepted>>

(* No timestamp, and no cursor.                                             *)
None == 0

SlackInit ==
  /\ written = 0 /\ notices \in SUBSET (1 .. MaxPosts)
  /\ envelopes = {} /\ accepted = {}
  /\ inbox = [channel |-> None, scanned |-> None, below |-> None, since |-> None,
              socket |-> {}, pending |-> <<>>]

Larger(a, b) == IF a > b THEN a ELSE b

Watermark == Larger(inbox.channel, inbox.scanned)

(* A message appears; the socket may be closed, and then only the history   *)
(* has it.                                                                  *)
Post ==
  /\ written < MaxPosts
  /\ written' = written + 1
  /\ \/ envelopes' = envelopes \union ({written + 1} \ notices)
     \/ UNCHANGED envelopes
  /\ UNCHANGED <<notices, inbox, accepted>>

(* Slack gives up on an envelope.                                           *)
Abandon ==
  /\ \E m \in envelopes : envelopes' = envelopes \ {m}
  /\ UNCHANGED <<written, notices, inbox, accepted>>

(* remember_socket: the oldest give way.                                    *)
RememberSocket(m) ==
  LET all == inbox.socket \union {m}
  IN {t \in all : Cardinality({u \in all : u > t}) < SocketLimit}

(* Mutant: of the channel itself, whose cursor it removes.                  *)
StageSocketHere(m) ==
  [inbox EXCEPT !.pending = Append(@, [message |-> m, history |-> FALSE]),
                !.socket = RememberSocket(m), !.below = None, !.since = None]

(* stage_socket: of no channel, so that no cursor and no watermark changes. *)
StageSocket(m) ==
  [inbox EXCEPT !.pending = Append(@, [message |-> m, history |-> FALSE]),
                !.socket = RememberSocket(m)]

(* socket_poll: the event is saved before its envelope is acknowledged, and *)
(* the acknowledgement may fail.                                            *)
SocketPoll ==
  /\ inbox.pending = <<>>
  /\ \E m \in envelopes :
       /\ inbox' = StageSocket(m)
       /\ envelopes' \in {envelopes, envelopes \ {m}}
  /\ UNCHANGED <<written, notices, accepted>>

(* socket_poll with an event pending acknowledges its envelope first.       *)
AcknowledgeEnvelope ==
  /\ inbox.pending # <<>> /\ ~ Head(inbox.pending).history
  /\ envelopes' = envelopes \ {Head(inbox.pending).message}
  /\ UNCHANGED <<written, notices, inbox, accepted>>

(* What conversations.history has to show: with a cursor what is below it,  *)
(* for then the request names no oldest; whether Slack still minds the one  *)
(* of the first request is its own affair.                                  *)
Older ==
  IF inbox.below = None THEN {m \in 1 .. written : m > Watermark}
  ELSE {m \in 1 .. inbox.below - 1 : m > inbox.since}

NewestOf(S, n) == {m \in S : Cardinality({u \in S : u > m}) < n}

Highest(S) == CHOOSE m \in S \union {None} : \A u \in S : u <= m

(* stage, of the pages read: cursor is the one behind the last of them.     *)
StagePages(page, below, since) ==
  LET events == (page \ inbox.socket) \ notices
      scanned == Highest(page \intersect notices)
  IN [inbox EXCEPT
        !.pending = [i \in 1 .. Cardinality(events) |->
                       [message |-> Ascending(events)[i], history |-> TRUE]],
        !.scanned = Larger(@, scanned), !.below = below, !.since = since]

(* poll_at: pages until there are no more, or the inbox is full.            *)
HistoryPoll ==
  /\ inbox.pending = <<>>
  /\ \E n \in 1 .. InboxLimit :
       LET page == NewestOf(Older, n)
       IN IF page = Older THEN inbox' = StagePages(page, None, None)
          ELSE \E since \in IF inbox.below = None THEN {None, Watermark} ELSE {inbox.since} :
                 inbox' = StagePages(page, CHOOSE m \in page : \A u \in page : m <= u, since)
  /\ UNCHANGED <<written, notices, envelopes, accepted>>

(* The daemon accepts the event it was handed.                              *)
AcceptEvent ==
  /\ inbox.pending # <<>>
  /\ accepted' = accepted \union {Head(inbox.pending).message}
  /\ UNCHANGED <<written, notices, envelopes, inbox>>

(* Mutant: an event of the socket moves the watermark, too.                 *)
PassedByAny(event) == inbox.below = None

(* Which events move the watermark when they are acknowledged.              *)
Passed(event) == event.history /\ inbox.below = None

(* acknowledge, of what the daemon has accepted.                            *)
AcknowledgeEvent ==
  /\ inbox.pending # <<>>
  /\ LET event == Head(inbox.pending)
     IN /\ event.message \in accepted
        /\ inbox' = [inbox EXCEPT
             !.pending = Tail(@),
             !.channel = IF Passed(event) THEN Larger(@, event.message) ELSE @]
  /\ UNCHANGED <<written, notices, envelopes, accepted>>

SlackNext ==
  \/ Post \/ Abandon \/ SocketPoll \/ AcknowledgeEnvelope \/ HistoryPoll
  \/ AcceptEvent \/ AcknowledgeEvent

SlackSpec == SlackInit /\ [][SlackNext]_slack

-------------------------------------------------------------------------------
(* A message of the channel is accepted, in the inbox, or still to be read  *)
(* from the history, above the watermark or below the cursor; this the two  *)
(* ways in must uphold together, whatever Slack gives up on.                *)
NothingLost ==
  \A m \in (1 .. written) \ notices :
    \/ m \in accepted
    \/ \E i \in DOMAIN inbox.pending : inbox.pending[i].message = m
    \/ m > Watermark
    \/ inbox.since < m /\ m < inbox.below
=============================================================================
