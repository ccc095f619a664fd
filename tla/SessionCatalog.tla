----------------------------- MODULE SessionCatalog -----------------------------
(***************************************************************************)
(* How the session store reaches the disk (Store::change, save_catalog and *)
(* load_catalog in krabb-runtime/src/state.rs).  A change is made in       *)
(* memory and then saved as a catalog of files: a record per session, the  *)
(* client state, a record per delivery, the index of the deliveries, the   *)
(* index of the sessions; records are named by the digest of their         *)
(* content, and those no index names any more are removed at the end.  A   *)
(* save that fails anywhere rolls back the memory, not the files.          *)
(*                                                                         *)
(* Each single file is replaced atomically: that is the promise of         *)
(* AtomicFile.  There is one session per event, so a session is the stage  *)
(* its event is at and its record is the pair of both; a delivery is the   *)
(* answer to its event; a session that was deleted is not used again.  The *)
(* operations are the ones the channel bridge calls, in its order.  The    *)
(* process may die between any two files.                                  *)
(***************************************************************************)
EXTENDS Naturals

CONSTANT Events

VARIABLES
  mem, old,           (* the store in memory, and what a failed save restores *)
  records, index,     (* session records, and the catalog: records by event   *)
  client,             (* seen and deferred events, on disk                    *)
  drecords, dindex,   (* delivery records and their index                     *)
  step,               (* the file to be written next                          *)
  running,            (* events whose turn is running                         *)
  change,             (* the operation being saved and its event, or <<>>     *)
  stored, dropped     (* history: answers stored, sessions deleted            *)

files == <<records, index, client, drecords, dindex>>
catalog == <<mem, old, files, step, running, change, stored, dropped>>

Stages == {"none", "queued", "turn", "done"}

Client == [seen : SUBSET Events, deferred : SUBSET Events]

Memory == [stage : [Events -> Stages], out : SUBSET Events, client : Client]

Ops == {"defer", "queue", "commit", "retain", "begin", "reply", "ack", "delete"}

Steps == {"records", "client", "drecords", "dindex", "index", "clean"}

Writing == Steps \ {"clean"}

Resting == step \in {"idle", "down"}

CatalogTypeOK ==
  /\ mem \in Memory /\ old \in Memory
  /\ records \subseteq Events \X Stages /\ index \in [Events -> Stages]
  /\ client \in Client
  /\ drecords \subseteq Events /\ dindex \subseteq Events
  /\ step \in {"down", "idle"} \cup Steps
  /\ change \in {<<>>} \cup (Ops \X Events)
  /\ step \in Steps => change # <<>>
  /\ Resting => change = <<>>
  /\ step = "idle" => mem = old
  /\ running \subseteq Events /\ stored \subseteq Events /\ dropped \subseteq Events

Nothing ==
  [stage |-> [e \in Events |-> "none"], out |-> {}, client |-> [seen |-> {}, deferred |-> {}]]

CatalogInit ==
  /\ mem = Nothing /\ old = Nothing
  /\ records = {} /\ index = Nothing.stage /\ client = Nothing.client
  /\ drecords = {} /\ dindex = {}
  /\ step = "idle" /\ change = <<>>
  /\ running = {} /\ stored = {} /\ dropped = {}

-----------------------------------------------------------------------------
(* Changes in memory.                                                      *)

Change(o, e, next) ==
  /\ step = "idle" /\ step' = "records"
  /\ old' = mem /\ mem' = next
  /\ change' = <<o, e>>
  /\ UNCHANGED <<files, running, stored>>

Known(e) == e \in mem.client.seen \cup mem.client.deferred

Defer(e) ==
  /\ ~Known(e) /\ mem.stage[e] = "none" /\ e \notin dropped
  /\ Change("defer", e, [mem EXCEPT !.client.deferred = @ \cup {e}])
  /\ UNCHANGED dropped

(* Mutant: the message is no longer deferred once it is queued.            *)
QueueUndefers(e) ==
  /\ mem.stage[e] = "none" /\ e \notin dropped
  /\ e \in mem.client.seen => e \in mem.client.deferred
  /\ Change("queue", e, [mem EXCEPT !.stage[e] = "queued", !.client.deferred = @ \ {e}])
  /\ UNCHANGED dropped

Queue(e) ==
  /\ mem.stage[e] = "none" /\ e \notin dropped
  /\ e \in mem.client.seen => e \in mem.client.deferred
  /\ Change("queue", e, [mem EXCEPT !.stage[e] = "queued"])
  /\ UNCHANGED dropped

(* commit follows the admission of the event, commit_retained its deferral. *)
Commit(e) ==
  /\ mem.stage[e] # "none"
  /\ e \in mem.client.seen => e \in mem.client.deferred
  /\ Change("commit", e, [mem EXCEPT !.client.seen = @ \cup {e}, !.client.deferred = @ \ {e}])
  /\ UNCHANGED dropped

Retain(e) ==
  /\ e \in mem.client.deferred \ mem.client.seen
  /\ Change("retain", e, [mem EXCEPT !.client.seen = @ \cup {e}])
  /\ UNCHANGED dropped

(* A queued message that is begun is also taken out of the deferred events. *)
Begin(e) ==
  /\ mem.stage[e] = "queued"
  /\ Change("begin", e, [mem EXCEPT !.stage[e] = "turn", !.client.deferred = @ \ {e}])
  /\ UNCHANGED dropped

(* Mutant: the answer is only delivered.                                   *)
ReplyDelivers(e) ==
  /\ e \in running
  /\ Change("reply", e, [mem EXCEPT !.out = @ \cup {e}])
  /\ UNCHANGED dropped

(* The answer goes to the transcript and the outbox in one change.         *)
Reply(e) ==
  /\ e \in running
  /\ Change("reply", e, [mem EXCEPT !.stage[e] = "done", !.out = @ \cup {e}])
  /\ UNCHANGED dropped

Acknowledge(e) ==
  /\ e \in mem.out
  /\ Change("ack", e, [mem EXCEPT !.out = @ \ {e}])
  /\ UNCHANGED dropped

Delete(e) ==
  /\ mem.stage[e] \in {"queued", "done"}
  /\ Change("delete", e, [mem EXCEPT !.stage[e] = "none"])
  /\ dropped' = dropped \cup {e}

-----------------------------------------------------------------------------
(* save_catalog, file by file.  A file that is written may still be        *)
(* reported as failed.                                                     *)

RollBack ==
  /\ step' = "idle" /\ mem' = old /\ change' = <<>>
  /\ UNCHANGED <<old, running, stored, dropped>>

Written(next) ==
  \/ step' = next /\ UNCHANGED <<mem, old, running, change, stored, dropped>>
  \/ RollBack

Sessions == {e \in Events : mem.stage[e] # "none"}

Record(e) == <<e, mem.stage[e]>>

WriteRecord(e) ==
  /\ step = "records" /\ e \in Sessions /\ Record(e) \notin records
  /\ records' = records \cup {Record(e)}
  /\ Written("records")
  /\ UNCHANGED <<index, client, drecords, dindex>>

WriteClient ==
  /\ step = "records" /\ \A e \in Sessions : Record(e) \in records
  /\ client' = mem.client
  /\ Written("drecords")
  /\ UNCHANGED <<records, index, drecords, dindex>>

WriteDeliveryRecord(e) ==
  /\ step = "drecords" /\ e \in mem.out \ drecords
  /\ drecords' = drecords \cup {e}
  /\ Written("drecords")
  /\ UNCHANGED <<records, index, client, dindex>>

(* Mutant: the old records are removed with the index still to be written. *)
WriteDeliveryIndexAndClean ==
  /\ step = "drecords" /\ mem.out \subseteq drecords
  /\ dindex' = mem.out
  /\ records' = {Record(e) : e \in Sessions}
  /\ Written("index")
  /\ UNCHANGED <<index, client, drecords>>

WriteDeliveryIndex ==
  /\ step = "drecords" /\ mem.out \subseteq drecords
  /\ dindex' = mem.out
  /\ Written("index")
  /\ UNCHANGED <<records, index, client, drecords>>

WriteIndex ==
  /\ step = "index"
  /\ index' = mem.stage
  /\ Written("clean")
  /\ UNCHANGED <<records, client, drecords, dindex>>

(* A file that cannot be written.                                          *)
SaveFails == step \in Writing /\ RollBack /\ UNCHANGED files

(* Superseded records are removed, as far as that gets: a removal that     *)
(* fails is noticed by nobody.  Those of deleted sessions stay.            *)
Superseded == {r \in records : r[1] \in Sessions /\ r # Record(r[1])}

Finish ==
  /\ step = "clean" /\ step' = "idle"
  /\ \E gone \in SUBSET Superseded : records' = records \ gone
  /\ \E gone \in SUBSET (drecords \ mem.out) : drecords' = drecords \ gone
  /\ running' = CASE change[1] = "begin" -> running \cup {change[2]}
                  [] change[1] = "reply" -> running \ {change[2]}
                  [] OTHER -> running
  /\ stored' = IF change[1] = "reply" THEN stored \cup {change[2]} ELSE stored
  /\ change' = <<>> /\ old' = mem
  /\ UNCHANGED <<mem, index, client, dindex, dropped>>

-----------------------------------------------------------------------------
(* Crash and load_catalog.                                                 *)

CatalogCrash ==
  /\ step # "down" /\ step' = "down" /\ running' = {}
  /\ mem' = Nothing /\ old' = Nothing /\ change' = <<>>
  /\ UNCHANGED <<files, stored, dropped>>

Readable ==
  /\ \A e \in Events : index[e] # "none" => <<e, index[e]>> \in records
  /\ dindex \subseteq drecords

Open ==
  /\ step = "down" /\ step' = "idle"
  /\ Readable
  /\ mem' = [stage |-> index, out |-> dindex, client |-> client]
  /\ old' = mem'
  /\ UNCHANGED <<files, running, change, stored, dropped>>

CatalogNext ==
  \/ \E e \in Events :
       \/ Defer(e) \/ Queue(e) \/ Commit(e) \/ Retain(e) \/ Begin(e)
       \/ Reply(e) \/ Acknowledge(e) \/ Delete(e)
       \/ WriteRecord(e) \/ WriteDeliveryRecord(e)
  \/ WriteClient \/ WriteDeliveryIndex \/ WriteIndex \/ SaveFails \/ Finish
  \/ CatalogCrash \/ Open

CatalogSpec == CatalogInit /\ [][CatalogNext]_catalog

-----------------------------------------------------------------------------
(* Properties.                                                             *)

(* An index never names a record that is not there, whatever save was cut  *)
(* off or failed: otherwise load_catalog refuses the whole store.          *)
AlwaysReadable == Readable

(* An event the provider will not send again is, on disk, in its session   *)
(* or deferred, unless its session was deleted.                            *)
Admitted(c, stage) ==
  \A e \in c.seen : stage[e] # "none" \/ e \in c.deferred \/ e \in dropped

EventKept == Admitted(client, index)

(* An answer that was stored stays in its transcript, over failed saves    *)
(* and crashes.                                                            *)
AnswerKept == \A e \in stored : index[e] = "done" \/ e \in dropped

(* What the three rest on: how far the save has got, and that neither the  *)
(* memory nor what a failed save restores is ahead of the disk.            *)
Reached ==
  /\ step \in {"drecords", "index"} => \A e \in Sessions : Record(e) \in records
  /\ step = "index" => dindex = mem.out
  /\ step = "clean" => index = mem.stage /\ dindex = mem.out
  /\ change # <<>> /\ change[1] = "reply" => mem.stage[change[2]] = "done"

Outlives(stage, next) == \A e \in Events : stage[e] # "none" => next[e] # "none" \/ e \in dropped

NothingAhead ==
  step # "down" =>
    /\ Outlives(old.stage, mem.stage) /\ Outlives(old.stage, index)
    /\ Admitted(client, old.stage)
    /\ Admitted(mem.client, old.stage) /\ Admitted(old.client, old.stage)

AnswersHeld ==
  \A e \in stored \ dropped :
    /\ index[e] = "done"
    /\ step # "down" => mem.stage[e] = "done" /\ old.stage[e] = "done"

CatalogIInv == CatalogTypeOK /\ Readable /\ EventKept /\ Reached /\ NothingAhead /\ AnswersHeld

(* Replies are persisted with the transcript: an answer in the outbox of   *)
(* the store that is open is in its session's transcript.                  *)
ReplyWithTranscript ==
  step = "idle" => \A e \in mem.out : mem.stage[e] = "done" \/ e \in dropped
=============================================================================
