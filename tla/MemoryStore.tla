------------------------------ MODULE MemoryStore ------------------------------
(* The memory plugin, krabb-plugins/memory/src/main.rs: an index of what is *)
(* remembered, one file, and beside it a file per record.  A process of the *)
(* plugin reads the index as it starts, works on its copy and writes all of *)
(* it at every change.  The daemon keeps such a process for its tools and   *)
(* for the summary of each turn; the command line starts one per command.   *)
EXTENDS Integers, FiniteSets

CONSTANTS
  Procs,           (* the processes of the plugin                              *)
  Keys,            (* what is remembered: a scope and a key                    *)
  Global,          (* those of the scope "global", the rest are of one chat    *)
  Limit,           (* LIMIT                                                    *)
  IndexLimit,      (* INDEX_LIMIT                                              *)
  Times,           (* what the clock may say                                   *)
  MaxCalls, MaxMisses   (* bounds: calls that save, failures of a file         *)

ASSUME MemoryAssumption ==
  /\ Limit \in Nat \ {0} /\ IndexLimit \in Nat \ {0, 1}
  /\ Times \subseteq Nat \ {0} /\ MaxCalls \in Nat /\ MaxMisses \in Nat
  /\ Global \subseteq Keys

VARIABLES
  index,           (* the file index.json                                      *)
  records,         (* the record files: the call whose value each one holds    *)
  at,              (* what each process is doing                               *)
  mem,             (* its State                                                *)
  target,          (* the State it is saving                                   *)
  request,         (* the call it is saving for: what, and of which key        *)
  left,            (* the record files it has still to write, or to remove     *)
  away,            (* the one that it has moved to its backup, if any          *)
  broken,          (* history: those that a save, since the last one that was  *)
                   (* done, has moved and, refused or cut off, not replaced    *)
  recent,          (* history: for each key still there, the call that last    *)
                   (* remembered it                                            *)
  calls, misses

memory ==
  <<index, records, at, mem, target, request, left, away, broken, recent, calls, misses>>

files == <<records, away, broken>>

(* An entry has the number of the call that saved it for its value; 0 is no *)
(* entry, and no file.                                                      *)
Entries == [value : Nat, updated : Nat]

Absent == [value |-> 0, updated |-> 0]

States == [items : [Keys -> Entries], learning : {"guided", "autonomous"}]

Kept(items) == {k \in Keys : items[k].value # 0}

(* sort_by_key and take or truncate, newest first: the n newest of a set.   *)
Newest(items, S, n) ==
  {k \in S : Cardinality({j \in S : items[j].updated > items[k].updated}) < n}

Only(items, S) == [k \in Keys |-> IF k \in S THEN items[k] ELSE Absent]

Requests == [what : {"remember", "forget", "learning"}, keys : SUBSET Keys]

Learn == [what |-> "learning", keys |-> {}]

(* State::default.                                                          *)
Empty == [items |-> [k \in Keys |-> Absent], learning |-> "guided"]

MemoryInit ==
  /\ index = Empty
  /\ records = [k \in Keys |-> 0]
  /\ at = [p \in Procs |-> "down"] /\ mem = [p \in Procs |-> index]
  /\ target = [p \in Procs |-> index] /\ request = [p \in Procs |-> Learn]
  /\ left = [p \in Procs |-> {}] /\ away = [p \in Procs |-> {}] /\ broken = {}
  /\ recent = [k \in Keys |-> 0] /\ calls = 0 /\ misses = 0

-------------------------------------------------------------------------------
(* Mutant: by the clock alone, which may go back.                           *)
ClockTimestamps(items, now) == {now}

(* next_timestamp: the clock, or what follows the newest entry.             *)
NextTimestamps(items, now) ==
  LET times == {items[k].updated + 1 : k \in Kept(items)} \union {now}
  IN {t \in times : \A u \in times : u <= t}

Evicted(items) == Only(items, Newest(items, Kept(items), Limit))

(* What remember saves.                                                     *)
Remembered(state, k, time) ==
  [state EXCEPT !.items =
     Evicted([state.items EXCEPT ![k] = [value |-> calls + 1, updated |-> time]])]

Forget(state, k) == [state EXCEPT !.items[k] = Absent]

(* persist_at begins, with the lock of the State held.                      *)
Persist(p, call, state) ==
  /\ at[p] = "idle" /\ calls < MaxCalls
  /\ at' = [at EXCEPT ![p] = "saving"]
  /\ target' = [target EXCEPT ![p] = state]
  /\ request' = [request EXCEPT ![p] = call]
  /\ left' = [left EXCEPT ![p] = Kept(state.items)]
  /\ calls' = calls + 1
  /\ UNCHANGED <<index, files, mem, recent, misses>>

(* In guided mode only what is approved is remembered.                      *)
Remember(p) ==
  \E k \in Keys, now \in Times, approved \in BOOLEAN :
    /\ approved \/ mem[p].learning = "autonomous"
    /\ \E time \in NextTimestamps(mem[p].items, now) :
         Persist(p, [what |-> "remember", keys |-> {k}], Remembered(mem[p], k, time))

(* forget saves whether or not there was such an entry.                     *)
ForgetKey(p) ==
  \E k \in Keys : Persist(p, [what |-> "forget", keys |-> {k}], Forget(mem[p], k))

SetLearning(p) ==
  \E mode \in {"guided", "autonomous"} :
    Persist(p, Learn, [mem[p] EXCEPT !.learning = mode])

(* save_file of one record: a file that is there is first moved to its     *)
(* backup, from which nothing brings it back, because no record is loaded.  *)
MoveRecord(p) ==
  /\ at[p] = "saving" /\ away[p] = {}
  /\ \E k \in left[p] :
       /\ records[k] # 0 /\ records' = [records EXCEPT ![k] = 0]
       /\ away' = [away EXCEPT ![p] = {k}]
  /\ UNCHANGED <<index, at, mem, target, request, left, broken, recent, calls, misses>>

WriteRecord(p) ==
  /\ at[p] = "saving"
  /\ \E k \in left[p] :
       /\ IF away[p] = {} THEN records[k] = 0 ELSE k \in away[p]
       /\ records' = [records EXCEPT ![k] = target[p].items[k].value]
       /\ left' = [left EXCEPT ![p] = @ \ {k}]
       /\ away' = [away EXCEPT ![p] = {}]
  /\ UNCHANGED <<index, at, mem, target, request, broken, recent, calls, misses>>

(* What a call leaves of the keys: those of the Limit last calls that       *)
(* remembered something still there.                                        *)
Lasting(last) ==
  [k \in Keys |-> IF Cardinality({j \in Keys : last[j] > last[k]}) < Limit THEN last[k] ELSE 0]

After(call) ==
  IF call.what = "remember"
  THEN Lasting([k \in Keys |-> IF k \in call.keys THEN calls ELSE recent[k]])
  ELSE [k \in Keys |-> IF k \in call.keys THEN 0 ELSE recent[k]]

(* save_file of the index: what was requested is done.                     *)
InstallIndex(p) ==
  /\ index' = target[p]
  /\ mem' = [mem EXCEPT ![p] = target[p]]
  /\ left' = [left EXCEPT ![p] = Kept(mem[p].items) \ Kept(target[p].items)]
  /\ at' = [at EXCEPT ![p] = "removing"]
  /\ broken' = {}
  /\ recent' = After(request[p])
  /\ UNCHANGED <<records, away, target, request, calls, misses>>

(* Mutant: only the record that is new is written before the index.         *)
WriteIndexEarly(p) ==
  /\ at[p] = "saving" /\ away[p] = {}
  /\ \A k \in left[p] : target[p].items[k] = mem[p].items[k]
  /\ InstallIndex(p)

(* After all records.                                                       *)
WriteIndex(p) ==
  /\ at[p] = "saving" /\ left[p] = {}
  /\ InstallIndex(p)

(* What becomes of the file that a save leaves moved away.                  *)
BreakOff(p) == broken' = broken \union away[p] /\ away' = [away EXCEPT ![p] = {}]

(* Mutant: what could not be saved stays in memory.                         *)
RefuseKeepsState(p) ==
  /\ at[p] = "saving" /\ misses < MaxMisses
  /\ misses' = misses + 1
  /\ mem' = [mem EXCEPT ![p] = target[p]]
  /\ at' = [at EXCEPT ![p] = "idle"] /\ left' = [left EXCEPT ![p] = {}]
  /\ BreakOff(p)
  /\ UNCHANGED <<index, records, target, request, recent, calls>>

(* A file cannot be written: the State is again what it was, the records    *)
(* already written stay, and one that was moved away is not put back.  The  *)
(* index is the old one: its own load brings it back, if it was moved.      *)
Refuse(p) ==
  /\ at[p] = "saving" /\ misses < MaxMisses
  /\ misses' = misses + 1
  /\ at' = [at EXCEPT ![p] = "idle"] /\ left' = [left EXCEPT ![p] = {}]
  /\ BreakOff(p)
  /\ UNCHANGED <<index, records, mem, target, request, recent, calls>>

(* remove_orphan_records, of the records of before that after does not      *)
(* have; a file that cannot be removed stays.                               *)
RemoveOrphan(p) ==
  /\ at[p] = "removing"
  /\ \E k \in left[p] :
       /\ \/ records' = [records EXCEPT ![k] = 0] /\ UNCHANGED misses
          \/ misses < MaxMisses /\ misses' = misses + 1 /\ UNCHANGED records
       /\ left' = [left EXCEPT ![p] = @ \ {k}]
  /\ UNCHANGED <<index, at, mem, target, request, away, broken, recent, calls>>

Answer(p) ==
  /\ at[p] = "removing" /\ left[p] = {}
  /\ at' = [at EXCEPT ![p] = "idle"]
  /\ UNCHANGED <<index, files, mem, target, request, left, recent, calls, misses>>

(* load_at, of a process that starts.                                       *)
StartMemory(p) ==
  /\ at[p] = "down"
  /\ at' = [at EXCEPT ![p] = "idle"] /\ mem' = [mem EXCEPT ![p] = index]
  /\ UNCHANGED <<index, files, target, request, left, recent, calls, misses>>

(* An index that cannot be read is put aside (quarantine).                  *)
StartEmpty(p) ==
  /\ at[p] = "down" /\ misses < MaxMisses
  /\ misses' = misses + 1
  /\ at' = [at EXCEPT ![p] = "idle"] /\ mem' = [mem EXCEPT ![p] = Empty]
  /\ index' = Empty /\ recent' = [k \in Keys |-> 0]
  /\ UNCHANGED <<files, target, request, left, calls>>

(* A process ends in the middle of anything.                                *)
EndMemory(p) ==
  /\ at[p] # "down"
  /\ at' = [at EXCEPT ![p] = "down"] /\ left' = [left EXCEPT ![p] = {}]
  /\ BreakOff(p)
  /\ UNCHANGED <<index, records, mem, target, request, recent, calls, misses>>

MemoryNext ==
  \E p \in Procs :
    \/ Remember(p) \/ ForgetKey(p) \/ SetLearning(p)
    \/ MoveRecord(p) \/ WriteRecord(p) \/ WriteIndex(p) \/ Refuse(p) \/ RemoveOrphan(p) \/ Answer(p)
    \/ StartMemory(p) \/ StartEmpty(p) \/ EndMemory(p)

MemorySpec == MemoryInit /\ [][MemoryNext]_memory

-------------------------------------------------------------------------------
(* What the index call answers for a turn of the chat: half of it is kept   *)
(* for global entries, if there are as many.                                *)
Indexed(items) ==
  LET global == Kept(items) \intersect Global
      chat == Kept(items) \ Global
      reserved == Newest(items, global, IndexLimit \div 2)
      own == Newest(items, chat, IndexLimit - Cardinality(reserved))
      rest == Newest(items, global \ reserved,
                IndexLimit - Cardinality(reserved) - Cardinality(own))
  IN reserved \union own \union rest

(* No record file is older than the entry of the index that refers to it,   *)
(* whatever save was refused or cut off; and one is missing only while it   *)
(* is being replaced, or since a save broke off at just that point: the     *)
(* next save that is done has put it back, as it writes every record before *)
(* the index.  What the process serves is what the next one will read.      *)
Replaced(k) == \E p \in Procs : k \in away[p]

RecordsKept ==
  /\ \A k \in Kept(index.items) :
       \/ records[k] >= index.items[k].value
       \/ records[k] = 0 /\ (Replaced(k) \/ k \in broken)
  /\ \A p \in Procs : at[p] # "down" => mem[p] = index

(* What is remembered last is there, and only the one remembered before all *)
(* others gives way to it, also if the clock has gone back; what has been   *)
(* forgotten does not come back; a turn is shown as many entries as fit,    *)
(* the last one among them.  One process alone has both properties, a       *)
(* command beside the daemon none: each writes back what it once read.      *)
NewestKept ==
  /\ Kept(index.items) = {k \in Keys : recent[k] # 0}
  /\ \A k \in Keys : recent[k] # 0 /\ (\A j \in Keys : recent[j] <= recent[k]) =>
       k \in Indexed(index.items)
  /\ Cardinality(Indexed(index.items)) =
       LET n == Cardinality(Kept(index.items)) IN IF n < IndexLimit THEN n ELSE IndexLimit

(* What NewestKept rests on, for a process that is alone: the history tells *)
(* the index; in it and in what is being saved the entries have different   *)
(* values, and are as old as their values say; and a save is of what its    *)
(* call leaves.                                                             *)
Ordered(items) ==
  \A j, k \in Kept(items) :
    /\ items[j].value < items[k].value <=> items[j].updated < items[k].updated
    /\ items[j].value = items[k].value => j = k

Told(items, last) == \A k \in Keys : items[k].value = last[k]

RecencyInv ==
  /\ request \in [Procs -> Requests]
  /\ Ordered(index.items) /\ IsFiniteSet(Kept(index.items)) /\ Told(index.items, recent)
  /\ \A p \in Procs : at[p] = "saving" =>
       /\ Ordered(target[p].items) /\ IsFiniteSet(Kept(target[p].items))
       /\ Told(target[p].items, After(request[p]))
===============================================================================
