-------------------------- MODULE MemoryStore_proofs ---------------------------
(* Proof that a process of the memory plugin that is alone never leaves an  *)
(* entry of its index with an older record file, nor with none but where a  *)
(* save broke off, nor serves anything else than its index, whatever it is  *)
(* asked, refuses or is cut off at; and that what is remembered gives way   *)
(* in the order of the calls, not of a clock.                               *)
(* At the end, that the bridge beside it in the run keeps its promise at    *)
(* its limits, by the theorems that come with its instance.                 *)
EXTENDS MCBridge, FiniteSetTheorems, TLAPS

OneProcess == \A p, q \in Procs : p = q

MemoryTypeOK ==
  /\ index \in States
  /\ records \in [Keys -> Nat]
  /\ at \in [Procs -> {"down", "idle", "saving", "removing"}]
  /\ mem \in [Procs -> States]
  /\ target \in [Procs -> States]
  /\ left \in [Procs -> SUBSET Keys]
  /\ away \in [Procs -> SUBSET Keys]
  /\ calls \in Nat

(* A record that is not older than an entry of the index, or is missing     *)
(* because a save has moved it.                                             *)
Backed(k) ==
  \/ records[k] >= index.items[k].value
  \/ records[k] = 0 /\ (Replaced(k) \/ k \in broken)

(* Of a State being saved: no entry is older than that of the index, what   *)
(* has been written is what it says, and its values come from calls made.   *)
Advances(p) ==
  \A k \in Keys :
    LET value == target[p].items[k].value
    IN /\ value <= calls
       /\ value # 0 => value >= index.items[k].value
       /\ k \in left[p] => value # 0
       /\ value # 0 /\ k \notin left[p] => records[k] >= value

RecordsInv ==
  /\ MemoryTypeOK
  /\ \A k \in Keys : Backed(k) /\ index.items[k].value <= calls
  /\ \A p \in Procs : at[p] # "down" => mem[p] = index
  /\ \A p \in Procs : at[p] = "saving" => Advances(p) /\ away[p] \subseteq left[p]
  /\ \A p \in Procs : at[p] # "saving" => away[p] = {}
  /\ \A p \in Procs : \A j, k \in away[p] : j = k
  /\ \A p \in Procs : at[p] = "removing" => \A k \in left[p] : index.items[k].value = 0

-------------------------------------------------------------------------------
(* An entry is absent or is one of the items.                               *)
LEMMA EvictedItems ==
  ASSUME NEW items \in [Keys -> Entries]
  PROVE  /\ Evicted(items) \in [Keys -> Entries]
         /\ \A k \in Keys : Evicted(items)[k].value \in {0, items[k].value}
<1> DEFINE S == Newest(items, Kept(items), Limit)
<1>1. Evicted(items) = [k \in Keys |-> IF k \in S THEN items[k] ELSE Absent]
  BY DEF Evicted, Only
<1> HIDE DEF S
<1>2. Absent \in Entries /\ Absent.value = 0
  BY DEF Absent, Entries
<1> QED
  BY <1>1, <1>2

LEMMA RememberedState ==
  ASSUME NEW state \in States, NEW key \in Keys, NEW time \in Nat, calls \in Nat
  PROVE  /\ Remembered(state, key, time) \in States
         /\ \A k \in Keys : Remembered(state, key, time).items[k].value
                              \in {0, calls + 1, state.items[k].value}
<1> DEFINE entry == [value |-> calls + 1, updated |-> time]
           items == [state.items EXCEPT ![key] = entry]
<1>1. entry \in Entries /\ entry.value = calls + 1
  BY DEF Entries
<1>2. state.items \in [Keys -> Entries]
  BY DEF States
<1> HIDE DEF entry
<1>3. items \in [Keys -> Entries]
  BY <1>1, <1>2
<1>4. \A k \in Keys : items[k].value \in {calls + 1, state.items[k].value}
  BY <1>1, <1>2
<1>5. Remembered(state, key, time) = [state EXCEPT !.items = Evicted(items)]
  BY DEF Remembered, entry
<1> HIDE DEF items
<1>6. /\ Evicted(items) \in [Keys -> Entries]
      /\ \A k \in Keys : Evicted(items)[k].value \in {0, items[k].value}
  BY <1>3, EvictedItems
<1> DEFINE kept == Evicted(items)
<1> HIDE DEF kept
<1>7. [state EXCEPT !.items = kept] \in States /\ [state EXCEPT !.items = kept].items = kept
  BY <1>6 DEF States, kept
<1> QED
  BY <1>4, <1>5, <1>6, <1>7 DEF kept

LEMMA ForgetState ==
  ASSUME NEW state \in States, NEW key \in Keys
  PROVE  /\ Forget(state, key) \in States
         /\ \A k \in Keys : Forget(state, key).items[k].value \in {0, state.items[k].value}
<1>1. Absent \in Entries /\ Absent.value = 0
  BY DEF Absent, Entries
<1>2. state.items \in [Keys -> Entries]
  BY DEF States
<1> DEFINE items == [state.items EXCEPT ![key] = Absent]
<1>3. /\ items \in [Keys -> Entries]
      /\ \A k \in Keys : items[k].value \in {0, state.items[k].value}
  BY <1>1, <1>2
<1>4. Forget(state, key) = [state EXCEPT !.items = items]
  BY DEF Forget, States
<1> HIDE DEF items
<1>5. [state EXCEPT !.items = items] \in States /\ [state EXCEPT !.items = items].items = items
  BY <1>3 DEF States
<1> QED
  BY <1>3, <1>4, <1>5

LEMMA TimestampType ==
  ASSUME NEW items \in [Keys -> Entries], NEW now \in Times
  PROVE  NextTimestamps(items, now) \subseteq Nat
BY MemoryAssumption DEF NextTimestamps, Entries, Kept

(* A save begins: each value is gone, as it was, or of this call.           *)
LEMMA PersistInv ==
  ASSUME OneProcess, RecordsInv, NEW p \in Procs, NEW call, NEW state \in States,
         \A k \in Keys : state.items[k].value \in {0, calls + 1, mem[p].items[k].value},
         Persist(p, call, state)
  PROVE  RecordsInv'
<1>1. MemoryTypeOK'
  BY DEF RecordsInv, MemoryTypeOK, Persist, Kept, files
<1>2. (\A k \in Keys : Backed(k) /\ index.items[k].value <= calls)'
  <2>1. \A k \in Keys : index.items[k].value \in Nat
    BY DEF RecordsInv, MemoryTypeOK, States, Entries
  <2> QED
    BY <2>1 DEF RecordsInv, MemoryTypeOK, Persist, Backed, Replaced, files
<1>3. (\A q \in Procs : at[q] # "down" => mem[q] = index)'
  BY DEF RecordsInv, MemoryTypeOK, Persist
<1>6. (\A q \in Procs : at[q] # "saving" => away[q] = {})' /\ away'[p] = {}
  BY DEF OneProcess, Persist, RecordsInv, MemoryTypeOK, files
<1>4. (\A q \in Procs : at[q] = "saving" => Advances(q) /\ away[q] \subseteq left[q])'
  <2>1. SUFFICES Advances(p)'
    BY <1>6 DEF OneProcess
  <2>2. target'[p] = state /\ left'[p] = Kept(state.items)
    BY DEF Persist, RecordsInv, MemoryTypeOK
  <2>3. mem[p] = index
    BY DEF Persist, RecordsInv
  <2>4. \A k \in Keys : index.items[k].value \in Nat /\ state.items[k].value \in Nat
    BY DEF RecordsInv, MemoryTypeOK, States, Entries
  <2>5. \A k \in Keys : index.items[k].value <= calls
    BY DEF RecordsInv
  <2>6. calls \in Nat /\ calls' = calls + 1 /\ index' = index
    BY DEF Persist, RecordsInv, MemoryTypeOK
  <2>7. ASSUME NEW k \in Keys
        PROVE  /\ state.items[k].value <= calls'
               /\ state.items[k].value # 0 => state.items[k].value >= index.items[k].value
               /\ state.items[k].value # 0 <=> k \in Kept(state.items)
    BY <2>3, <2>4, <2>5, <2>6, <2>7 DEF Kept
  <2> QED
    BY <2>2, <2>6, <2>7 DEF Advances
<1>5. (\A q \in Procs : at[q] = "removing" => \A k \in left[q] : index.items[k].value = 0)'
  BY DEF OneProcess, Persist, RecordsInv, MemoryTypeOK
<1> QED
  BY <1>1, <1>2, <1>3, <1>4, <1>5, <1>6 DEF RecordsInv, OneProcess

-------------------------------------------------------------------------------
LEMMA RecordsInit == MemoryInit => RecordsInv
<1> SUFFICES ASSUME MemoryInit PROVE RecordsInv
  OBVIOUS
<1>1. index \in States /\ \A k \in Keys : index.items[k].value = 0
  BY DEF MemoryInit, Empty, States, Entries, Absent
<1>2. MemoryTypeOK
  BY <1>1 DEF MemoryInit, MemoryTypeOK
<1>3. \A k \in Keys : Backed(k) /\ index.items[k].value <= calls
  BY <1>1 DEF MemoryInit, Backed
<1>4. \A p \in Procs : at[p] = "down" /\ away[p] = {}
  BY DEF MemoryInit
<1> QED
  BY <1>2, <1>3, <1>4 DEF RecordsInv

LEMMA MoveRecordInv ==
  ASSUME OneProcess, RecordsInv, NEW p \in Procs, MoveRecord(p)
  PROVE  RecordsInv'
<1> PICK key \in left[p] : /\ records' = [records EXCEPT ![key] = 0]
                           /\ away' = [away EXCEPT ![p] = {key}]
  BY DEF MoveRecord
<1>1. UNCHANGED <<index, at, mem, target, calls, left, broken>> /\ at[p] = "saving"
  BY DEF MoveRecord
<1>2. key \in Keys
  BY DEF RecordsInv, MemoryTypeOK
<1>3. MemoryTypeOK'
  BY <1>1, <1>2 DEF RecordsInv, MemoryTypeOK
<1>4. /\ records'[key] = 0 /\ \A k \in Keys \ {key} : records'[k] = records[k]
      /\ away'[p] = {key} /\ away[p] = {}
  BY <1>2 DEF MoveRecord, RecordsInv, MemoryTypeOK
<1>5. Replaced(key)' /\ \A k \in Keys : ~Replaced(k)
  BY <1>4 DEF Replaced, OneProcess
<1>6. (\A k \in Keys : Backed(k) /\ index.items[k].value <= calls)'
  BY <1>1, <1>4, <1>5 DEF RecordsInv, Backed
<1>7. Advances(p)' /\ away'[p] \subseteq left'[p]
  BY <1>1, <1>4 DEF RecordsInv, Advances
<1> QED
  BY <1>1, <1>3, <1>6, <1>7 DEF RecordsInv, OneProcess

LEMMA WriteRecordInv ==
  ASSUME OneProcess, RecordsInv, NEW p \in Procs, WriteRecord(p)
  PROVE  RecordsInv'
<1> PICK key \in left[p] :
      /\ IF away[p] = {} THEN records[key] = 0 ELSE key \in away[p]
      /\ records' = [records EXCEPT ![key] = target[p].items[key].value]
      /\ left' = [left EXCEPT ![p] = @ \ {key}]
      /\ away' = [away EXCEPT ![p] = {}]
  BY DEF WriteRecord
<1> DEFINE written == target[p].items[key].value
<1>0. key \in Keys
  BY DEF RecordsInv, MemoryTypeOK
<1>1. written \in Nat /\ \A k \in Keys : index.items[k].value \in Nat
  BY <1>0 DEF RecordsInv, MemoryTypeOK, States, Entries
<1>2. Advances(p)
  BY DEF RecordsInv, WriteRecord
<1>3. written # 0 /\ written >= index.items[key].value
  BY <1>0, <1>2 DEF Advances
<1>4. UNCHANGED <<index, at, mem, target, calls, broken>>
  BY DEF WriteRecord
<1>5. MemoryTypeOK'
  BY <1>0, <1>1, <1>4 DEF RecordsInv, MemoryTypeOK
<1>6. /\ records'[key] = written /\ \A k \in Keys \ {key} : records'[k] = records[k]
      /\ away'[p] = {}
  BY <1>0 DEF RecordsInv, MemoryTypeOK
<1>9. \A k \in Keys \ {key} : ~Replaced(k)
  <2>1. \A k \in away[p] : k = key
    BY DEF RecordsInv
  <2> QED BY <2>1 DEF Replaced, OneProcess
<1> HIDE DEF written
<1>7. (\A k \in Keys : Backed(k) /\ index.items[k].value <= calls)'
  BY <1>3, <1>4, <1>6, <1>9 DEF RecordsInv, Backed
<1>8. (\A q \in Procs : at[q] = "saving" => Advances(q) /\ away[q] \subseteq left[q])'
  <2>1. SUFFICES Advances(p)'
    BY <1>6 DEF OneProcess
  <2>2. left'[p] = left[p] \ {key}
    BY DEF RecordsInv, MemoryTypeOK
  <2>3. target[p].items[key].value = written /\ written \in Nat
    BY <1>1 DEF written
  <2> QED
    BY <1>2, <1>4, <1>6, <2>2, <2>3 DEF Advances
<1> QED
  BY <1>4, <1>5, <1>6, <1>7, <1>8 DEF RecordsInv, WriteRecord, OneProcess

LEMMA WriteIndexInv ==
  ASSUME OneProcess, RecordsInv, NEW p \in Procs, WriteIndex(p)
  PROVE  RecordsInv'
<1>1. /\ at[p] = "saving" /\ left[p] = {} /\ Advances(p) /\ away[p] = {}
      /\ index' = target[p] /\ mem'[p] = target[p] /\ at'[p] = "removing"
      /\ left'[p] = Kept(mem[p].items) \ Kept(target[p].items)
      /\ UNCHANGED <<records, away, target, calls>>
  BY DEF RecordsInv, MemoryTypeOK, WriteIndex, InstallIndex
<1>2. MemoryTypeOK'
  BY <1>1 DEF RecordsInv, MemoryTypeOK, WriteIndex, InstallIndex, Kept
<1>3. \A k \in Keys : target[p].items[k].value \in Nat /\ records[k] \in Nat
  BY DEF RecordsInv, MemoryTypeOK, States, Entries
<1>4. (\A k \in Keys : Backed(k) /\ index.items[k].value <= calls)'
  BY <1>1, <1>3 DEF Advances, Backed
<1>5. (\A q \in Procs : at[q] = "removing" => \A k \in left[q] : index.items[k].value = 0)'
  <2>1. \A k \in left'[p] : target[p].items[k].value = 0
    BY <1>1 DEF Kept
  <2> QED
    BY <1>1, <2>1 DEF OneProcess
<1> QED
  BY <1>1, <1>2, <1>4, <1>5 DEF RecordsInv, OneProcess

LEMMA RemoveOrphanInv ==
  ASSUME OneProcess, RecordsInv, NEW p \in Procs, RemoveOrphan(p)
  PROVE  RecordsInv'
<1> PICK key \in left[p] :
      /\ records' = [records EXCEPT ![key] = 0] \/ UNCHANGED records
      /\ left' = [left EXCEPT ![p] = @ \ {key}]
  BY DEF RemoveOrphan
<1>1. UNCHANGED <<index, at, mem, target, calls, away, broken>> /\ at[p] = "removing"
  BY DEF RemoveOrphan
<1>2. key \in Keys /\ index.items[key].value = 0
  BY <1>1 DEF RecordsInv, MemoryTypeOK
<1>3. MemoryTypeOK'
  BY <1>1, <1>2 DEF RecordsInv, MemoryTypeOK
<1>4. \A k \in Keys : (records'[k] = records[k]) \/ (k = key /\ records'[k] = 0)
  <2>1. records \in [Keys -> Nat]
    BY DEF RecordsInv, MemoryTypeOK
  <2>2. CASE records' = [records EXCEPT ![key] = 0]
    BY <1>2, <2>1, <2>2
  <2>3. CASE UNCHANGED records
    BY <2>3
  <2> QED
    BY <2>2, <2>3
<1>5. (\A k \in Keys : Backed(k) /\ index.items[k].value <= calls)'
  BY <1>1, <1>2, <1>4 DEF RecordsInv, Backed, Replaced
<1>6. left'[p] \subseteq left[p]
  BY DEF RecordsInv, MemoryTypeOK
<1> QED
  BY <1>1, <1>3, <1>5, <1>6 DEF RecordsInv, OneProcess

(* What a save that breaks off has moved is missing from then on.           *)
LEMMA BrokenOff ==
  ASSUME OneProcess, RecordsInv, NEW p \in Procs, Refuse(p) \/ EndMemory(p)
  PROVE  /\ UNCHANGED <<index, records, target, calls>> /\ at'[p] \in {"idle", "down"}
         /\ away'[p] = {} /\ left'[p] = {} /\ MemoryTypeOK'
         /\ \A k \in Keys : Backed(k)'
<1>1. /\ UNCHANGED <<index, records, target, calls>> /\ at'[p] \in {"idle", "down"}
      /\ away'[p] = {} /\ left'[p] = {} /\ broken' = broken \union away[p]
  BY DEF Refuse, EndMemory, BreakOff, RecordsInv, MemoryTypeOK
<1>2. MemoryTypeOK'
  BY DEF Refuse, EndMemory, BreakOff, RecordsInv, MemoryTypeOK
<1>3. ASSUME NEW k \in Keys PROVE Backed(k)'
  <2>1. Replaced(k) => k \in broken'
    BY <1>1 DEF Replaced, OneProcess
  <2> QED BY <1>1, <2>1 DEF Backed, RecordsInv
<1> QED BY <1>1, <1>2, <1>3

LEMMA EndsInv ==
  ASSUME OneProcess, RecordsInv, NEW p \in Procs,
         Refuse(p) \/ Answer(p) \/ StartMemory(p) \/ EndMemory(p)
  PROVE  RecordsInv'
<1>1. /\ UNCHANGED <<index, records, target, calls>> /\ at'[p] \in {"idle", "down"}
      /\ away'[p] = {} /\ MemoryTypeOK' /\ \A k \in Keys : Backed(k)'
  <2>1. CASE Refuse(p) \/ EndMemory(p)
    BY <2>1, BrokenOff
  <2>2. CASE Answer(p) \/ StartMemory(p)
    <3>1. /\ UNCHANGED <<index, records, away, broken, target, calls>>
          /\ at'[p] \in {"idle", "down"} /\ away[p] = {}
      BY <2>2 DEF Answer, StartMemory, RecordsInv, MemoryTypeOK, files
    <3>2. MemoryTypeOK'
      BY <2>2 DEF Answer, StartMemory, RecordsInv, MemoryTypeOK, files
    <3>3. \A k \in Keys : Backed(k)'
      BY <3>1 DEF Backed, Replaced, RecordsInv
    <3> QED BY <3>1, <3>2, <3>3
  <2> QED BY <2>1, <2>2
<1>3. (\A q \in Procs : at[q] # "down" => mem[q] = index)'
  BY <1>1 DEF Refuse, Answer, StartMemory, EndMemory, RecordsInv, MemoryTypeOK, OneProcess
<1> QED
  BY <1>1, <1>3 DEF RecordsInv, OneProcess

LEMMA StartEmptyInv ==
  ASSUME OneProcess, RecordsInv, NEW p \in Procs, StartEmpty(p)
  PROVE  RecordsInv'
<1>1. Empty \in States /\ \A k \in Keys : Empty.items[k].value = 0
  BY DEF Empty, States, Entries, Absent
<1>2. /\ index' = Empty /\ mem'[p] = Empty /\ at'[p] = "idle"
      /\ UNCHANGED <<records, away, target, left, calls>> /\ away[p] = {}
  BY DEF StartEmpty, RecordsInv, MemoryTypeOK, files
<1>3. MemoryTypeOK'
  BY <1>1 DEF StartEmpty, RecordsInv, MemoryTypeOK, files
<1>4. (\A k \in Keys : Backed(k) /\ index.items[k].value <= calls)'
  BY <1>1, <1>2 DEF RecordsInv, MemoryTypeOK, Backed
<1> QED
  BY <1>2, <1>3, <1>4 DEF RecordsInv, OneProcess

LEMMA RecordsNext ==
  ASSUME OneProcess, RecordsInv, [MemoryNext]_memory
  PROVE  RecordsInv'
<1>1. CASE UNCHANGED memory
  BY <1>1 DEF memory, RecordsInv, MemoryTypeOK, Backed, Replaced, Advances
<1>2. ASSUME NEW p \in Procs, Remember(p) PROVE RecordsInv'
  <2>1. mem[p] \in States /\ mem[p].items \in [Keys -> Entries] /\ calls \in Nat
    BY DEF RecordsInv, MemoryTypeOK, States
  <2>2. PICK k \in Keys, now \in Times :
          \E time \in NextTimestamps(mem[p].items, now) :
            Persist(p, [what |-> "remember", keys |-> {k}], Remembered(mem[p], k, time))
    BY <1>2 DEF Remember
  <2> PICK time \in NextTimestamps(mem[p].items, now) :
        Persist(p, [what |-> "remember", keys |-> {k}], Remembered(mem[p], k, time))
    BY <2>2
  <2>3. time \in Nat
    BY <2>1, TimestampType
  <2> DEFINE state == Remembered(mem[p], k, time)
  <2>4. /\ state \in States
        /\ \A j \in Keys : state.items[j].value \in {0, calls + 1, mem[p].items[j].value}
    BY <2>1, <2>3, RememberedState
  <2> QED
    BY <2>4, PersistInv
<1>3. ASSUME NEW p \in Procs, ForgetKey(p) PROVE RecordsInv'
  <2>1. mem[p] \in States
    BY DEF RecordsInv, MemoryTypeOK
  <2>2. PICK k \in Keys :
          Persist(p, [what |-> "forget", keys |-> {k}], Forget(mem[p], k))
    BY <1>3 DEF ForgetKey
  <2>3. /\ Forget(mem[p], k) \in States
        /\ \A j \in Keys :
             Forget(mem[p], k).items[j].value \in {0, calls + 1, mem[p].items[j].value}
    BY <2>1, ForgetState
  <2> QED
    BY <2>2, <2>3, PersistInv
<1>4. ASSUME NEW p \in Procs, SetLearning(p) PROVE RecordsInv'
  <2>1. mem[p] \in States
    BY DEF RecordsInv, MemoryTypeOK
  <2>2. PICK mode \in {"guided", "autonomous"} :
          Persist(p, Learn, [mem[p] EXCEPT !.learning = mode])
    BY <1>4 DEF SetLearning
  <2> DEFINE state == [mem[p] EXCEPT !.learning = mode]
  <2>3. state \in States /\ state.items = mem[p].items
    BY <2>1 DEF States
  <2> HIDE DEF state
  <2>4. \A j \in Keys : state.items[j].value \in {0, calls + 1, mem[p].items[j].value}
    BY <2>3
  <2> QED
    BY <2>2, <2>3, <2>4, PersistInv DEF state
<1> QED
  BY <1>1, <1>2, <1>3, <1>4, MoveRecordInv, WriteRecordInv, WriteIndexInv, RemoveOrphanInv,
     EndsInv, StartEmptyInv DEF MemoryNext

(* One process alone: no record file is older than its entry, one is        *)
(* missing only where a save is replacing it or broke off as it did, until  *)
(* a save is done, and memory and index agree, through every refused save   *)
(* and every end of the process.                                            *)
THEOREM RecordsAlwaysKept == OneProcess => (MemorySpec => []RecordsKept)
<1> SUFFICES ASSUME OneProcess PROVE MemorySpec => []RecordsKept
  OBVIOUS
<1>1. RecordsInv => RecordsKept
  BY DEF RecordsInv, RecordsKept, Backed, Kept
<1>2. RecordsInv /\ [MemoryNext]_memory => RecordsInv'
  BY RecordsNext
<1> QED
  BY <1>1, <1>2, RecordsInit, PTL DEF MemorySpec

-------------------------------------------------------------------------------
(* The n newest of a set of entries that are all of different times are n,  *)
(* or all if there are fewer: the number of newer ones ranks them.          *)
LEMMA NewestSize ==
  ASSUME NEW items, NEW S, IsFiniteSet(S), NEW n \in Nat,
         \A k \in S : items[k].updated \in Nat,
         \A j, k \in S : items[j].updated = items[k].updated => j = k
  PROVE  /\ Newest(items, S, n) \subseteq S /\ IsFiniteSet(Newest(items, S, n))
         /\ Cardinality(S) \in Nat
         /\ Cardinality(Newest(items, S, n)) = IF n < Cardinality(S) THEN n ELSE Cardinality(S)
<1> DEFINE Newer(k) == {j \in S : items[j].updated > items[k].updated}
           size == Cardinality(S)
           Ranks == 0..(size - 1)
           rank == [k \in S |-> Cardinality(Newer(k))]
<1>1. size \in Nat
  BY FS_CardinalityType
<1>2. ASSUME NEW k \in S
      PROVE  /\ IsFiniteSet(Newer(k)) /\ Cardinality(Newer(k)) \in Nat
             /\ Cardinality(Newer(k)) < size
  <2>1. Newer(k) \in SUBSET S /\ k \notin Newer(k)
    OBVIOUS
  <2>2. IsFiniteSet(Newer(k)) /\ Cardinality(Newer(k)) <= size /\ Cardinality(Newer(k)) # size
    BY <2>1, FS_Subset
  <2>3. Cardinality(Newer(k)) \in Nat
    BY <2>2, FS_CardinalityType
  <2> QED BY <1>1, <2>2, <2>3
<1>3. ASSUME NEW j \in S, NEW k \in S, items[j].updated > items[k].updated
      PROVE  Cardinality(Newer(j)) # Cardinality(Newer(k))
  <2>1. Newer(j) \in SUBSET Newer(k) /\ j \in Newer(k) /\ j \notin Newer(j)
    BY <1>3
  <2> QED BY <1>2, <2>1, FS_Subset
<1>4. \A k \in S : rank[k] = Cardinality(Newer(k)) /\ rank[k] \in Ranks
  <2>1. TAKE k \in S
  <2> DEFINE card == Cardinality(Newer(k))
  <2>2. card \in Nat /\ card < size
    BY <1>2
  <2>3. rank[k] = card
    OBVIOUS
  <2> HIDE DEF card, size, rank
  <2>4. card \in Ranks
    BY <1>1, <2>2
  <2> QED BY <2>3, <2>4 DEF card
<1>5. ASSUME NEW j \in S, NEW k \in S, rank[j] = rank[k] PROVE j = k
  <2>1. Cardinality(Newer(j)) = Cardinality(Newer(k))
    BY <1>4, <1>5
  <2>2. ~ (items[j].updated > items[k].updated) /\ ~ (items[k].updated > items[j].updated)
    BY <1>3, <2>1
  <2>3. items[j].updated \in Nat /\ items[k].updated \in Nat
    OBVIOUS
  <2>4. items[j].updated = items[k].updated
    BY <2>2, <2>3
  <2> QED BY <2>4
<1>6. IsFiniteSet(Ranks) /\ Cardinality(Ranks) = size
  BY <1>1, FS_Interval
<1> HIDE DEF rank
<1>7. rank \in Injection(S, Ranks)
  <2>1. rank \in [S -> Ranks]
    BY <1>4 DEF rank
  <2> QED BY <1>5, <2>1 DEF Injection, IsInjective
<1> HIDE DEF Ranks, size
<1>8. \A r \in Ranks : \E k \in S : rank[k] = r
  BY <1>6, <1>7, FS_Injection DEF Surjection, size
<1> DEFINE N == {k \in S : rank[k] < n}
           count == IF n < size THEN n ELSE size
           First == 0..(count - 1)
           order == [k \in N |-> rank[k]]
<1>9. Newest(items, S, n) = N
  BY DEF Newest, rank
<1>10. count \in Nat /\ IsFiniteSet(First) /\ Cardinality(First) = count
  BY <1>1, FS_Interval
<1>11. \A r : r \in First <=> r \in Ranks /\ r < n
  BY <1>1 DEF Ranks
<1>12. order \in [N -> First]
  BY <1>4, <1>11
<1>13. \A r \in First : \E k \in N : order[k] = r
  BY <1>8, <1>11
<1>14. \A j, k \in N : order[j] = order[k] => j = k
  BY <1>5
<1>15. N \in SUBSET S /\ IsFiniteSet(N)
  BY FS_Subset
<1> HIDE DEF N, First, order
<1>16. order \in Bijection(N, First)
  BY <1>12, <1>13, <1>14 DEF Bijection, Injection, Surjection, IsInjective
<1>17. Cardinality(First) = Cardinality(N)
  BY <1>15, <1>16, FS_Bijection DEF ExistsBijection
<1> QED
  BY <1>1, <1>9, <1>10, <1>15, <1>17 DEF size

-------------------------------------------------------------------------------
(* All of a save is of what it is asked for.                                *)
Recent(items, last) ==
  Ordered(items) /\ IsFiniteSet(Kept(items)) /\ Told(items, last)

(* The time of what is remembered is after that of all that is kept.        *)
LEMMA TimestampNewest ==
  ASSUME NEW items \in [Keys -> Entries], NEW now \in Times,
         NEW time \in NextTimestamps(items, now)
  PROVE  time \in Nat /\ \A k \in Kept(items) : items[k].updated < time
<1>1. time \in Nat
  BY TimestampType
<1>2. ASSUME NEW k \in Kept(items) PROVE items[k].updated < time
  <2>1. items[k].updated + 1 <= time /\ items[k].updated \in Nat
    BY DEF NextTimestamps, Kept, Entries
  <2> QED BY <1>1, <2>1
<1> QED BY <1>1, <1>2

(* Of entries with an order, those that are newest are those of the calls   *)
(* that are last.                                                           *)
LEMMA EvictedRecent ==
  ASSUME NEW items \in [Keys -> Entries], NEW last, Recent(items, last)
  PROVE  Recent(Evicted(items), Lasting(last))
<1> DEFINE S == Newest(items, Kept(items), Limit)
           kept == Evicted(items)
<1>1. \A k \in Keys : kept[k] = IF k \in S THEN items[k] ELSE Absent
  BY DEF Evicted, Only
<1>2. S \subseteq Kept(items) /\ Kept(items) \subseteq Keys
  BY DEF Newest, Kept
<1>3. \A k \in Keys : items[k].value \in Nat /\ items[k].updated \in Nat /\ last[k] = items[k].value
  BY DEF Entries, Recent, Told
<1>4. Absent.value = 0
  BY DEF Absent
<1>5. Kept(kept) = S /\ \A k \in S : kept[k] = items[k]
  BY <1>1, <1>2, <1>4 DEF Kept
<1>6. Ordered(kept) /\ IsFiniteSet(Kept(kept))
  <2>1. IsFiniteSet(S)
    BY <1>2, FS_Subset DEF Recent
  <2> HIDE DEF kept, S
  <2> QED BY <1>2, <1>5, <2>1 DEF Recent, Ordered
<1>7. ASSUME NEW k \in Keys PROVE kept[k].value = Lasting(last)[k]
  <2>1. Lasting(last)[k] = IF Cardinality({j \in Keys : last[j] > last[k]}) < Limit THEN last[k] ELSE 0
    BY DEF Lasting
  <2>2. CASE items[k].value = 0
    BY <1>1, <1>3, <1>4, <2>1, <2>2
  <2>3. CASE items[k].value # 0
    <3>1. k \in Kept(items)
      BY <2>3 DEF Kept
    <3>2. {j \in Kept(items) : items[j].updated > items[k].updated}
            = {j \in Keys : last[j] > last[k]}
      <4>1. ASSUME NEW j \in Keys
            PROVE  last[j] > last[k] <=> j \in Kept(items) /\ items[j].updated > items[k].updated
        <5>1. CASE j \in Kept(items)
          BY <1>3, <3>1, <5>1 DEF Recent, Ordered
        <5>2. CASE j \notin Kept(items)
          <6>1. items[j].value = 0
            BY <5>2 DEF Kept
          <6> QED BY <1>3, <5>2, <6>1
        <5> QED BY <5>1, <5>2
      <4> QED BY <1>2, <4>1
    <3>3. k \in S <=> Cardinality({j \in Keys : last[j] > last[k]}) < Limit
      BY <3>1, <3>2 DEF Newest
    <3> QED BY <1>1, <1>3, <1>4, <2>1, <3>3
  <2> QED BY <2>2, <2>3
<1> QED
  BY <1>6, <1>7 DEF Recent, Told

(* A new entry is the newest, and what gives way to it is the oldest.       *)
LEMMA RememberedRecent ==
  ASSUME NEW state \in States, NEW last, Recent(state.items, last), calls \in Nat,
         \A k \in Keys : state.items[k].value <= calls,
         NEW key \in Keys, NEW time \in Nat,
         \A k \in Kept(state.items) : state.items[k].updated < time
  PROVE  Recent(Remembered(state, key, time).items,
                Lasting([k \in Keys |-> IF k \in {key} THEN calls + 1 ELSE last[k]]))
<1> DEFINE entry == [value |-> calls + 1, updated |-> time]
           items == [state.items EXCEPT ![key] = entry]
           then == [k \in Keys |-> IF k \in {key} THEN calls + 1 ELSE last[k]]
<1>1. entry \in Entries /\ entry.value = calls + 1 /\ entry.updated = time
  BY DEF Entries
<1>2. state.items \in [Keys -> Entries]
  BY DEF States
<1>3. \A k \in Keys : state.items[k].value \in Nat /\ state.items[k].updated \in Nat
  BY <1>2 DEF Entries
<1> HIDE DEF entry
<1>4. /\ items \in [Keys -> Entries]
      /\ items[key] = entry
      /\ \A k \in Keys \ {key} : items[k] = state.items[k]
  BY <1>1, <1>2
<1>5. Remembered(state, key, time).items = Evicted(items)
  BY DEF Remembered, entry, States
<1> HIDE DEF items
<1>6. Kept(items) = Kept(state.items) \union {key}
  BY <1>1, <1>4 DEF Kept
<1>7. IsFiniteSet(Kept(items))
  BY <1>6, FS_AddElement DEF Recent
<1>8. Told(items, then)
  BY <1>1, <1>4 DEF Told, Recent
<1>9. Ordered(items)
  <2> SUFFICES ASSUME NEW j \in Kept(items), NEW k \in Kept(items)
               PROVE  /\ items[j].value < items[k].value <=> items[j].updated < items[k].updated
                      /\ items[j].value = items[k].value => j = k
    BY DEF Ordered
  <2>1. \A i \in Kept(items) \ {key} :
          /\ i \in Kept(state.items) /\ i \in Keys /\ items[i] = state.items[i]
          /\ items[i].value <= calls /\ items[i].updated < time
          /\ items[i].value \in Nat /\ items[i].updated \in Nat
    BY <1>3, <1>4, <1>6 DEF Kept
  <2>2. items[key].value = calls + 1 /\ items[key].updated = time
    BY <1>1, <1>4
  <2>3. CASE j # key /\ k # key
    BY <2>1, <2>3 DEF Recent, Ordered
  <2>4. CASE j = key \/ k = key
    <3>1. CASE j = key /\ k = key
      BY <2>2, <3>1
    <3>2. CASE j = key /\ k # key
      BY <2>1, <2>2, <3>2
    <3>3. CASE j # key /\ k = key
      BY <2>1, <2>2, <3>3
    <3> QED BY <2>4, <3>1, <3>2, <3>3
  <2> QED BY <2>3, <2>4
<1> HIDE DEF then
<1>10. Recent(Evicted(items), Lasting(then))
  BY <1>4, <1>7, <1>8, <1>9, EvictedRecent DEF Recent
<1> QED
  BY <1>5, <1>10 DEF then

(* An entry that is forgotten leaves the others as they were.               *)
LEMMA ForgetRecent ==
  ASSUME NEW state \in States, NEW last, Recent(state.items, last), NEW key \in Keys
  PROVE  Recent(Forget(state, key).items, [k \in Keys |-> IF k \in {key} THEN 0 ELSE last[k]])
<1> DEFINE items == [state.items EXCEPT ![key] = Absent]
<1>1. Absent \in Entries /\ Absent.value = 0
  BY DEF Absent, Entries
<1>2. state.items \in [Keys -> Entries]
  BY DEF States
<1>3. /\ items[key].value = 0
      /\ \A k \in Keys \ {key} : items[k] = state.items[k]
  BY <1>1, <1>2
<1>4. Forget(state, key).items = items
  BY DEF Forget, States
<1> HIDE DEF items
<1>5. Kept(items) = Kept(state.items) \ {key} /\ Kept(items) \subseteq Keys
  BY <1>3 DEF Kept
<1>6. IsFiniteSet(Kept(items))
  BY <1>5, FS_Subset DEF Recent
<1>7. Ordered(items)
  BY <1>3, <1>5 DEF Recent, Ordered
<1>8. Told(items, [k \in Keys |-> IF k \in {key} THEN 0 ELSE last[k]])
  BY <1>3 DEF Told, Recent
<1> QED
  BY <1>4, <1>6, <1>7, <1>8 DEF Recent

(* A save begins, of what its call leaves.                                  *)
LEMMA PersistRecency ==
  ASSUME OneProcess, RecordsInv, RecencyInv, NEW p \in Procs, NEW call \in Requests,
         NEW state, Persist(p, call, state), Recent(state.items, After(call)')
  PROVE  RecencyInv'
<1>1. /\ UNCHANGED <<index, recent>>
      /\ target'[p] = state /\ request'[p] = call /\ request' \in [Procs -> Requests]
  BY DEF Persist, RecordsInv, MemoryTypeOK, RecencyInv
<1>2. After(request[p])' = After(call)'
  BY <1>1 DEF After
<1> QED
  BY <1>1, <1>2 DEF RecencyInv, Recent, OneProcess, Told

(* The three calls that save.                                               *)
LEMMA RememberRecency ==
  ASSUME OneProcess, RecordsInv, RecencyInv, NEW p \in Procs, Remember(p)
  PROVE  RecencyInv'
<1>1. mem[p] \in States /\ mem[p].items \in [Keys -> Entries] /\ calls \in Nat
  BY DEF RecordsInv, MemoryTypeOK, States
<1>2. PICK k \in Keys, now \in Times :
        \E time \in NextTimestamps(mem[p].items, now) :
          Persist(p, [what |-> "remember", keys |-> {k}], Remembered(mem[p], k, time))
  BY DEF Remember
<1> PICK time \in NextTimestamps(mem[p].items, now) :
      Persist(p, [what |-> "remember", keys |-> {k}], Remembered(mem[p], k, time))
  BY <1>2
<1> DEFINE call == [what |-> "remember", keys |-> {k}]
           state == Remembered(mem[p], k, time)
<1>3. time \in Nat /\ \A j \in Kept(mem[p].items) : mem[p].items[j].updated < time
  BY <1>1, TimestampNewest
<1>4. mem[p] = index /\ calls' = calls + 1 /\ recent' = recent
  BY DEF Persist, RecordsInv
<1>5. Recent(mem[p].items, recent) /\ \A j \in Keys : mem[p].items[j].value <= calls
  BY <1>4 DEF RecencyInv, RecordsInv, Recent
<1>6. Recent(state.items, Lasting([j \in Keys |-> IF j \in {k} THEN calls + 1 ELSE recent[j]]))
  BY <1>1, <1>3, <1>5, RememberedRecent
<1>7. call \in Requests /\ call.what = "remember" /\ call.keys = {k}
  BY DEF Requests
<1> HIDE DEF state, call
<1>8. After(call)' = Lasting([j \in Keys |-> IF j \in {k} THEN calls + 1 ELSE recent[j]])
  BY <1>4, <1>7 DEF After, Lasting
<1> QED
  BY <1>6, <1>7, <1>8, PersistRecency DEF state, call

LEMMA ForgetRecency ==
  ASSUME OneProcess, RecordsInv, RecencyInv, NEW p \in Procs, ForgetKey(p)
  PROVE  RecencyInv'
<1> PICK k \in Keys : Persist(p, [what |-> "forget", keys |-> {k}], Forget(mem[p], k))
  BY DEF ForgetKey
<1> DEFINE call == [what |-> "forget", keys |-> {k}]
<1>1. mem[p] = index /\ recent' = recent /\ mem[p] \in States
  BY DEF Persist, RecordsInv, MemoryTypeOK
<1>2. Recent(mem[p].items, recent)
  BY <1>1 DEF RecencyInv, Recent
<1>3. Recent(Forget(mem[p], k).items, [j \in Keys |-> IF j \in {k} THEN 0 ELSE recent[j]])
  BY <1>1, <1>2, ForgetRecent
<1>4. call \in Requests /\ call.what = "forget" /\ call.keys = {k}
  BY DEF Requests
<1> HIDE DEF call
<1>5. After(call)' = [j \in Keys |-> IF j \in {k} THEN 0 ELSE recent[j]]
  BY <1>1, <1>4 DEF After
<1> QED
  BY <1>3, <1>4, <1>5, PersistRecency DEF call

LEMMA LearnRecency ==
  ASSUME OneProcess, RecordsInv, RecencyInv, NEW p \in Procs, SetLearning(p)
  PROVE  RecencyInv'
<1> PICK mode \in {"guided", "autonomous"} :
      Persist(p, Learn, [mem[p] EXCEPT !.learning = mode])
  BY DEF SetLearning
<1> DEFINE state == [mem[p] EXCEPT !.learning = mode]
<1>1. mem[p] = index /\ recent' = recent /\ mem[p] \in States
  BY DEF Persist, RecordsInv, MemoryTypeOK
<1>2. state.items = index.items
  BY <1>1 DEF States
<1>3. Learn \in Requests /\ Learn.what = "learning" /\ Learn.keys = {}
  BY DEF Learn, Requests
<1>4. \A j \in Keys : After(Learn)'[j] = recent[j]
  BY <1>1, <1>3 DEF After
<1> HIDE DEF state
<1>5. Recent(state.items, After(Learn)')
  BY <1>2, <1>4 DEF Recent, RecencyInv, Told
<1> QED
  BY <1>3, <1>5, PersistRecency DEF state

(* An empty index, and no call.                                             *)
LEMMA NothingRecent ==
  Recent(Empty.items, [k \in Keys |-> 0])
<1>1. Kept(Empty.items) = {}
  BY DEF Kept, Empty, Absent
<1> QED
  BY <1>1, FS_EmptySet DEF Recent, Ordered, Told, Empty, Absent

(* RecencyInv is inductive, together with RecordsInv.                       *)
LEMMA RecencyInit == MemoryInit => RecencyInv
<1> SUFFICES ASSUME MemoryInit PROVE RecencyInv
  OBVIOUS
<1>1. index = Empty /\ recent = [k \in Keys |-> 0] /\ \A p \in Procs : at[p] = "down"
  BY DEF MemoryInit
<1>2. request \in [Procs -> Requests]
  BY DEF MemoryInit, Learn, Requests
<1> QED
  BY <1>1, <1>2, NothingRecent DEF RecencyInv, Recent

LEMMA RecencyNext ==
  ASSUME OneProcess, RecordsInv, RecencyInv, [MemoryNext]_memory
  PROVE  RecencyInv'
<1>1. CASE UNCHANGED memory
  <2>1. UNCHANGED <<index, at, target, request, recent, calls>>
    BY <1>1 DEF memory
  <2> QED
    BY <2>1 DEF RecencyInv, Ordered, Told, After
<1>2. ASSUME NEW p \in Procs, WriteIndex(p) PROVE RecencyInv'
  <2>1. /\ at[p] = "saving" /\ index' = target[p] /\ recent' = After(request[p])
        /\ at'[p] = "removing" /\ UNCHANGED request
    BY <1>2 DEF WriteIndex, InstallIndex, RecordsInv, MemoryTypeOK
  <2>2. Recent(target[p].items, After(request[p]))
    BY <2>1 DEF RecencyInv, Recent
  <2> QED
    BY <2>1, <2>2 DEF RecencyInv, Recent, OneProcess
<1>3. ASSUME NEW p \in Procs, StartEmpty(p) PROVE RecencyInv'
  <2>1. /\ index' = Empty /\ recent' = [k \in Keys |-> 0] /\ at'[p] = "idle"
        /\ UNCHANGED request
    BY <1>3 DEF StartEmpty, RecordsInv, MemoryTypeOK
  <2> QED
    BY <2>1, NothingRecent DEF RecencyInv, Recent, OneProcess
<1>4. ASSUME NEW p \in Procs,
             MoveRecord(p) \/ WriteRecord(p) \/ RemoveOrphan(p) \/ Refuse(p) \/ Answer(p)
               \/ StartMemory(p) \/ EndMemory(p)
      PROVE  RecencyInv'
  <2>1. UNCHANGED <<index, recent, target, request, calls>>
    BY <1>4 DEF MoveRecord, WriteRecord, RemoveOrphan, Refuse, Answer, StartMemory, EndMemory
  <2>2. at'[p] = "saving" => at[p] = "saving"
    BY <1>4 DEF MoveRecord, WriteRecord, RemoveOrphan, Refuse, Answer, StartMemory, EndMemory,
                RecordsInv, MemoryTypeOK
  <2>3. \A q \in Procs : After(request[q])' = After(request[q])
    BY <2>1 DEF After
  <2> QED
    BY <2>1, <2>2, <2>3 DEF RecencyInv, Ordered, Told, OneProcess
<1> QED
  BY <1>1, <1>2, <1>3, <1>4, RememberRecency, ForgetRecency, LearnRecency DEF MemoryNext

(* With an order, the entries of the index have different times.            *)
LEMMA OrderedTimes ==
  ASSUME NEW items \in [Keys -> Entries], Ordered(items)
  PROVE  /\ \A k \in Kept(items) : items[k].updated \in Nat
         /\ \A j, k \in Kept(items) : items[j].updated = items[k].updated => j = k
<1>1. \A k \in Kept(items) : items[k].updated \in Nat /\ items[k].value \in Nat
  BY DEF Kept, Entries
<1>2. ASSUME NEW j \in Kept(items), NEW k \in Kept(items), items[j].updated = items[k].updated
      PROVE  j = k
  <2>1. ~ (items[j].value < items[k].value) /\ ~ (items[k].value < items[j].value)
    BY <1>1, <1>2 DEF Ordered
  <2>2. items[j].value = items[k].value
    BY <1>1, <2>1
  <2> QED BY <2>2 DEF Ordered
<1> QED BY <1>1, <1>2

(* The three parts of what is shown are as many entries as fit.             *)
LEMMA IndexedSize ==
  ASSUME NEW items \in [Keys -> Entries], Ordered(items), IsFiniteSet(Kept(items))
  PROVE  LET n == Cardinality(Kept(items))
         IN  Cardinality(Indexed(items)) = IF n < IndexLimit THEN n ELSE IndexLimit
<1> DEFINE kept == Kept(items)
           global == kept \intersect Global
           chat == kept \ Global
           half == IndexLimit \div 2
           reserved == Newest(items, global, half)
           r == Cardinality(reserved)
           own == Newest(items, chat, IndexLimit - r)
           o == Cardinality(own)
           others == global \ reserved
           rest == Newest(items, others, IndexLimit - r - o)
           t == Cardinality(rest)
           g == Cardinality(global)
           c == Cardinality(chat)
           n == Cardinality(kept)
           w == Cardinality(others)
<1>1. /\ \A k \in kept : items[k].updated \in Nat
      /\ \A j, k \in kept : items[j].updated = items[k].updated => j = k
  BY OrderedTimes
<1>2. IsFiniteSet(global) /\ IsFiniteSet(chat) /\ IsFiniteSet(others)
  <2>1. global \in SUBSET kept /\ chat \in SUBSET kept /\ others \in SUBSET kept
    OBVIOUS
  <2> HIDE DEF global, chat, others
  <2> QED BY <2>1, FS_Subset
<1>3. IndexLimit \in Nat /\ half \in Nat /\ half <= IndexLimit
  BY MemoryAssumption
<1> HIDE DEF half
<1>4. reserved \subseteq global /\ IsFiniteSet(reserved) /\ g \in Nat /\ r = IF half < g THEN half ELSE g
  BY <1>1, <1>2, <1>3, NewestSize
<1> HIDE DEF r, reserved
<1>5. r \in Nat /\ r <= half /\ IndexLimit - r \in Nat
  BY <1>3, <1>4
<1>6. own \subseteq chat /\ IsFiniteSet(own) /\ c \in Nat
      /\ o = IF IndexLimit - r < c THEN IndexLimit - r ELSE c
  BY <1>1, <1>2, <1>5, NewestSize
<1> HIDE DEF own, o
<1>7. o \in Nat /\ IndexLimit - r - o \in Nat
  BY <1>3, <1>5, <1>6
<1>8. rest \subseteq others /\ IsFiniteSet(rest) /\ w \in Nat
      /\ t = IF IndexLimit - r - o < w THEN IndexLimit - r - o ELSE w
  BY <1>1, <1>2, <1>7, NewestSize
<1> HIDE DEF rest, t
<1>9. n = g + c
  <2>1. kept = global \union chat /\ global \intersect chat = {}
    OBVIOUS
  <2>2. Cardinality(global \union chat)
          = Cardinality(global) + Cardinality(chat) - Cardinality(global \intersect chat)
    BY <1>2, FS_Union
  <2>3. Cardinality(global \intersect chat) = 0
    BY <2>1, FS_EmptySet
  <2>4. Cardinality(kept) = Cardinality(global \union chat)
    BY <2>1
  <2> HIDE DEF global, chat, kept
  <2> QED BY <1>4, <1>6, <2>2, <2>3, <2>4
<1>10. g = r + w
  <2>1. global = reserved \union others /\ reserved \intersect others = {}
    BY <1>4
  <2>2. Cardinality(reserved \union others)
          = Cardinality(reserved) + Cardinality(others) - Cardinality(reserved \intersect others)
    BY <1>2, <1>4, FS_Union
  <2>3. Cardinality(reserved \intersect others) = 0
    BY <2>1, FS_EmptySet
  <2>4. Cardinality(global) = Cardinality(reserved \union others)
    BY <2>1
  <2> HIDE DEF global, others
  <2> QED BY <1>5, <1>8, <2>2, <2>3, <2>4 DEF r
<1>11. Cardinality(Indexed(items)) = r + o + t
  <2>1. Indexed(items) = (reserved \union own) \union rest
    BY DEF Indexed, reserved, own, rest, r, o, half
  <2>2. reserved \intersect own = {} /\ (reserved \union own) \intersect rest = {}
    BY <1>4, <1>6, <1>8
  <2>3. Cardinality(reserved \union own)
          = Cardinality(reserved) + Cardinality(own) - Cardinality(reserved \intersect own)
    BY <1>4, <1>6, FS_Union
  <2>4. IsFiniteSet(reserved \union own)
    BY <1>4, <1>6, FS_Union
  <2>5. Cardinality((reserved \union own) \union rest)
          = Cardinality(reserved \union own) + Cardinality(rest)
              - Cardinality((reserved \union own) \intersect rest)
    BY <1>8, <2>4, FS_Union
  <2>6. Cardinality(reserved \intersect own) = 0
        /\ Cardinality((reserved \union own) \intersect rest) = 0
    BY <2>2, FS_EmptySet
  <2>7. t \in Nat
    BY <1>7, <1>8
  <2> QED BY <1>5, <1>7, <2>1, <2>3, <2>5, <2>6, <2>7 DEF r, o, t
<1> HIDE DEF kept, global, chat, others, g, c, n, w
<1>12. r + o + t = IF n < IndexLimit THEN n ELSE IndexLimit
  BY <1>3, <1>4, <1>5, <1>6, <1>7, <1>8, <1>9, <1>10
<1> QED
  BY <1>11, <1>12 DEF n, kept

(* The last of all is among those that are shown.                           *)
LEMMA LastIndexed ==
  ASSUME NEW items \in [Keys -> Entries], Ordered(items), IsFiniteSet(Kept(items)),
         NEW k \in Kept(items), \A j \in Kept(items) : items[j].updated <= items[k].updated
  PROVE  k \in Indexed(items)
<1> DEFINE global == Kept(items) \intersect Global
           chat == Kept(items) \ Global
           half == IndexLimit \div 2
           reserved == Newest(items, global, half)
           r == Cardinality(reserved)
           own == Newest(items, chat, IndexLimit - r)
<1>1. /\ \A j \in Kept(items) : items[j].updated \in Nat
      /\ \A i, j \in Kept(items) : items[i].updated = items[j].updated => i = j
  BY OrderedTimes
<1>2. half \in Nat /\ 0 < half /\ half < IndexLimit /\ IndexLimit \in Nat
  BY MemoryAssumption
<1> HIDE DEF half
<1>3. ASSUME NEW S \in SUBSET Kept(items), NEW n \in Nat, 0 < n, k \in S
      PROVE  k \in Newest(items, S, n)
  <2>1. {j \in S : items[j].updated > items[k].updated} = {}
    BY <1>1, <1>3
  <2> QED BY <1>3, <2>1, FS_EmptySet DEF Newest
<1>4. CASE k \in Global
  <2>1. k \in reserved
    BY <1>2, <1>3, <1>4
  <2> QED BY <2>1 DEF Indexed, half
<1>5. CASE k \notin Global
  <2>1. IsFiniteSet(global)
    <3>1. global \in SUBSET Kept(items)
      OBVIOUS
    <3> QED BY <3>1, FS_Subset
  <2>2. /\ Cardinality(global) \in Nat
        /\ r = IF half < Cardinality(global) THEN half ELSE Cardinality(global)
    BY <1>1, <1>2, <2>1, NewestSize
  <2> HIDE DEF r
  <2>3. IndexLimit - r \in Nat /\ 0 < IndexLimit - r
    BY <1>2, <2>2
  <2>4. k \in own
    BY <1>3, <1>5, <2>3
  <2> QED BY <2>4 DEF Indexed, r, half
<1> QED BY <1>4, <1>5

(* Together they have NewestKept.                                           *)
LEMMA RecencyNewest ==
  ASSUME RecordsInv, RecencyInv
  PROVE  NewestKept
<1> DEFINE items == index.items
<1>1. items \in [Keys -> Entries] /\ Ordered(items) /\ IsFiniteSet(Kept(items))
  BY DEF RecordsInv, MemoryTypeOK, States, RecencyInv
<1>2. \A k \in Keys : items[k].value = recent[k]
  BY DEF RecencyInv, Told
<1> HIDE DEF items
<1>3. Kept(items) = {k \in Keys : recent[k] # 0}
  BY <1>2 DEF Kept
<1>4. ASSUME NEW k \in Keys, recent[k] # 0, \A j \in Keys : recent[j] <= recent[k]
      PROVE  k \in Indexed(items)
  <2>1. k \in Kept(items)
    BY <1>3, <1>4
  <2>2. ASSUME NEW j \in Kept(items) PROVE items[j].updated <= items[k].updated
    <3>1. j \in Keys /\ items[j].value <= items[k].value
      BY <1>2, <1>4 DEF Kept
    <3>2. /\ items[j].value \in Nat /\ items[k].value \in Nat
          /\ items[j].updated \in Nat /\ items[k].updated \in Nat
      BY <1>1, <3>1 DEF Entries
    <3>3. ~ (items[k].updated < items[j].updated)
      BY <1>1, <2>1, <3>1, <3>2 DEF Ordered
    <3> QED BY <3>2, <3>3
  <2> QED BY <1>1, <2>1, <2>2, LastIndexed
<1>5. Cardinality(Indexed(items)) =
        LET n == Cardinality(Kept(items)) IN IF n < IndexLimit THEN n ELSE IndexLimit
  BY <1>1, IndexedSize
<1> QED
  BY <1>3, <1>4, <1>5 DEF NewestKept, items

(* One process alone: what was remembered last is there and shown, what was *)
(* forgotten is gone, and only what was remembered before all others ever   *)
(* gives way, whatever the clock says.                                      *)
THEOREM NewestAlwaysKept == OneProcess => (MemorySpec => []NewestKept)
<1> SUFFICES ASSUME OneProcess PROVE MemorySpec => []NewestKept
  OBVIOUS
<1>1. MemoryInit => RecordsInv /\ RecencyInv
  BY RecordsInit, RecencyInit
<1>2. RecordsInv /\ RecencyInv /\ [MemoryNext]_memory => (RecordsInv /\ RecencyInv)'
  BY RecordsNext, RecencyNext
<1>3. RecordsInv /\ RecencyInv => NewestKept
  BY RecencyNewest
<1> QED
  BY <1>1, <1>2, <1>3, PTL DEF MemorySpec

-----------------------------------------------------------------------------
(* The bridge at its limits, which the run has beside the plugin.          *)

LEMMA SameSizes ==
  ASSUME NEW S
  PROVE  /\ Full!IsFiniteSet(S) <=> IsFiniteSet(S)
         /\ Full!Cardinality(S) = Cardinality(S)
BY DEF Full!IsFiniteSet, IsFiniteSet, Full!Cardinality, Cardinality

(* Its constants are such as the bridge assumes.                           *)
LEMMA LimitsFit ==
  /\ Full!IsFiniteSet({1, 2}) /\ Full!IsFiniteSet({1, 2, 3})
  /\ {1, 2, 3} = 1..Full!Cardinality({1, 2, 3})
  /\ <<1, 2, 1>> \in [{1, 2, 3} -> {1, 2}]
<1>1. /\ IsFiniteSet({1}) /\ Cardinality({1}) = 1
      /\ {1, 2} = {1} \cup {2} /\ {1, 2, 3} = {1, 2} \cup {3}
  BY FS_Singleton
<1>2. IsFiniteSet({1, 2}) /\ Cardinality({1, 2}) = 2
  BY <1>1, FS_AddElement
<1>3. IsFiniteSet({1, 2, 3}) /\ Cardinality({1, 2, 3}) = 3
  BY <1>1, <1>2, FS_AddElement
<1>4. {1, 2, 3} = 1..3
  OBVIOUS
<1>5. <<1, 2, 1>> \in [{1, 2, 3} -> {1, 2}]
  OBVIOUS
<1> QED BY <1>2, <1>3, <1>4, <1>5, SameSizes

LEMMA LimitsTurns == Full!Spec => []Full!HandledOnce
BY LimitsFit, Full!MessagesHandledOnce

LEMMA LimitsEvents == Full!Spec => []Full!NoEventLost
BY LimitsFit, Full!NothingLost

LEMMA LimitsQueues == Full!Spec => []Full!QueueBound
BY LimitsFit, Full!QueuesBounded

(* With as many sessions, queued and deferred events and deliveries as the *)
(* bridge admits, and a scheduled task's session among them, its store     *)
(* loses no committed event and queues no more than the limit, and while   *)
(* no lease has lost its turn each message is handled once.                *)
THEOREM LimitsKept == BridgeSpec => []KeptAtLimits
<1>1. BridgeInit => Full!Init
  BY DEF BridgeInit
<1>2. [BridgeNext]_all => [Full!Next]_Full!vars
  BY DEF BridgeNext, all, second, Full!vars, Full!store, Full!task, Full!cancelling, Full!bounds,
         Full!history
<1>3. Full!HandledOnce /\ Full!NoEventLost /\ Full!QueueBound => KeptAtLimits
  BY DEF KeptAtLimits
<1> QED
  BY <1>1, <1>2, <1>3, LimitsTurns, LimitsEvents, LimitsQueues, PTL
  DEF BridgeSpec, Full!Spec
================================================================================
