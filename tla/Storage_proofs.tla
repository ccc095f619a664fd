----------------------------- MODULE Storage_proofs -----------------------------
(* What is kept on disk.  When journals are written whole and a save that  *)
(* has moved the old file away does not fail (it may still be cut off by a *)
(* crash), the writer is an atomic file; whatever is torn or fails, a save *)
(* that succeeded is what is loaded.  The session catalog over the writer  *)
(* can always be read back, and what was admitted or stored before a crash *)
(* is in it, for any number of events, crashes and failed saves.  What a   *)
(* terminal client owns it finds as it left it, a summary skips nobody     *)
(* else's messages, and a cancellation waits for the turn it is to stop;   *)
(* turns of one session overlap in five ways only.                         *)
EXTENDS MCStorage, TLAPS, FiniteSetTheorems

Whole == ~Torn /\ ~StuckMid

LEMMA InitInReach == Init => IInv
  BY FileAssumption
  DEF Init, IInv, TypeOK, Txns, Phases, Saving, Sweeping, FileInReach, Settled, OthersQuiet, Progress

-----------------------------------------------------------------------------
(* A save keeps the file within reach of recovery.                         *)

LEMMA StartKeepsReach ==
  ASSUME IInv, WriteTemporary
  PROVE  IInv'
<1> USE FileAssumption DEF WriteTemporary, IInv, Txns
<1>1. started + 1 \in Txns /\ started \in Nat /\ pc = "idle" /\ Settled
  BY DEF TypeOK, Progress
<1>2. TypeOK'
  BY <1>1 DEF TypeOK, Saving, Sweeping
<1>3. backup[started + 1] = 0 /\ journal[started + 1] # "backed_up"
  BY <1>1 DEF OthersQuiet
<1>4. OthersQuiet'
  BY <1>1, <1>3 DEF OthersQuiet, Progress
<1>5. Settled'
  BY <1>1, <1>3 DEF Settled
<1>6. Progress'
  <2>1. temp'[cur'] = cur'
    BY <1>1 DEF TypeOK
  <2> QED BY <1>1, <1>3, <1>5, <2>1 DEF Progress, Saving
<1> QED BY <1>2, <1>4, <1>5, <1>6 DEF FileInReach

LEMMA SaveKeepsReach ==
  ASSUME IInv, Whole, Save
  PROVE  IInv'
<1> USE FileAssumption DEF IInv, Txns, Whole
<1>0. started \in Nat /\ (pc \in Saving => cur = started /\ cur \in Txns /\ cur # 0)
  BY DEF TypeOK, Saving
<1>1. ASSUME WriteTemporary PROVE IInv'
  BY <1>1, StartKeepsReach
<1>2. ASSUME TearJournal PROVE IInv'
  BY <1>2 DEF TearJournal
<1>3. ASSUME Prepare PROVE IInv'
  <2> USE <1>3 DEF Prepare, WriteJournal
  <2>1. TypeOK'
    BY <1>0 DEF TypeOK, Phases, Saving, Sweeping
  <2>2. Settled /\ Settled'
    BY <1>0 DEF Settled, Progress, TypeOK, Saving
  <2>3. OthersQuiet'
    BY <1>0 DEF OthersQuiet, TypeOK, Saving, Progress
  <2>4. Progress'
    BY <1>0, <2>2 DEF Progress, TypeOK, Saving
  <2> QED BY <2>1, <2>2, <2>3, <2>4 DEF FileInReach
<1>4. ASSUME BackUp PROVE IInv'
  <2>1. /\ pc = "backup" /\ Settled /\ cur = started /\ cur \in Txns
        /\ journal[cur] # "backed_up" /\ backup[cur] = 0 /\ temp[cur] = cur
        /\ started \in allowed
    BY <1>0, <1>4 DEF BackUp, Progress, Saving
  <2>2. UNCHANGED <<temp, journal, cur, started, allowed, loaded>>
    BY <1>4 DEF BackUp
  <2>3. CASE path # 0
    <3>1. backup' = [backup EXCEPT ![cur] = path] /\ path' = 0 /\ pc' = "mark"
      BY <1>4, <2>3 DEF BackUp
    <3>2. path \in 1..Saves /\ path \in allowed /\ backup'[started] = path
      BY <2>1, <2>3, <3>1 DEF TypeOK, Settled
    <3>3. TypeOK'
      BY <1>0, <2>1, <2>2, <3>1, <3>2 DEF TypeOK, Saving, Sweeping
    <3>4. journal[cur] = "prepared"
      BY <2>1 DEF Progress
    <3>5. MovedAway'
      BY <1>0, <2>1, <2>2, <3>1, <3>2, <3>4 DEF MovedAway, Sweeping
    <3>6. OthersQuiet'
      <4>1. ASSUME NEW n \in Txns, n # started PROVE backup'[n] = backup[n]
        BY <2>1, <3>1, <4>1 DEF TypeOK
      <4> QED BY <2>1, <2>2, <3>4, <4>1 DEF OthersQuiet
    <3>7. Progress'
      BY <1>0, <2>1, <2>2, <3>1, <3>5 DEF Progress, Saving
    <3> QED BY <3>3, <3>5, <3>6, <3>7 DEF FileInReach
  <2>4. CASE path = 0
    <3>1. pc' = "install" /\ UNCHANGED <<path, backup>>
      BY <1>4, <2>4 DEF BackUp
    <3>2. TypeOK'
      BY <1>0, <2>1, <2>2, <3>1 DEF TypeOK, Saving, Sweeping
    <3>3. Settled'
      BY <2>1, <2>2, <3>1 DEF Settled
    <3>4. OthersQuiet' /\ Progress'
      BY <1>0, <2>1, <2>2, <2>4, <3>1 DEF OthersQuiet, Progress, Saving
    <3> QED BY <3>2, <3>3, <3>4 DEF FileInReach
  <2> QED BY <2>3, <2>4
<1>5. ASSUME MarkBackedUp PROVE IInv'
  <2> USE <1>5 DEF MarkBackedUp, WriteJournal
  <2>1. TypeOK'
    BY <1>0 DEF TypeOK, Phases, Saving, Sweeping
  <2>2. MovedAway /\ cur = started /\ cur \in Txns /\ temp[cur] = cur /\ started \in allowed
    BY <1>0 DEF Progress, Saving
  <2>3. MovedAway'
    BY <1>0, <2>2 DEF MovedAway, TypeOK, Sweeping
  <2>4. OthersQuiet'
    BY <1>0, <2>2 DEF OthersQuiet, TypeOK
  <2>5. Progress'
    BY <1>0, <2>2 DEF Progress, MovedAway, Saving
  <2> QED BY <2>1, <2>3, <2>4, <2>5 DEF FileInReach
<1>6. ASSUME Install PROVE IInv'
  <2> USE <1>6 DEF Install
  <2>1. TypeOK'
    BY <1>0 DEF TypeOK, Saving, Sweeping
  <2>2. path' = cur /\ cur # 0 /\ cur \in allowed
    BY <1>0 DEF Progress, Saving
  <2>3. Settled'
    BY <1>0, <2>2 DEF Settled
  <2>4. OthersQuiet' /\ Progress'
    BY <1>0, <2>2 DEF OthersQuiet, Progress, Saving
  <2> QED BY <2>1, <2>3, <2>4 DEF FileInReach
<1>7. ASSUME NoteInstalled PROVE IInv'
  <2> USE <1>7 DEF NoteInstalled, WriteJournal
  <2>1. TypeOK'
    BY <1>0 DEF TypeOK, Phases, Saving, Sweeping
  <2>2. path = cur /\ cur # 0 /\ cur = started /\ cur \in allowed
    BY <1>0 DEF Progress, Saving
  <2>3. Settled'
    BY <2>2 DEF Settled
  <2>4. OthersQuiet' /\ Progress'
    BY <1>0, <2>2 DEF OthersQuiet, Progress, TypeOK, Saving
  <2> QED BY <2>1, <2>3, <2>4 DEF FileInReach
<1>8. ASSUME DropBackup PROVE IInv'
  <2> USE <1>8 DEF DropBackup
  <2>1. TypeOK'
    BY <1>0 DEF TypeOK, Saving, Sweeping
  <2>2. path = cur /\ cur # 0 /\ cur = started /\ cur \in allowed /\ journal[cur] = "installed"
    BY <1>0 DEF Progress, Saving
  <2>3. Settled'
    BY <2>2 DEF Settled
  <2>4. OthersQuiet' /\ Progress'
    BY <1>0, <2>2 DEF OthersQuiet, Progress, TypeOK, Saving
  <2> QED BY <2>1, <2>3, <2>4 DEF FileInReach
<1>9. ASSUME Close \/ UnsyncedClose PROVE IInv'
  <2> USE <1>9 DEF Close, UnsyncedClose
  <2>1. TypeOK'
    BY <1>0 DEF TypeOK, Phases, Saving, Sweeping
  <2>2. /\ path = cur /\ cur # 0 /\ cur = started /\ cur \in allowed
        /\ cur \in Txns /\ backup[cur] = 0
    BY <1>0 DEF Progress, Saving
  <2>3. Settled'
    BY <2>2 DEF Settled
  <2>4. OthersQuiet' /\ Progress'
    BY <1>0, <2>2, <2>3 DEF OthersQuiet, Progress, TypeOK, Saving
  <2> QED BY <2>1, <2>3, <2>4 DEF FileInReach
<1>10. ASSUME Fail PROVE IInv'
  <2> USE <1>10 DEF Fail
  <2>1. TypeOK'
    BY <1>0 DEF TypeOK, Saving, Sweeping
  <2>2. /\ pc \in {"prepare", "backup", "close"} /\ cur = started /\ cur \in Txns
        /\ backup[cur] = 0 /\ journal[cur] # "backed_up"
    BY <1>0 DEF Progress, Saving, MidSave
  <2>3. Settled /\ Settled'
    BY <1>0, <2>2 DEF Settled, Progress, Saving
  <2>4. OthersQuiet' /\ Progress'
    BY <1>0, <2>2, <2>3 DEF OthersQuiet, Progress, Saving
  <2> QED BY <2>1, <2>3, <2>4 DEF FileInReach
<1>11. ASSUME KeepBackup PROVE IInv'
  BY <1>11 DEF KeepBackup
<1> QED
  BY <1>1, <1>2, <1>3, <1>4, <1>5, <1>6, <1>7, <1>8, <1>9, <1>10, <1>11 DEF Save

-----------------------------------------------------------------------------
(* Recovery brings it back.                                                *)

LEMMA RecoveryKeepsReach ==
  ASSUME IInv, NEW n \in Txns, RecoverJournal(n)
  PROVE  IInv'
<1> USE FileAssumption DEF IInv, Txns
<1>1. /\ pc = "recover" /\ pc' = "sweep_temp" /\ cur' = n
      /\ journal[n] \notin {"none", "torn"}
      /\ UNCHANGED <<journal, started, allowed, loaded>>
  BY DEF RecoverJournal
<1>2. started \in Nat /\ path \in Nat /\ temp[n] \in 0..Saves /\ backup[n] \in 0..Saves
  BY DEF TypeOK
<1>3. /\ Source(n) = "temp" => path' = temp[n] /\ temp' = [temp EXCEPT ![n] = 0] /\ UNCHANGED backup
      /\ Source(n) = "backup" => path' = backup[n] /\ backup' = [backup EXCEPT ![n] = 0] /\ UNCHANGED temp
      /\ Source(n) \notin {"temp", "backup"} => UNCHANGED <<path, temp, backup>>
  BY DEF RecoverJournal
<1>4. Source(n) \in {"stay", "temp", "backup"}
  BY DEF Source
<1>6. backup' = backup \/ backup' = [backup EXCEPT ![n] = 0]
  BY <1>3, <1>4
<1>5. TypeOK'
  <2>1. path' \in 0..Saves
    BY <1>2, <1>3, <1>4 DEF TypeOK
  <2>2. temp' \in [1..Saves -> 0..Saves]
    <3>1. temp' = temp \/ temp' = [temp EXCEPT ![n] = 0]
      BY <1>3, <1>4
    <3>2. temp \in [1..Saves -> 0..Saves]
      BY DEF TypeOK
    <3>3. 0 \in 0..Saves
      BY <1>2
    <3> QED BY <3>1, <3>2, <3>3
  <2>3. backup' \in [1..Saves -> 0..Saves]
    BY <1>2, <1>6 DEF TypeOK
  <2>4. /\ pc' \in {"down", "idle", "recover"} \cup Saving \cup Sweeping
        /\ pc' \notin Saving
    BY <1>1 DEF Saving, Sweeping
  <2>5. cur' \in 1..Saves /\ cur' \in 0..Saves
    BY <1>1
  <2> QED BY <1>1, <2>1, <2>2, <2>3, <2>4, <2>5 DEF TypeOK
<1>7. OthersQuiet'
  BY <1>1, <1>6 DEF OthersQuiet, TypeOK
<1>8. Progress'
  BY <1>1 DEF Progress, Saving
<1>9. CASE Settled
  <2>1. path # 0 => Source(n) = "stay"
    BY DEF Source
  <2>2. path = 0 => Source(n) = "stay"
    <3>1. path = 0 => backup[n] = 0 /\ journal[n] # "backed_up"
      BY <1>9 DEF Settled, OthersQuiet
    <3> QED BY <3>1 DEF Source
  <2>3. Settled'
    BY <1>1, <1>3, <1>9, <2>1, <2>2 DEF Settled
  <2> QED BY <1>5, <1>7, <1>8, <2>3 DEF FileInReach
<1>10. CASE MovedAway /\ n # started
  <2>1. Source(n) = "stay"
    BY <1>10 DEF MovedAway, OthersQuiet, Source
  <2>2. MovedAway'
    BY <1>1, <1>3, <1>10, <2>1 DEF MovedAway, Sweeping
  <2> QED BY <1>5, <1>7, <1>8, <2>2 DEF FileInReach
<1>11. CASE MovedAway /\ n = started
  <2>1. Source(n) \in {"temp", "backup"}
    BY <1>11 DEF MovedAway, Source
  <2>2. Source(n) = "temp" => temp[n] # 0
    BY DEF Source
  <2>3. path' \in allowed /\ path' # 0
    BY <1>3, <1>11, <2>1, <2>2 DEF MovedAway
  <2>4. Settled'
    BY <1>1, <2>3 DEF Settled
  <2> QED BY <1>5, <1>7, <1>8, <2>4 DEF FileInReach
<1> QED BY <1>9, <1>10, <1>11 DEF FileInReach

(* What is loaded is allowed: with no journal left the file is in place.   *)
LEMMA InReachIsAllowed == IInv => LoadAllowed
<1> SUFFICES ASSUME IInv, pc = "recover", Recovered PROVE path \in allowed
  BY DEF LoadAllowed
<1>1. ~MovedAway
  BY DEF MovedAway, Recovered
<1> QED BY <1>1 DEF IInv, FileInReach, Settled

LEMMA LoadKeepsReach ==
  ASSUME IInv, Whole, Load
  PROVE  IInv'
<1> USE FileAssumption DEF IInv, Txns, Whole
<1>0. started \in Nat /\ (pc \in Sweeping => cur \in Txns)
  BY DEF TypeOK
<1>1. ASSUME StartLoad PROVE IInv'
  <2> USE <1>1 DEF StartLoad, disk
  <2>1. TypeOK' /\ OthersQuiet' /\ Progress'
    BY DEF TypeOK, Saving, Sweeping, OthersQuiet, Progress
  <2>2. Settled => Settled'
    BY DEF Settled
  <2>3. MovedAway => MovedAway'
    BY DEF MovedAway, Sweeping
  <2> QED BY <2>1, <2>2, <2>3 DEF FileInReach
<1>2. ASSUME NEW n \in Txns, RecoverJournal(n) PROVE IInv'
  BY <1>2, RecoveryKeepsReach
<1>3. ASSUME NEW n \in Txns, ForgetJournal(n) PROVE IInv'
  BY <1>3 DEF ForgetJournal, OthersQuiet
<1>4. ASSUME SweepTemporary PROVE IInv'
  <2> USE <1>4 DEF SweepTemporary
  <2>1. TypeOK' /\ OthersQuiet' /\ Progress'
    BY <1>0 DEF TypeOK, Saving, Sweeping, OthersQuiet, Progress
  <2>2. Settled => Settled'
    BY DEF Settled
  <2>3. MovedAway => MovedAway'
    BY <1>0 DEF MovedAway, Sweeping, TypeOK
  <2> QED BY <2>1, <2>2, <2>3 DEF FileInReach
<1>5. ASSUME SweepBackup PROVE IInv'
  <2> USE <1>5 DEF SweepBackup
  <2>1. TypeOK' /\ OthersQuiet'
    BY <1>0 DEF TypeOK, Saving, Sweeping, OthersQuiet
  <2>2. Progress'
    BY <1>0 DEF TypeOK, Saving, Sweeping, Progress
  <2>3. Settled => Settled'
    BY <1>0 DEF Settled, TypeOK, Sweeping
  <2>4. MovedAway => MovedAway'
    BY <1>0 DEF MovedAway, Sweeping, TypeOK
  <2> QED BY <2>1, <2>2, <2>3, <2>4 DEF FileInReach
<1>6. ASSUME SweepJournal PROVE IInv'
  <2> USE <1>6 DEF SweepJournal
  <2>1. backup[cur] = 0
    BY DEF Progress
  <2>2. TypeOK' /\ OthersQuiet' /\ Progress'
    BY <1>0, <2>1 DEF TypeOK, Phases, Saving, Sweeping, OthersQuiet, Progress
  <2>3. Settled => Settled'
    BY <1>0 DEF Settled, TypeOK, Sweeping
  <2>4. MovedAway => MovedAway'
    BY <1>0 DEF MovedAway, Sweeping, TypeOK
  <2> QED BY <2>2, <2>3, <2>4 DEF FileInReach
<1>7. ASSUME Loaded PROVE IInv'
  <2> USE <1>7 DEF Loaded, disk
  <2>1. path \in allowed
    BY InReachIsAllowed DEF LoadAllowed
  <2>2. TypeOK' /\ OthersQuiet'
    BY DEF TypeOK, Saving, Sweeping, OthersQuiet
  <2>3. started \in Txns => backup[started] = 0 /\ journal[started] # "backed_up"
    BY DEF Recovered, OthersQuiet
  <2>4. Settled'
    BY <2>3 DEF Settled
  <2>5. Progress'
    BY <2>3, <2>4 DEF Progress, Saving
  <2> QED BY <2>2, <2>4, <2>5 DEF FileInReach
<1> QED BY <1>1, <1>2, <1>3, <1>4, <1>5, <1>6, <1>7 DEF Load

LEMMA CrashKeepsReach ==
  ASSUME IInv, Crash
  PROVE  IInv'
<1> USE DEF Crash, IInv, disk
<1>1. TypeOK' /\ OthersQuiet' /\ Progress'
  BY DEF TypeOK, Saving, Sweeping, OthersQuiet, Progress
<1>2. Settled => Settled'
  BY DEF Settled
<1>3. MovedAway => MovedAway'
  BY DEF MovedAway, Sweeping
<1> QED BY <1>1, <1>2, <1>3 DEF FileInReach

-----------------------------------------------------------------------------
(* The invariant, and what follows from it.                                *)

LEMMA InReach == ASSUME Whole PROVE Spec => []IInv
<1>1. IInv /\ [Next]_vars => IInv'
  <2> SUFFICES ASSUME IInv, [Next]_vars PROVE IInv'
    OBVIOUS
  <2>1. CASE UNCHANGED vars
    BY <2>1 DEF vars, disk, IInv, TypeOK, FileInReach, Settled, MovedAway, OthersQuiet, Progress
  <2>2. CASE Next
    BY <2>2, SaveKeepsReach, LoadKeepsReach, CrashKeepsReach DEF Next
  <2> QED BY <2>1, <2>2
<1> QED BY <1>1, InitInReach, PTL DEF Spec

(* Recovery (krabb_file::recover) brings back the content of the last save *)
(* that succeeded or of one begun since, for any number of saves and       *)
(* crashes, the crashes of a recovery included.                            *)
THEOREM LoadsAllowed == ASSUME Whole PROVE Spec => []LoadAllowed
  BY InReach, InReachIsAllowed, PTL

(* save and load (krabb_file) implement the atomic file.                   *)
THEOREM FileIsAtomic == ASSUME Whole PROVE Spec => Atomic
<1>1. Init => Promise!Init
  BY DEF Init, Promise!Init, Saving
<1>2. IInv /\ [Next]_vars => [Promise!Next]_(Promise!vars)
  <2> SUFFICES ASSUME IInv, [Next]_vars PROVE [Promise!Next]_(Promise!vars)
    OBVIOUS
  <2> USE FileAssumption DEF Txns
  <2> DEFINE writing == IF pc \in Saving THEN cur ELSE 0
  <2>0. started \in Nat /\ (pc \in Saving => cur \in Txns)
    BY DEF IInv, TypeOK
  <2>1. ASSUME WriteTemporary PROVE Promise!Next
    <3>1. started + 1 \in Txns
      BY <2>0, <2>1 DEF WriteTemporary
    <3>2. Promise!Begin(started + 1)
      BY <2>1 DEF WriteTemporary, Promise!Begin, Saving
    <3> QED BY <3>1, <3>2 DEF Promise!Next
  <2>2. ASSUME UNCHANGED <<cur, allowed, loaded>>, pc \in Saving, pc' \in Saving
        PROVE  UNCHANGED Promise!vars
    BY <2>2 DEF Promise!vars
  <2>3. ASSUME UNCHANGED <<allowed, loaded>>, pc \notin Saving, pc' \notin Saving
        PROVE  UNCHANGED Promise!vars
    BY <2>3 DEF Promise!vars
  <2>4. ASSUME UNCHANGED <<allowed, loaded>>, pc \in Saving, pc' \notin Saving
        PROVE  Promise!Next
    BY <2>0, <2>4 DEF Promise!Next, Promise!GiveUp
  <2>5. ASSUME Close PROVE Promise!Next
    BY <2>0, <2>5 DEF Close, Promise!Next, Promise!Succeed, Saving
  <2>6. ASSUME Loaded PROVE Promise!Next
    <3>1. path \in allowed
      BY <2>6, InReachIsAllowed DEF LoadAllowed, Loaded
    <3>2. Promise!Load(path)
      BY <2>6, <3>1 DEF Loaded, Promise!Load, Saving
    <3> QED BY <3>1, <3>2 DEF Promise!Next
  <2>7. CASE Save
    <3>1. CASE TearJournal \/ Prepare \/ BackUp \/ MarkBackedUp \/ Install
               \/ NoteInstalled \/ DropBackup \/ KeepBackup
      <4>1. UNCHANGED <<cur, allowed, loaded>> /\ pc \in Saving /\ pc' \in Saving
        BY <3>1 DEF TearJournal, Prepare, BackUp, MarkBackedUp, Install, NoteInstalled,
                    DropBackup, KeepBackup, WriteJournal, Saving
      <4> QED BY <2>2, <4>1
    <3>2. CASE Fail \/ UnsyncedClose
      <4>1. UNCHANGED <<allowed, loaded>> /\ pc \in Saving /\ pc' \notin Saving
        BY <3>2 DEF Fail, UnsyncedClose, Saving
      <4> QED BY <2>4, <4>1
    <3> QED BY <2>1, <2>5, <2>7, <3>1, <3>2 DEF Save
  <2>8. CASE Load
    <3>1. CASE ~Loaded
      <4>1. UNCHANGED <<allowed, loaded>> /\ pc \notin Saving /\ pc' \notin Saving
        BY <2>8, <3>1 DEF Load, StartLoad, RecoverJournal, ForgetJournal, SweepTemporary,
                          SweepBackup, SweepJournal, Saving
      <4> QED BY <2>3, <4>1
    <3> QED BY <2>6, <3>1
  <2>9. CASE Crash
    <3>1. UNCHANGED <<allowed, loaded>> /\ pc' \notin Saving
      BY <2>9 DEF Crash, Saving
    <3> QED BY <2>3, <2>4, <3>1
  <2>10. CASE UNCHANGED vars
    BY <2>10 DEF vars, Promise!vars
  <2> QED BY <2>7, <2>8, <2>9, <2>10 DEF Next
<1> QED BY <1>1, <1>2, InReach, PTL DEF Spec, Atomic, Promise!Spec
-----------------------------------------------------------------------------
(* The writer whose journals may be torn and whose saves may fail at any    *)
(* call.  Nothing is assumed of the directory but what SuccessInv says.     *)

LEMMA LeftoverSave ==
  ASSUME Leftovers!SuccessInv, Leftovers!Save
  PROVE  Leftovers!SuccessInv'
<1> USE LeftoverAssumption
<1> USE DEF Leftovers!SuccessInv, Leftovers!Saving, Leftovers!Txns, Leftovers!Recovered
<1>0. /\ path2 \in 0..started2 /\ 0 \in 0..started2
      /\ temp2 \in [1..LeftoverSaves -> 0..started2]
      /\ backup2 \in [1..LeftoverSaves -> 0..started2]
      /\ journal2 \in [1..LeftoverSaves -> Leftovers!Phases]
  BY DEF Leftovers!Contained
<1>1. CASE Leftovers!WriteTemporary
  <2>1. /\ started2 \in 0..LeftoverSaves /\ started2 # LeftoverSaves
        /\ started2' = started2 + 1 /\ cur2' = started2 + 1
        /\ started2' \in 1..LeftoverSaves /\ started2' \notin allowed2
        /\ allowed2' = allowed2 \cup {started2'}
        /\ UNCHANGED <<path2, backup2, journal2, loaded2>> /\ pc2' = "prepare"
    BY <1>1 DEF Leftovers!WriteTemporary, Leftovers!Contained
  <2>2. /\ temp2' \in [1..LeftoverSaves -> 0..started2'] /\ temp2'[cur2'] = cur2'
        /\ backup2' \in [1..LeftoverSaves -> 0..started2'] /\ path2' \in 0..started2'
    BY <1>1, <2>1 DEF Leftovers!WriteTemporary, Leftovers!Contained
  <2>3. Leftovers!Contained'
    BY <2>1, <2>2 DEF Leftovers!Contained
  <2>4. \E a, b \in allowed2' : a # b
    <3>1. PICK a \in allowed2 : a # started2'
      BY <2>1 DEF Leftovers!Contained
    <3> QED BY <2>1, <3>1
  <2>5. Leftovers!SaveInPlace' /\ Leftovers!OnlyOneLeft'
    BY <2>1, <2>2, <2>4 DEF Leftovers!SaveInPlace, Leftovers!OnlyOneLeft
  <2> QED BY <2>3, <2>5
<1>2. ASSUME ~Leftovers!WriteTemporary PROVE pc2 \in Leftovers!Saving
  BY <1>2 DEF Leftovers!Save, Leftovers!TearJournal, Leftovers!Prepare, Leftovers!BackUp,
              Leftovers!MarkBackedUp, Leftovers!Install, Leftovers!NoteInstalled,
              Leftovers!DropBackup, Leftovers!Close, Leftovers!Fail, Leftovers!KeepBackup,
              Leftovers!UnsyncedClose
<1>3. ASSUME pc2 \in Leftovers!Saving, UNCHANGED <<allowed2, started2, cur2>>, Leftovers!Contained',
             pc2' \in {"prepare", "backup", "mark", "install"} => temp2'[cur2] = cur2,
             pc2' \in {"note", "drop", "close"} => path2' = cur2
      PROVE  Leftovers!SuccessInv'
  <2>1. cur2 \in allowed2 /\ allowed2 # {cur2} /\ cur2 = started2 /\ cur2 \in 1..LeftoverSaves
    BY <1>3 DEF Leftovers!SaveInPlace
  <2>2. \A c \in allowed2 : allowed2 # {c}
    BY <2>1
  <2> QED BY <1>3, <2>1, <2>2 DEF Leftovers!SaveInPlace, Leftovers!OnlyOneLeft
<1>4. ASSUME pc2 \in Leftovers!Saving
      PROVE  /\ cur2 \in 1..LeftoverSaves /\ cur2 = started2
             /\ pc2 \in {"prepare", "backup", "mark", "install"} => temp2[cur2] = cur2
             /\ pc2 \in {"note", "drop", "close"} => path2 = cur2
  BY <1>4 DEF Leftovers!SaveInPlace
<1>5. CASE Leftovers!TearJournal
  <2>1. Leftovers!Contained'
    BY <1>4, <1>5 DEF Leftovers!TearJournal, Leftovers!Contained, Leftovers!Phases
  <2> QED BY <1>3, <1>4, <1>5, <2>1 DEF Leftovers!TearJournal
<1>6. CASE Leftovers!Prepare \/ Leftovers!MarkBackedUp \/ Leftovers!NoteInstalled
  <2>1. Leftovers!Contained'
    BY <1>6 DEF Leftovers!Prepare, Leftovers!MarkBackedUp, Leftovers!NoteInstalled,
                Leftovers!WriteJournal, Leftovers!Contained, Leftovers!Phases
  <2> QED BY <1>3, <1>4, <1>6, <2>1
        DEF Leftovers!Prepare, Leftovers!MarkBackedUp, Leftovers!NoteInstalled,
            Leftovers!WriteJournal
<1>7. CASE Leftovers!BackUp
  <2>1. backup2' \in [1..LeftoverSaves -> 0..started2] /\ path2' \in 0..started2
    <3>1. \/ backup2' = [backup2 EXCEPT ![cur2] = path2] /\ path2' = 0
          \/ UNCHANGED <<path2, backup2>>
      BY <1>7 DEF Leftovers!BackUp
    <3> QED BY <1>0, <3>1
  <2>2. Leftovers!Contained'
    BY <1>7, <2>1 DEF Leftovers!BackUp, Leftovers!Contained
  <2> QED BY <1>3, <1>4, <1>7, <2>2 DEF Leftovers!BackUp
<1>8. CASE Leftovers!Install
  <2>1. Leftovers!Contained' /\ path2' = cur2
    BY <1>4, <1>8 DEF Leftovers!Install, Leftovers!Contained
  <2> QED BY <1>3, <1>4, <1>8, <2>1 DEF Leftovers!Install
<1>9. CASE Leftovers!DropBackup \/ Leftovers!KeepBackup
  <2>1. backup2' \in [1..LeftoverSaves -> 0..started2] /\ UNCHANGED <<path2, temp2, journal2>>
    BY <1>4, <1>9
      DEF Leftovers!DropBackup, Leftovers!KeepBackup, Leftovers!Contained, Leftovers!disk
  <2>2. Leftovers!Contained'
    BY <1>9, <2>1 DEF Leftovers!DropBackup, Leftovers!KeepBackup, Leftovers!Contained
  <2> QED BY <1>3, <1>4, <1>9, <2>1, <2>2
        DEF Leftovers!DropBackup, Leftovers!KeepBackup, Leftovers!disk
<1>10. CASE Leftovers!Close
  <2>1. path2 = cur2 /\ cur2 \in 1..LeftoverSaves /\ cur2 = started2
    BY <1>4, <1>10 DEF Leftovers!Close
  <2>2. Leftovers!Contained'
    BY <1>10, <2>1 DEF Leftovers!Close, Leftovers!Contained, Leftovers!Phases
  <2> QED BY <1>10, <2>1, <2>2 DEF Leftovers!Close, Leftovers!SaveInPlace, Leftovers!OnlyOneLeft
<1>11. CASE Leftovers!Fail \/ Leftovers!UnsyncedClose
  <2>1. /\ temp2' \in [1..LeftoverSaves -> 0..started2]
        /\ journal2' \in [1..LeftoverSaves -> Leftovers!Phases]
        /\ UNCHANGED <<path2, backup2, started2, allowed2>>
    <3>1. "none" \in Leftovers!Phases
      BY DEF Leftovers!Phases
    <3>2. CASE Leftovers!Fail
      BY <1>0, <3>2 DEF Leftovers!Fail
    <3>3. CASE Leftovers!UnsyncedClose
      BY <1>0, <3>1, <3>3 DEF Leftovers!UnsyncedClose
    <3> QED BY <1>11, <3>2, <3>3
  <2>2. Leftovers!Contained'
    BY <2>1 DEF Leftovers!Contained
  <2> QED BY <1>3, <1>4, <1>11, <2>2 DEF Leftovers!Fail, Leftovers!UnsyncedClose
<1> QED
  BY <1>1, <1>5, <1>6, <1>7, <1>8, <1>9, <1>10, <1>11 DEF Leftovers!Save
LEMMA LeftoverLoad ==
  ASSUME Leftovers!SuccessInv, Leftovers!Load
  PROVE  Leftovers!SuccessInv'
<1> USE LeftoverAssumption
<1> USE DEF Leftovers!SuccessInv, Leftovers!Saving, Leftovers!Txns, Leftovers!Recovered
<1>0. /\ path2 \in 0..started2 /\ 0 \in 0..started2
      /\ temp2 \in [1..LeftoverSaves -> 0..started2]
      /\ backup2 \in [1..LeftoverSaves -> 0..started2]
      /\ journal2 \in [1..LeftoverSaves -> Leftovers!Phases]
  BY DEF Leftovers!Contained
<1>1. ASSUME UNCHANGED <<allowed2, started2, path2>>, Leftovers!Contained',
             \A n \in 1..LeftoverSaves : journal2[n] = "none" => journal2'[n] = "none",
             pc2' \notin Leftovers!Saving
      PROVE  Leftovers!SuccessInv'
  BY <1>1 DEF Leftovers!SaveInPlace, Leftovers!OnlyOneLeft
<1>2. CASE Leftovers!StartLoad
  <2>1. Leftovers!Contained'
    BY <1>2 DEF Leftovers!StartLoad, Leftovers!Contained, Leftovers!disk
  <2> QED BY <1>1, <1>2, <2>1 DEF Leftovers!StartLoad, Leftovers!disk
<1>3. ASSUME NEW n \in 1..LeftoverSaves, Leftovers!RecoverJournal(n) PROVE Leftovers!SuccessInv'
  <2>0. journal2[n] # "none" /\ pc2' = "sweep_temp"
        /\ UNCHANGED <<journal2, started2, allowed2>>
    BY <1>3 DEF Leftovers!RecoverJournal
  <2>1. Leftovers!Contained'
    <3>1. \/ UNCHANGED <<path2, temp2, backup2>>
          \/ path2' = temp2[n] /\ temp2' = [temp2 EXCEPT ![n] = 0] /\ UNCHANGED backup2
          \/ path2' = backup2[n] /\ backup2' = [backup2 EXCEPT ![n] = 0] /\ UNCHANGED temp2
      BY <1>3 DEF Leftovers!RecoverJournal
    <3>2. /\ path2' \in 0..started2 /\ temp2' \in [1..LeftoverSaves -> 0..started2]
          /\ backup2' \in [1..LeftoverSaves -> 0..started2]
      <4>1. temp2[n] \in 0..started2 /\ backup2[n] \in 0..started2
        BY <1>0
      <4> QED BY <1>0, <3>1, <4>1
    <3> QED BY <2>0, <3>2 DEF Leftovers!Contained
  <2>2. path2 # 0 => path2' = path2
    BY <1>3 DEF Leftovers!RecoverJournal, Leftovers!Source
  <2>3. ASSUME NEW c \in allowed2, allowed2 = {c} PROVE path2' = c /\ c # 0
    BY <2>0, <2>2, <2>3 DEF Leftovers!OnlyOneLeft
  <2> QED BY <2>0, <2>1, <2>3 DEF Leftovers!SaveInPlace, Leftovers!OnlyOneLeft
<1>4. ASSUME NEW n \in 1..LeftoverSaves, Leftovers!ForgetJournal(n) PROVE Leftovers!SuccessInv'
  <2>1. Leftovers!Contained' /\ journal2' = [journal2 EXCEPT ![n] = "none"]
    BY <1>4 DEF Leftovers!ForgetJournal, Leftovers!Contained, Leftovers!Phases
  <2>2. \A m \in 1..LeftoverSaves : journal2[m] = "none" => journal2'[m] = "none"
    BY <2>1 DEF Leftovers!Contained
  <2> QED BY <1>1, <1>4, <2>1, <2>2 DEF Leftovers!ForgetJournal
<1>5. CASE Leftovers!SweepTemporary \/ Leftovers!SweepBackup
  <2>1. /\ temp2' \in [1..LeftoverSaves -> 0..started2]
        /\ backup2' \in [1..LeftoverSaves -> 0..started2]
    <3>1. CASE Leftovers!SweepTemporary
      BY <1>0, <3>1 DEF Leftovers!SweepTemporary
    <3>2. CASE Leftovers!SweepBackup
      BY <1>0, <3>2 DEF Leftovers!SweepBackup
    <3> QED BY <1>5, <3>1, <3>2
  <2>2. Leftovers!Contained'
    BY <1>5, <2>1 DEF Leftovers!SweepTemporary, Leftovers!SweepBackup, Leftovers!Contained
  <2> QED BY <1>1, <1>5, <2>2 DEF Leftovers!SweepTemporary, Leftovers!SweepBackup
<1>6. CASE Leftovers!SweepJournal
  <2>1. Leftovers!Contained' /\ journal2' = [journal2 EXCEPT ![cur2] = "none"]
    BY <1>6 DEF Leftovers!SweepJournal, Leftovers!Contained, Leftovers!Phases
  <2>2. \A m \in 1..LeftoverSaves : journal2[m] = "none" => journal2'[m] = "none"
    BY <2>1 DEF Leftovers!Contained
  <2> QED BY <1>1, <1>6, <2>1, <2>2 DEF Leftovers!SweepJournal
<1>7. CASE Leftovers!Loaded
  <2>1. allowed2' = {path2} /\ pc2' = "idle" /\ UNCHANGED <<path2, temp2, backup2, journal2, started2>>
    BY <1>7 DEF Leftovers!Loaded, Leftovers!disk
  <2>2. Leftovers!Contained'
    BY <2>1 DEF Leftovers!Contained
  <2>3. Leftovers!OnlyOneLeft'
    BY <1>7, <2>1 DEF Leftovers!Loaded, Leftovers!OnlyOneLeft
  <2> QED BY <2>1, <2>2, <2>3 DEF Leftovers!SaveInPlace
<1> QED BY <1>2, <1>3, <1>4, <1>5, <1>6, <1>7 DEF Leftovers!Load

LEMMA LeftoverInit == Leftovers!Init => Leftovers!SuccessInv
  BY LeftoverAssumption
    DEF Leftovers!Init, Leftovers!SuccessInv, Leftovers!Contained, Leftovers!SaveInPlace,
        Leftovers!OnlyOneLeft, Leftovers!Saving, Leftovers!Txns, Leftovers!Phases,
        Leftovers!Recovered

LEMMA LeftoverNext ==
  Leftovers!SuccessInv /\ [Leftovers!Next]_(Leftovers!vars) => Leftovers!SuccessInv'
<1> SUFFICES ASSUME Leftovers!SuccessInv, [Leftovers!Next]_(Leftovers!vars)
             PROVE  Leftovers!SuccessInv'
  OBVIOUS
<1> USE DEF Leftovers!SuccessInv, Leftovers!Contained, Leftovers!SaveInPlace,
            Leftovers!OnlyOneLeft, Leftovers!Recovered, Leftovers!disk
<1>1. CASE Leftovers!Crash
  BY <1>1 DEF Leftovers!Crash, Leftovers!Saving
<1>2. CASE UNCHANGED Leftovers!vars
  BY <1>2 DEF Leftovers!vars
<1> QED BY <1>1, <1>2, LeftoverSave, LeftoverLoad DEF Leftovers!Next

(* Whatever is torn, wherever a save fails, and whatever that left behind:  *)
(* once a save has succeeded, or a load has settled what there is, a load   *)
(* returns that until another save begins.                                  *)
THEOREM SuccessOverLeftovers == Leftovers!Spec => []SuccessKeptOverLeftovers
<1>1. Leftovers!SuccessInv => SuccessKeptOverLeftovers
  BY DEF SuccessKeptOverLeftovers, Leftovers!SuccessKept, Leftovers!SuccessInv,
         Leftovers!OnlyOneLeft
<1> QED BY <1>1, LeftoverInit, LeftoverNext, PTL DEF Leftovers!Spec

-----------------------------------------------------------------------------
(* The session catalog.                                                    *)

LEMMA InitHeld == CatalogInit => CatalogIInv
<1> SUFFICES ASSUME CatalogInit PROVE CatalogIInv
  OBVIOUS
<1>1. Nothing \in Memory /\ Nothing.client \in Client /\ Nothing.stage \in [Events -> Stages]
  BY DEF Nothing, Memory, Client, Stages
<1>2. CatalogTypeOK
  BY <1>1 DEF CatalogInit, CatalogTypeOK, Steps, Resting
<1>3. Nothing.client.seen = {} /\ \A e \in Events : Nothing.stage[e] = "none"
  BY DEF Nothing
<1>4. Readable /\ EventKept /\ Reached /\ NothingAhead /\ AnswersHeld
  BY <1>3
    DEF CatalogInit, Readable, EventKept, Reached, NothingAhead, AnswersHeld, Admitted, Outlives
<1> QED BY <1>2, <1>4 DEF CatalogIInv

-----------------------------------------------------------------------------
(* A change in memory: it may forget no admitted event that is not also    *)
(* deferred, and no stored answer, other than those of a deleted session.  *)
LEMMA ChangeKeeps ==
  ASSUME CatalogIInv, NEW o \in Ops, NEW e \in Events, NEW next \in Memory,
         Change(o, e, next),
         dropped \subseteq dropped', dropped' \subseteq Events,
         \A x \in Events : mem.stage[x] # "none" => next.stage[x] # "none" \/ x \in dropped',
         \A x \in next.client.seen :
           mem.stage[x] # "none" \/ x \in next.client.deferred \/ x \in dropped',
         o = "reply" => next.stage[e] = "done",
         \A x \in stored \ dropped' : next.stage[x] = "done"
  PROVE  CatalogIInv'
<1>1. /\ step = "idle" /\ step' = "records" /\ old' = mem /\ mem' = next /\ change' = <<o, e>>
      /\ UNCHANGED <<records, index, client, drecords, dindex, running, stored>>
  BY DEF Change, files
<1>2. mem = old
  BY <1>1 DEF CatalogIInv, CatalogTypeOK
<1>3. CatalogTypeOK'
  BY <1>1 DEF CatalogIInv, CatalogTypeOK, Steps, Resting
<1>4. Readable'
  BY <1>1 DEF CatalogIInv, Readable
<1>5. EventKept'
  BY <1>1 DEF CatalogIInv, EventKept, Admitted
<1>6. Reached'
  BY <1>1 DEF Reached
<1>7. NothingAhead'
  BY <1>1, <1>2 DEF CatalogIInv, NothingAhead, Outlives, Admitted
<1>8. AnswersHeld'
  BY <1>1, <1>2 DEF CatalogIInv, AnswersHeld
<1> QED BY <1>3, <1>4, <1>5, <1>6, <1>7, <1>8 DEF CatalogIInv

(* The parts of the memory, for the provers.                               *)
LEMMA Parts ==
  ASSUME CatalogIInv
  PROVE  /\ mem \in Memory /\ mem.stage \in [Events -> Stages] /\ mem.out \subseteq Events
         /\ mem.client \in Client
         /\ mem.client.seen \subseteq Events /\ mem.client.deferred \subseteq Events
  BY DEF CatalogIInv, CatalogTypeOK, Memory, Client

LEMMA OperationsKeep ==
  ASSUME CatalogIInv, NEW e \in Events,
         \/ Defer(e) \/ Queue(e) \/ Commit(e) \/ Retain(e) \/ Begin(e)
         \/ Reply(e) \/ Acknowledge(e) \/ Delete(e)
  PROVE  CatalogIInv'
<1> USE Parts DEF Memory, Client, Stages, Ops
<1>a. step = "idle"
  BY DEF Defer, Queue, Commit, Retain, Begin, Reply, Acknowledge, Delete, Change
<1>b. mem = old /\ dropped \subseteq Events
  BY <1>a DEF CatalogIInv, CatalogTypeOK
<1>c. \A x \in mem.client.seen : mem.stage[x] # "none" \/ x \in mem.client.deferred \/ x \in dropped
  BY <1>a, <1>b DEF CatalogIInv, NothingAhead, Admitted
<1>d. \A x \in stored \ dropped : mem.stage[x] = "done"
  BY <1>a DEF CatalogIInv, AnswersHeld
<1>e. stored \subseteq Events
  BY DEF CatalogIInv, CatalogTypeOK
<1>1. ASSUME Defer(e) PROVE CatalogIInv'
  <2> DEFINE next == [mem EXCEPT !.client.deferred = @ \cup {e}]
  <2>1. Change("defer", e, next) /\ dropped' = dropped
    BY <1>1 DEF Defer
  <2>2. /\ next \in Memory /\ next.stage = mem.stage
        /\ next.client.seen = mem.client.seen
        /\ next.client.deferred = mem.client.deferred \cup {e}
    OBVIOUS
  <2> HIDE DEF next
  <2> QED BY <2>1, <2>2, <1>b, <1>c, <1>d, ChangeKeeps
<1>2. ASSUME Queue(e) PROVE CatalogIInv'
  <2> DEFINE next == [mem EXCEPT !.stage[e] = "queued"]
  <2>1. Change("queue", e, next) /\ dropped' = dropped /\ mem.stage[e] = "none"
    BY <1>2 DEF Queue
  <2>2. /\ next \in Memory /\ next.stage = [mem.stage EXCEPT ![e] = "queued"]
        /\ next.client = mem.client
    OBVIOUS
  <2> HIDE DEF next
  <2> QED BY <2>1, <2>2, <1>b, <1>c, <1>d, <1>e, ChangeKeeps
<1>3. ASSUME Commit(e) PROVE CatalogIInv'
  <2> DEFINE next == [mem EXCEPT !.client.seen = @ \cup {e}, !.client.deferred = @ \ {e}]
  <2>1. Change("commit", e, next) /\ dropped' = dropped /\ mem.stage[e] # "none"
    BY <1>3 DEF Commit
  <2>2. /\ next \in Memory /\ next.stage = mem.stage
        /\ next.client.seen = mem.client.seen \cup {e}
        /\ next.client.deferred = mem.client.deferred \ {e}
    OBVIOUS
  <2> HIDE DEF next
  <2> QED BY <2>1, <2>2, <1>b, <1>c, <1>d, ChangeKeeps
<1>4. ASSUME Retain(e) PROVE CatalogIInv'
  <2> DEFINE next == [mem EXCEPT !.client.seen = @ \cup {e}]
  <2>1. Change("retain", e, next) /\ dropped' = dropped /\ e \in mem.client.deferred
    BY <1>4 DEF Retain
  <2>2. /\ next \in Memory /\ next.stage = mem.stage
        /\ next.client.seen = mem.client.seen \cup {e}
        /\ next.client.deferred = mem.client.deferred
    OBVIOUS
  <2> HIDE DEF next
  <2> QED BY <2>1, <2>2, <1>b, <1>c, <1>d, ChangeKeeps
<1>5. ASSUME Begin(e) PROVE CatalogIInv'
  <2> DEFINE next == [mem EXCEPT !.stage[e] = "turn", !.client.deferred = @ \ {e}]
  <2>1. Change("begin", e, next) /\ dropped' = dropped /\ mem.stage[e] = "queued"
    BY <1>5 DEF Begin
  <2>2. /\ next \in Memory /\ next.stage = [mem.stage EXCEPT ![e] = "turn"]
        /\ next.client.seen = mem.client.seen
        /\ next.client.deferred = mem.client.deferred \ {e}
    OBVIOUS
  <2> HIDE DEF next
  <2> QED BY <2>1, <2>2, <1>b, <1>c, <1>d, <1>e, ChangeKeeps
<1>6. ASSUME Reply(e) PROVE CatalogIInv'
  <2> DEFINE next == [mem EXCEPT !.stage[e] = "done", !.out = @ \cup {e}]
  <2>1. Change("reply", e, next) /\ dropped' = dropped
    BY <1>6 DEF Reply
  <2>2. /\ next \in Memory /\ next.stage = [mem.stage EXCEPT ![e] = "done"]
        /\ next.client = mem.client
    OBVIOUS
  <2> HIDE DEF next
  <2> QED BY <2>1, <2>2, <1>b, <1>c, <1>d, <1>e, ChangeKeeps
<1>7. ASSUME Acknowledge(e) PROVE CatalogIInv'
  <2> DEFINE next == [mem EXCEPT !.out = @ \ {e}]
  <2>1. Change("ack", e, next) /\ dropped' = dropped
    BY <1>7 DEF Acknowledge
  <2>2. next \in Memory /\ next.stage = mem.stage /\ next.client = mem.client
    OBVIOUS
  <2> HIDE DEF next
  <2> QED BY <2>1, <2>2, <1>b, <1>c, <1>d, ChangeKeeps
<1>8. ASSUME Delete(e) PROVE CatalogIInv'
  <2> DEFINE next == [mem EXCEPT !.stage[e] = "none"]
  <2>1. Change("delete", e, next) /\ dropped' = dropped \cup {e}
    BY <1>8 DEF Delete
  <2>2. /\ next \in Memory /\ next.stage = [mem.stage EXCEPT ![e] = "none"]
        /\ next.client = mem.client
    OBVIOUS
  <2> HIDE DEF next
  <2> QED BY <2>1, <2>2, <1>b, <1>c, <1>d, <1>e, ChangeKeeps
<1> QED BY <1>1, <1>2, <1>3, <1>4, <1>5, <1>6, <1>7, <1>8

-----------------------------------------------------------------------------
(* Writing the files.  A failed write rolls back to a memory that is not   *)
(* ahead of the disk.                                                      *)

LEMMA RollBackKeeps ==
  ASSUME CatalogIInv, RollBack, step \in Writing,
         CatalogTypeOK', Readable', EventKept',
         index' = index \/ index' = mem.stage,
         client' = client \/ client' = mem.client
  PROVE  CatalogIInv'
<1>1. /\ step' = "idle" /\ mem' = old /\ change' = <<>>
      /\ UNCHANGED <<old, running, stored, dropped>>
  BY DEF RollBack
<1>2. step # "down"
  BY DEF Writing, Steps
<1>3. Reached'
  BY <1>1 DEF Reached
<1>4. NothingAhead'
  <2>1. Outlives(old.stage, index')
    BY <1>2 DEF CatalogIInv, NothingAhead
  <2>2. Admitted(client', old.stage)
    BY <1>2 DEF CatalogIInv, NothingAhead
  <2> QED BY <1>1, <1>2, <2>1, <2>2 DEF CatalogIInv, NothingAhead, Outlives, Admitted
<1>5. AnswersHeld'
  BY <1>1, <1>2 DEF CatalogIInv, AnswersHeld
<1> QED BY <1>3, <1>4, <1>5 DEF CatalogIInv

LEMMA WritesKeep ==
  ASSUME CatalogIInv,
         \/ \E e \in Events : WriteRecord(e) \/ WriteDeliveryRecord(e)
         \/ WriteClient \/ WriteDeliveryIndex \/ WriteIndex \/ SaveFails
  PROVE  CatalogIInv'
<1> DEFINE on(next) == step' = next /\ UNCHANGED <<mem, old, running, change, stored, dropped>>
<1>0. mem.stage \in [Events -> Stages] /\ mem.out \subseteq Events /\ mem.client \in Client
  BY Parts
<1>t. CatalogTypeOK /\ Readable /\ EventKept /\ Reached /\ NothingAhead /\ AnswersHeld
  BY DEF CatalogIInv
<1>1. ASSUME NEW e \in Events, WriteRecord(e) PROVE CatalogIInv'
  <2>1. /\ step = "records" /\ records' = records \cup {Record(e)}
        /\ UNCHANGED <<index, client, drecords, dindex>> /\ Written("records")
    BY <1>1 DEF WriteRecord
  <2>2. Record(e) \in Events \X Stages
    BY <1>0 DEF Record
  <2>3. CASE on("records")
    <3>1. CatalogTypeOK'
      BY <1>t, <2>1, <2>2, <2>3 DEF CatalogTypeOK, Steps, Resting
    <3> QED BY <1>t, <2>1, <2>3, <3>1
            DEF CatalogIInv, Readable, EventKept, Admitted, Reached, Sessions, Record, NothingAhead,
                Outlives, AnswersHeld
  <2>4. CASE RollBack
    <3>1. CatalogTypeOK'
      BY <1>t, <2>1, <2>2, <2>4 DEF CatalogTypeOK, Steps, Resting, RollBack
    <3>2. Readable' /\ EventKept'
      BY <1>t, <2>1, <2>4 DEF Readable, EventKept, Admitted, RollBack
    <3> QED BY <2>1, <2>4, <3>1, <3>2, RollBackKeeps DEF Writing, Steps
  <2> QED BY <2>1, <2>3, <2>4 DEF Written
<1>2. ASSUME NEW e \in Events, WriteDeliveryRecord(e) PROVE CatalogIInv'
  <2>1. /\ step = "drecords" /\ drecords' = drecords \cup {e}
        /\ UNCHANGED <<records, index, client, dindex>> /\ Written("drecords")
    BY <1>2 DEF WriteDeliveryRecord
  <2>2. CASE on("drecords")
    <3>1. CatalogTypeOK'
      BY <1>t, <2>1, <2>2 DEF CatalogTypeOK, Steps, Resting
    <3> QED BY <1>t, <2>1, <2>2, <3>1
            DEF CatalogIInv, Readable, EventKept, Admitted, Reached, Sessions, Record, NothingAhead,
                Outlives, AnswersHeld
  <2>3. CASE RollBack
    <3>1. CatalogTypeOK'
      BY <1>t, <2>1, <2>3 DEF CatalogTypeOK, Steps, Resting, RollBack
    <3>2. Readable' /\ EventKept'
      BY <1>t, <2>1, <2>3 DEF Readable, EventKept, Admitted, RollBack
    <3> QED BY <2>1, <2>3, <3>1, <3>2, RollBackKeeps DEF Writing, Steps
  <2> QED BY <2>1, <2>2, <2>3 DEF Written
<1>3. ASSUME WriteClient PROVE CatalogIInv'
  <2>1. /\ step = "records" /\ client' = mem.client
        /\ \A e \in Sessions : Record(e) \in records
        /\ UNCHANGED <<records, index, drecords, dindex>> /\ Written("drecords")
    BY <1>3 DEF WriteClient
  <2>2. /\ Admitted(mem.client, old.stage) /\ Outlives(old.stage, index)
        /\ mem.client.seen \subseteq Events
    BY <1>t, <2>1, Parts DEF NothingAhead
  <2>3. Admitted(mem.client, index)
    BY <2>2 DEF Admitted, Outlives
  <2>4. CASE on("drecords")
    <3>1. CatalogTypeOK'
      BY <1>t, <1>0, <2>1, <2>4 DEF CatalogTypeOK, Steps, Resting
    <3>2. EventKept'
      BY <2>1, <2>3, <2>4 DEF EventKept, Admitted
    <3>3. NothingAhead'
      BY <1>t, <2>1, <2>4 DEF NothingAhead, Outlives, Admitted
    <3> QED BY <1>t, <2>1, <2>4, <3>1, <3>2, <3>3
            DEF CatalogIInv, Readable, Reached, Sessions, Record, AnswersHeld
  <2>5. CASE RollBack
    <3>1. CatalogTypeOK'
      BY <1>t, <1>0, <2>1, <2>5 DEF CatalogTypeOK, Steps, Resting, RollBack
    <3>2. Readable' /\ EventKept'
      BY <1>t, <2>1, <2>3, <2>5 DEF Readable, EventKept, Admitted, RollBack
    <3> QED BY <2>1, <2>5, <3>1, <3>2, RollBackKeeps DEF Writing, Steps
  <2> QED BY <2>1, <2>4, <2>5 DEF Written
<1>4. ASSUME WriteDeliveryIndex PROVE CatalogIInv'
  <2>1. /\ step = "drecords" /\ dindex' = mem.out /\ mem.out \subseteq drecords
        /\ UNCHANGED <<records, index, client, drecords>> /\ Written("index")
    BY <1>4 DEF WriteDeliveryIndex
  <2>2. CASE on("index")
    <3>1. CatalogTypeOK'
      BY <1>t, <1>0, <2>1, <2>2 DEF CatalogTypeOK, Steps, Resting
    <3> QED BY <1>t, <2>1, <2>2, <3>1
            DEF CatalogIInv, Readable, EventKept, Admitted, Reached, Sessions, Record, NothingAhead,
                Outlives, AnswersHeld
  <2>3. CASE RollBack
    <3>1. CatalogTypeOK'
      BY <1>t, <1>0, <2>1, <2>3 DEF CatalogTypeOK, Steps, Resting, RollBack
    <3>2. Readable' /\ EventKept'
      BY <1>t, <2>1, <2>3 DEF Readable, EventKept, Admitted, RollBack
    <3> QED BY <2>1, <2>3, <3>1, <3>2, RollBackKeeps DEF Writing, Steps
  <2> QED BY <2>1, <2>2, <2>3 DEF Written
<1>5. ASSUME WriteIndex PROVE CatalogIInv'
  <2>1. /\ step = "index" /\ index' = mem.stage /\ dindex = mem.out
        /\ UNCHANGED <<records, client, drecords, dindex>> /\ Written("clean")
    BY <1>t, <1>5 DEF WriteIndex, Reached
  <2>2. Readable'
    BY <1>t, <1>0, <2>1 DEF Readable, Reached, Sessions, Record
  <2>3. /\ Admitted(client, old.stage) /\ Outlives(old.stage, mem.stage)
        /\ client.seen \subseteq Events
    BY <1>t, <2>1 DEF NothingAhead, CatalogTypeOK, Client
  <2>4. Admitted(client, mem.stage)
    BY <2>3 DEF Admitted, Outlives
  <2>5. UNCHANGED dropped
    BY <2>1 DEF Written, RollBack
  <2>6. EventKept'
    BY <2>1, <2>4, <2>5 DEF EventKept, Admitted
  <2>7. CASE on("clean")
    <3>1. CatalogTypeOK'
      <4>1. step' \in Steps /\ step' \notin {"idle", "down"}
        BY <2>7 DEF Steps
      <4>2. change # <<>>
        BY <1>t, <2>1 DEF CatalogTypeOK, Steps
      <4> QED BY <1>t, <1>0, <2>1, <2>7, <4>1, <4>2 DEF CatalogTypeOK, Resting
    <3>2. NothingAhead'
      BY <1>t, <2>1, <2>7 DEF NothingAhead, Outlives, Admitted
    <3>3. Reached' /\ AnswersHeld'
      BY <1>t, <2>1, <2>7 DEF Reached, AnswersHeld
    <3> QED BY <2>2, <2>6, <3>1, <3>2, <3>3 DEF CatalogIInv
  <2>8. CASE RollBack
    <3>1. CatalogTypeOK'
      BY <1>t, <1>0, <2>1, <2>8 DEF CatalogTypeOK, Steps, Resting, RollBack
    <3> QED BY <2>1, <2>2, <2>6, <2>8, <3>1, RollBackKeeps DEF Writing, Steps
  <2> QED BY <2>1, <2>7, <2>8 DEF Written
<1>6. ASSUME SaveFails PROVE CatalogIInv'
  <2>1. step \in Writing /\ RollBack /\ UNCHANGED files
    BY <1>6 DEF SaveFails
  <2>2. CatalogTypeOK'
    BY <1>t, <2>1 DEF CatalogTypeOK, Steps, Resting, RollBack, files
  <2>3. Readable' /\ EventKept'
    BY <1>t, <2>1 DEF Readable, EventKept, Admitted, RollBack, files
  <2> QED BY <2>1, <2>2, <2>3, RollBackKeeps DEF files
<1> QED BY <1>1, <1>2, <1>3, <1>4, <1>5, <1>6

-----------------------------------------------------------------------------
(* The end of a save, a crash and a restart.                               *)

LEMMA FinishKeeps ==
  ASSUME CatalogIInv, Finish
  PROVE  CatalogIInv'
<1>t. CatalogTypeOK /\ Readable /\ EventKept /\ Reached /\ NothingAhead /\ AnswersHeld
  BY DEF CatalogIInv
<1>1. /\ step = "clean" /\ step' = "idle" /\ change' = <<>> /\ old' = mem
      /\ UNCHANGED <<mem, index, client, dindex, dropped>>
      /\ index = mem.stage /\ dindex = mem.out /\ change \in Ops \X Events
  BY <1>t DEF Finish, Reached, CatalogTypeOK, Steps
<1>2. /\ records \ Superseded \subseteq records' /\ records' \subseteq records
      /\ drecords \cap mem.out \subseteq drecords' /\ drecords' \subseteq drecords
  BY DEF Finish
<1>3. Readable'
  <2>1. ASSUME NEW e \in Events, index[e] # "none" PROVE <<e, index[e]>> \in records'
    <3>1. <<e, index[e]>> \in records /\ <<e, index[e]>>[1] = e /\ <<e, index[e]>> = Record(e)
      BY <1>t, <1>1, <2>1 DEF Readable, Record
    <3>2. <<e, index[e]>> \notin Superseded
      BY <3>1 DEF Superseded
    <3> QED BY <1>2, <3>1, <3>2
  <2>2. dindex \subseteq drecords'
    BY <1>t, <1>1, <1>2 DEF Readable
  <2> QED BY <1>1, <2>1, <2>2 DEF Readable
<1>4. change[2] \in Events
  BY <1>1
<1>5. running' \subseteq Events /\ stored' \subseteq Events
  BY <1>t, <1>4 DEF Finish, CatalogTypeOK
<1>6. records' \subseteq Events \X Stages /\ drecords' \subseteq Events
  BY <1>t, <1>2, Parts DEF CatalogTypeOK
<1>7. CatalogTypeOK'
  BY <1>t, <1>1, <1>5, <1>6 DEF CatalogTypeOK, Steps, Resting
<1>8. EventKept' /\ Reached'
  BY <1>t, <1>1 DEF EventKept, Admitted, Reached
<1>9. NothingAhead'
  <2>1. Admitted(client, mem.stage)
    BY <1>t, <1>1 DEF EventKept
  <2>2. Admitted(mem.client, mem.stage)
    <3>1. mem.client.seen \subseteq Events
      BY Parts
    <3> QED BY <1>t, <1>1, <3>1 DEF NothingAhead, Admitted, Outlives
  <2> QED BY <1>1, <2>1, <2>2 DEF NothingAhead, Outlives, Admitted
<1>10. AnswersHeld'
  <2>1. ASSUME NEW e \in stored' \ dropped PROVE mem.stage[e] = "done"
    <3>1. CASE e \in stored
      BY <1>t, <1>1, <2>1, <3>1 DEF AnswersHeld
    <3>2. CASE e \notin stored
      <4>1. change[1] = "reply" /\ e = change[2]
        BY <2>1, <3>2 DEF Finish
      <4>2. change # <<>>
        BY <1>t, <1>1 DEF CatalogTypeOK, Steps
      <4> QED BY <1>t, <4>1, <4>2 DEF Reached
    <3> QED BY <3>1, <3>2
  <2> QED BY <1>1, <2>1 DEF AnswersHeld
<1> QED BY <1>3, <1>7, <1>8, <1>9, <1>10 DEF CatalogIInv

LEMMA CrashKeeps ==
  ASSUME CatalogIInv, CatalogCrash
  PROVE  CatalogIInv'
<1>1. Nothing \in Memory
  BY DEF Nothing, Memory, Client, Stages
<1>2. CatalogTypeOK'
  BY <1>1 DEF CatalogIInv, CatalogCrash, files, CatalogTypeOK, Steps, Resting
<1> QED BY <1>2
        DEF CatalogIInv, CatalogCrash, files, Readable, EventKept, Admitted, Reached,
            NothingAhead, AnswersHeld

LEMMA LoadKeeps ==
  ASSUME CatalogIInv, Open
  PROVE  CatalogIInv'
<1>t. CatalogTypeOK /\ Readable /\ EventKept /\ Reached /\ NothingAhead /\ AnswersHeld
  BY DEF CatalogIInv
<1> DEFINE next == [stage |-> index, out |-> dindex, client |-> client]
<1>1. /\ step = "down" /\ step' = "idle" /\ mem' = next /\ old' = next
      /\ UNCHANGED <<records, index, client, drecords, dindex, running, change, stored, dropped>>
  BY DEF Open, files
<1>2. next \in Memory /\ next.stage = index /\ next.client = client
  BY <1>t DEF CatalogTypeOK, Memory
<1> HIDE DEF next
<1>3. CatalogTypeOK'
  BY <1>t, <1>1, <1>2 DEF CatalogTypeOK, Steps, Resting
<1>4. change = <<>>
  BY <1>t, <1>1 DEF CatalogTypeOK, Resting
<1>5. Readable' /\ EventKept' /\ Reached'
  BY <1>t, <1>1, <1>4 DEF Readable, EventKept, Admitted, Reached
<1>6. NothingAhead'
  BY <1>t, <1>1, <1>2 DEF NothingAhead, EventKept, Admitted, Outlives
<1>7. AnswersHeld'
  BY <1>t, <1>1, <1>2 DEF AnswersHeld
<1> QED BY <1>3, <1>5, <1>6, <1>7 DEF CatalogIInv

LEMMA Held == CatalogSpec => []CatalogIInv
<1>1. CatalogIInv /\ [CatalogNext]_catalog => CatalogIInv'
  <2> SUFFICES ASSUME CatalogIInv, [CatalogNext]_catalog PROVE CatalogIInv'
    OBVIOUS
  <2>1. CASE UNCHANGED catalog
    BY <2>1 DEF catalog, files, CatalogIInv, CatalogTypeOK, Resting, Readable, EventKept,
                Admitted, Reached, Sessions,
                Record, NothingAhead, Outlives, AnswersHeld
  <2>2. CASE CatalogNext
    BY <2>2, OperationsKeep, WritesKeep, FinishKeeps, CrashKeeps, LoadKeeps DEF CatalogNext
  <2> QED BY <2>1, <2>2
<1> QED BY <1>1, InitHeld, PTL DEF CatalogSpec

-----------------------------------------------------------------------------
(* load_catalog finds every record its indexes name: a daemon that stopped *)
(* at any point of a save can be started again.                            *)
THEOREM CatalogReadable == CatalogSpec => []AlwaysReadable
  BY Held, PTL DEF CatalogIInv, AlwaysReadable

(* An event that commit_event has recorded as seen is on disk, in its      *)
(* session or deferred, at every point of every save.                      *)
THEOREM EventsKept == CatalogSpec => []EventKept
  BY Held, PTL DEF CatalogIInv

(* A turn whose reply was stored stays answered on disk.                   *)
THEOREM AnswersKept == CatalogSpec => []AnswerKept
<1>1. CatalogIInv => AnswerKept
  BY DEF CatalogIInv, AnswersHeld, AnswerKept
<1> QED BY <1>1, Held, PTL

-----------------------------------------------------------------------------
(* Terminal clients and their reservations.                                 *)

(* The stages that a step gives a submission.                               *)
Later == TurnStages \ {"none"}

LEMMA MovedTurn ==
  ASSUME NEW t \in Turn, NEW stage \in Later
  PROVE  /\ Moved(t, stage) \in Turn
         /\ Moved(t, stage).stage = stage
         /\ Moved(t, stage).kind = t.kind
         /\ stage # "over" => /\ Moved(t, stage).holder = t.holder
                              /\ Moved(t, stage).overtaken = t.overtaken
                              /\ Moved(t, stage).missed = t.missed
         /\ stage = "over" => /\ Moved(t, stage).overtaken = FALSE
                              /\ Moved(t, stage).missed = FALSE
<1>1. CASE stage = "over"
  BY <1>1 DEF Moved, NewTurn, Turn, Later, None
<1>2. CASE stage # "over"
  BY <1>2 DEF Moved, Turn, Later
<1> QED BY <1>1, <1>2

(* A step that moves one submission to another stage.                       *)
LEMMA ToMoves ==
  ASSUME turn \in [Submissions -> Turn], NEW n \in Submissions, NEW stage \in Later,
         To(n, stage)
  PROVE  /\ turn' \in [Submissions -> Turn]
         /\ \A m \in Submissions : m # n => turn'[m] = turn[m]
         /\ turn'[n].stage = stage /\ turn'[n].kind = turn[n].kind
         /\ stage # "over" => /\ turn'[n].holder = turn[n].holder
                              /\ turn'[n].overtaken = turn[n].overtaken
                              /\ turn'[n].missed = turn[n].missed
         /\ stage = "over" => turn'[n].overtaken = FALSE /\ turn'[n].missed = FALSE
<1>1. turn[n] \in Turn
  OBVIOUS
<1>2. Moved(turn[n], stage) \in Turn
  BY <1>1, MovedTurn
<1>3. turn' = [turn EXCEPT ![n] = Moved(turn[n], stage)]
  BY DEF To
<1>4. /\ turn' \in [Submissions -> Turn] /\ turn'[n] = Moved(turn[n], stage)
      /\ \A m \in Submissions : m # n => turn'[m] = turn[m]
  BY <1>2, <1>3
<1> DEFINE moved == Moved(turn[n], stage)
<1>5. /\ moved.stage = stage /\ moved.kind = turn[n].kind
      /\ stage # "over" => /\ moved.holder = turn[n].holder
                           /\ moved.overtaken = turn[n].overtaken
                           /\ moved.missed = turn[n].missed
      /\ stage = "over" => moved.overtaken = FALSE /\ moved.missed = FALSE
  BY <1>1, MovedTurn
<1> QED BY <1>4, <1>5

(* What becomes of submission m when n appends a message.                   *)
Rewritten(m, n, what) ==
  LET saves == what \in {"user", "note"} IN
  [turn[m] EXCEPT
    !.overtaken = @ \/ (turn[m].stage \notin {"none", "reserved", "over"} /\ ~(saves /\ m = n)),
    !.missed = @ \/ (turn[m].stage = "summing" /\ ~(saves /\ turn[m].holder = n))]

LEMMA RewrittenTurn ==
  ASSUME turn \in [Submissions -> Turn], NEW m \in Submissions, NEW n \in Submissions, NEW what
  PROVE  /\ Rewritten(m, n, what) \in Turn
         /\ Rewritten(m, n, what).stage = turn[m].stage
         /\ Rewritten(m, n, what).kind = turn[m].kind
         /\ Rewritten(m, n, what).holder = turn[m].holder
         /\ Rewritten(m, n, what).overtaken
              = (turn[m].overtaken \/ (/\ turn[m].stage \notin {"none", "reserved", "over"}
                                       /\ ~(what \in {"user", "note"} /\ m = n)))
         /\ Rewritten(m, n, what).missed
              = (turn[m].missed \/ (/\ turn[m].stage = "summing"
                                    /\ ~(what \in {"user", "note"} /\ turn[m].holder = n)))
<1>1. turn[m] \in Turn
  OBVIOUS
<1> DEFINE late == turn[m].overtaken \/ (/\ turn[m].stage \notin {"none", "reserved", "over"}
                                         /\ ~(what \in {"user", "note"} /\ m = n))
           gone == turn[m].missed \/ (/\ turn[m].stage = "summing"
                                      /\ ~(what \in {"user", "note"} /\ turn[m].holder = n))
<1>2. late \in BOOLEAN /\ gone \in BOOLEAN
  BY <1>1 DEF Turn
<1>3. Rewritten(m, n, what) = [turn[m] EXCEPT !.overtaken = late, !.missed = gone]
  BY <1>1 DEF Rewritten, Turn
<1> HIDE DEF late, gone
<1>4. /\ Rewritten(m, n, what) \in Turn
      /\ Rewritten(m, n, what).stage = turn[m].stage
      /\ Rewritten(m, n, what).kind = turn[m].kind
      /\ Rewritten(m, n, what).holder = turn[m].holder
      /\ Rewritten(m, n, what).overtaken = late
      /\ Rewritten(m, n, what).missed = gone
  BY <1>1, <1>2, <1>3 DEF Turn
<1> QED BY <1>4 DEF late, gone

(* A step that appends a message and moves the submission it is of.         *)
LEMMA AppendMoves ==
  ASSUME turn \in [Submissions -> Turn], NEW n \in Submissions, NEW what,
         NEW stage \in Later, AppendTo(n, what, stage)
  PROVE  /\ turn' \in [Submissions -> Turn]
         /\ \A m \in Submissions : m # n => turn'[m] = Rewritten(m, n, what)
         /\ turn'[n].stage = stage /\ turn'[n].kind = turn[n].kind
         /\ stage # "over" => /\ turn'[n].holder = turn[n].holder
                              /\ turn'[n].overtaken = Rewritten(n, n, what).overtaken
                              /\ turn'[n].missed = Rewritten(n, n, what).missed
         /\ stage = "over" => turn'[n].overtaken = FALSE /\ turn'[n].missed = FALSE
<1>1. Followed(n, what) = [m \in Submissions |-> Rewritten(m, n, what)]
  BY DEF Followed, Rewritten
<1>2. \A m \in Submissions : Rewritten(m, n, what) \in Turn
  BY RewrittenTurn
<1>3. Moved(Rewritten(n, n, what), stage) \in Turn
  BY <1>2, MovedTurn
<1>4. turn' = [m \in Submissions |-> IF m = n THEN Moved(Rewritten(n, n, what), stage)
                                              ELSE Rewritten(m, n, what)]
  BY <1>1 DEF AppendTo
<1> DEFINE own == Rewritten(n, n, what)
<1>5. /\ turn' \in [Submissions -> Turn] /\ turn'[n] = Moved(own, stage)
      /\ \A m \in Submissions : m # n => turn'[m] = Rewritten(m, n, what)
  BY <1>2, <1>3, <1>4
<1>6. own \in Turn /\ own.kind = turn[n].kind /\ own.holder = turn[n].holder
  BY RewrittenTurn
<1> HIDE DEF own
<1>7. /\ turn'[n].stage = stage /\ turn'[n].kind = turn[n].kind
      /\ stage # "over" => /\ turn'[n].holder = turn[n].holder
                           /\ turn'[n].overtaken = own.overtaken
                           /\ turn'[n].missed = own.missed
      /\ stage = "over" => turn'[n].overtaken = FALSE /\ turn'[n].missed = FALSE
  <2> DEFINE moved == Moved(own, stage)
  <2>1. /\ moved.stage = stage /\ moved.kind = own.kind
        /\ stage # "over" => /\ moved.holder = own.holder
                             /\ moved.overtaken = own.overtaken
                             /\ moved.missed = own.missed
        /\ stage = "over" => moved.overtaken = FALSE /\ moved.missed = FALSE
    BY <1>6, MovedTurn
  <2>2. turn'[n] = moved
    BY <1>5
  <2> HIDE DEF moved
  <2> QED BY <1>6, <2>1, <2>2
<1> QED BY <1>5, <1>7 DEF own

-----------------------------------------------------------------------------
(* What is kept for the owner.                                              *)

(* The session after a step that gives it to nobody new.                    *)
SameOwner == s'.owner # None => s'.owner = s.owner /\ (s'.status = "working" => s.status = "working")

(* A submission after a step in which nobody else writes: it is as it was,  *)
(* it moves on past a summary, or it begins one under the owner.            *)
Stays(m) ==
  /\ turn'[m].stage = turn[m].stage /\ turn'[m].holder = turn[m].holder
  /\ turn'[m].overtaken = turn[m].overtaken /\ turn'[m].missed = turn[m].missed

Passes(m) ==
  /\ turn'[m].stage \notin {"none", "reserved", "summing"}
  /\ turn'[m].overtaken = FALSE \/ turn'[m].overtaken = turn[m].overtaken
  /\ turn'[m].stage = "over" => turn'[m].overtaken = FALSE
  /\ turn'[m].missed = FALSE

BeginsSummary(m) ==
  /\ turn'[m].stage = "summing" /\ turn'[m].missed = FALSE
  /\ turn'[m].overtaken = turn[m].overtaken
  /\ Reserved(turn'[m].holder) /\ turn'[m].holder \in Submissions

LEMMA QuietKeeps ==
  ASSUME LeaseTypeOK, LeaseKept, LeaseTypeOK', SameOwner, ~skipped',
         \A m \in Submissions : Stays(m) \/ Passes(m) \/ BeginsSummary(m)
  PROVE  LeaseKept'
<1>1. \A m \in Submissions : Owns(s', m) => Owns(s, m)
  BY DEF SameOwner, Owns, None, Submissions
<1>2. \A m \in Submissions : turn[m].stage # "none" => turn'[m].stage # "none"
  BY DEF Stays, Passes, BeginsSummary
<1>3. \A m \in Submissions : turn'[m].stage \in {"none", "reserved", "over"} => ~turn'[m].overtaken
  BY DEF Stays, Passes, BeginsSummary, LeaseKept
<1>4. \A m \in Submissions : Owns(s', m) => ~turn'[m].overtaken
  BY <1>1 DEF Stays, Passes, BeginsSummary, LeaseKept, OwnersMessageLast
<1>5. \A h \in Submissions : Reserved(h) => h # None /\ turn'[h].stage # "none"
  BY <1>2 DEF Reserved
<1>6. s'.owner # None => turn'[s'.owner].stage # "none"
  <2> SUFFICES ASSUME s'.owner # None PROVE turn'[s'.owner].stage # "none"
    OBVIOUS
  <2>1. s'.owner = s.owner /\ Reserved(s.owner) /\ s.owner \in Submissions
    BY DEF SameOwner, LeaseKept, LeaseTypeOK, Session, Reserved
  <2> QED BY <1>5, <2>1
<1>7. ASSUME NEW m \in Submissions, turn'[m].stage = "summing"
      PROVE  /\ turn'[m].holder # None /\ turn'[turn'[m].holder].stage # "none"
             /\ Owns(s', turn'[m].holder) => ~turn'[m].missed
  <2>1. CASE Stays(m)
    <3>1. /\ Reserved(turn[m].holder) /\ turn[m].holder \in Submissions
          /\ Owns(s, turn[m].holder) => ~turn[m].missed
      BY <1>7, <2>1 DEF Stays, LeaseKept, LeaseTypeOK, Turn, Reserved
    <3> QED BY <1>1, <1>5, <2>1, <3>1 DEF Stays
  <2>2. CASE Passes(m)
    BY <1>7, <2>2 DEF Passes
  <2>3. CASE BeginsSummary(m)
    BY <1>5, <2>3 DEF BeginsSummary
  <2> QED BY <2>1, <2>2, <2>3
<1>8. \A m \in Submissions : turn'[m].stage # "summing" => ~turn'[m].missed
  BY DEF Stays, Passes, BeginsSummary, LeaseKept
<1> QED
  <2>1. OwnersMessageLast' /\ NothingElseSkipped'
    BY <1>4 DEF OwnersMessageLast, NothingElseSkipped, Owns
  <2>2. \A m \in Submissions :
          IF turn'[m].stage = "summing"
          THEN /\ turn'[m].holder # None /\ turn'[turn'[m].holder].stage # "none"
               /\ Owns(s', turn'[m].holder) => ~turn'[m].missed
          ELSE ~turn'[m].missed
    BY <1>7, <1>8
  <2> QED BY <1>3, <1>6, <2>1, <2>2 DEF LeaseKept, Reserved, Owns

(* A step that changes no submission, and one that moves a submission which *)
(* makes no summary, or none any more.                                      *)
LEMMA RestKeeps ==
  ASSUME LeaseTypeOK, LeaseKept, LeaseTypeOK', SameOwner, skipped' = skipped,
         \A m \in Submissions : Stays(m)
  PROVE  LeaseKept'
  BY QuietKeeps DEF LeaseKept, NothingElseSkipped

LEMMA MoveKeeps ==
  ASSUME LeaseTypeOK, LeaseKept, LeaseTypeOK', SameOwner, skipped' = skipped,
         NEW n \in Submissions, NEW stage \in Later \ {"reserved", "summing"}, To(n, stage),
         turn[n].stage # "summing" \/ stage = "over"
  PROVE  LeaseKept'
<1>1. turn[n] \in Turn /\ ~skipped
  BY DEF LeaseTypeOK, LeaseKept, NothingElseSkipped
<1>2. \A m \in Submissions : m # n => Stays(m)
  BY ToMoves DEF Stays, LeaseTypeOK
<1>3. stage \in Later /\ stage \notin {"none", "reserved", "summing"}
  BY DEF Later
<1>4. Passes(n)
  <2>1. turn[n].stage # "summing" => turn[n].missed = FALSE
    BY <1>1 DEF LeaseKept, Turn
  <2>2. /\ turn'[n].stage = stage
        /\ stage # "over" => turn'[n].overtaken = turn[n].overtaken
        /\ stage # "over" => turn'[n].missed = turn[n].missed
        /\ stage = "over" => turn'[n].overtaken = FALSE /\ turn'[n].missed = FALSE
    BY <1>3, ToMoves DEF LeaseTypeOK
  <2>3. turn'[n].missed = FALSE
    BY <2>1, <2>2
  <2> QED BY <1>3, <2>2, <2>3 DEF Passes
<1> QED BY <1>1, <1>2, <1>4, QuietKeeps

-----------------------------------------------------------------------------
(* The types.                                                               *)

Fine(r) == r \in Session /\ (r.owner # None => r.status = "working" /\ r.until)

LEMMA FineSessions ==
  ASSUME NEW r \in Session, Fine(r)
  PROVE  /\ Fine(Idle) /\ Fine([Idle EXCEPT !.status = "cancelled"])
         /\ Fine(Refreshed(r)) /\ Fine(AppendReserved(r)) /\ Fine(Pushed(r)) /\ Fine(Working(r))
         /\ \A n \in Submissions : Fine(Released(r, n))
         /\ \A past \in BOOLEAN : Fine([r EXCEPT !.past = past])
<1>1. Fine(Idle) /\ Fine([Idle EXCEPT !.status = "cancelled"])
  BY DEF Fine, Idle, Session, None
<1>2. Fine(Refreshed(r)) /\ Fine(Pushed(r)) /\ \A n \in Submissions : Fine(Released(r, n))
  BY <1>1 DEF Refreshed, Pushed, Released
<1>3. Fine(AppendReserved(r))
  BY DEF AppendReserved, Fine, Session
<1>4. Fine(Working(r))
  BY DEF Working, Fine, Session
<1>5. \A past \in BOOLEAN : Fine([r EXCEPT !.past = past])
  BY DEF Fine, Session
<1> QED BY <1>1, <1>2, <1>3, <1>4, <1>5

LEMMA TypesOf ==
  ASSUME LeaseTypeOK
  PROVE  /\ s \in Session /\ Fine(s) /\ Refreshed(s) \in Session /\ Fine(Refreshed(s))
         /\ turn \in [Submissions -> Turn]
<1>1. s \in Session /\ Fine(s) /\ turn \in [Submissions -> Turn]
  BY DEF LeaseTypeOK, Fine
<1> QED BY <1>1, FineSessions DEF Fine

LEMMA SameTypes ==
  ASSUME LeaseTypeOK, Fine(s'), turn' \in [Submissions -> Turn],
         UNCHANGED <<tokens, cancel, rest>>
  PROVE  LeaseTypeOK'
  BY DEF LeaseTypeOK, Fine, tokens, rest

LEMMA SubmissionTypes ==
  ASSUME LeaseTypeOK, NEW n \in Submissions, TerminalClient(n)
  PROVE  LeaseTypeOK'
<1> USE TypesOf
<1>0. turn[n] \in Turn
  OBVIOUS
<1>1. CASE Reserve(n)
  <2>1. Fine(s')
    BY <1>1 DEF Reserve, Fine, Session, None
  <2>2. PICK kind \in Kinds : turn' = [turn EXCEPT ![n].stage = "reserved", ![n].kind = kind]
    BY <1>1 DEF Reserve
  <2>3. turn' \in [Submissions -> Turn]
    <3>1. [turn[n] EXCEPT !.stage = "reserved", !.kind = kind] \in Turn
      BY <1>0 DEF Turn, TurnStages
    <3>2. turn' = [turn EXCEPT ![n] = [turn[n] EXCEPT !.stage = "reserved", !.kind = kind]]
      BY <2>2, <1>0
    <3> QED BY <3>1, <3>2
  <2> QED BY <1>1, <2>1, <2>3, SameTypes DEF Reserve
<1>2. CASE SaveMessage(n)
  <2>1. Fine(s')
    BY <1>2, FineSessions DEF SaveMessage
  <2>2. turn' \in [Submissions -> Turn]
    BY <1>2, ToMoves, AppendMoves DEF SaveMessage, Later, TurnStages
  <2> QED BY <1>2, <2>1, <2>2, SameTypes DEF SaveMessage
<1>3. CASE Note(n)
  <2>1. Fine(s')
    BY <1>3, FineSessions DEF Note
  <2>2. CASE AppendTo(n, "note", turn[n].stage)
    BY <1>3, <2>1, <2>2, AppendMoves, SameTypes DEF Note, Later, TurnStages
  <2>3. CASE turn' = [turn EXCEPT ![n].heard = FALSE]
    <3>1. turn' \in [Submissions -> Turn]
      BY <2>3 DEF Turn
    <3> QED BY <1>3, <2>1, <3>1, SameTypes DEF Note
  <2> QED BY <1>3, <2>2, <2>3 DEF Note
<1>4. CASE Release(n)
  <2>1. Fine(s')
    BY <1>4, FineSessions DEF Release
  <2>2. turn' \in [Submissions -> Turn]
    BY <1>4, ToMoves DEF Release, Later, TurnStages
  <2> QED BY <1>4, <2>1, <2>2, SameTypes DEF Release
<1>5. CASE Leave(n)
  <2>1. Fine(s')
    BY <1>5, FineSessions DEF Leave
  <2>2. turn' \in [Submissions -> Turn]
    <3>1. CASE To(n, "over")
      BY <3>1, ToMoves DEF Later, TurnStages
    <3>2. CASE turn' = [turn EXCEPT ![n].heard = FALSE]
      BY <3>2 DEF Turn
    <3> QED BY <1>5, <3>1, <3>2 DEF Leave
  <2>3. UNCHANGED <<tokens, cancel, skipped, overlap>>
    BY <1>5 DEF Leave
  <2> QED BY <2>1, <2>2, <2>3 DEF LeaseTypeOK, Fine, tokens
<1> QED BY <1>1, <1>2, <1>3, <1>4, <1>5 DEF TerminalClient

LEMMA TokenTypes ==
  ASSUME used \in Nat, token \in 0..used
  PROVE  /\ CurrentToken \in Nat \ {None} /\ CurrentToken \notin (1..used) \ {token}
         /\ TakeToken => /\ used' \in Nat /\ used <= used'
                         /\ token' = CurrentToken /\ token' \in 0..used'
  BY DEF CurrentToken, TakeToken, None

LEMMA TaskTypes ==
  ASSUME LeaseTypeOK, NEW n \in Submissions, Task(n)
  PROVE  LeaseTypeOK'
<1> USE TypesOf
<1>0. turn[n] \in Turn
  OBVIOUS
<1>1. CASE Snapshot(n)
  <2>1. /\ [turn[n] EXCEPT !.stage = "told"] \in Turn
        /\ \A stage \in {"starting", "summing"} :
             [[turn[n] EXCEPT !.holder = s.owner] EXCEPT !.stage = stage] \in Turn
    BY <1>0 DEF Turn, TurnStages, Session
  <2>2. turn' \in [Submissions -> Turn]
    BY <1>1, <2>1 DEF Snapshot
  <2> QED BY <1>1, <2>2, SameTypes DEF Snapshot
<1>2. CASE Summarise(n)
  <2>1. turn[n].stage = "summing" /\ skipped' \in BOOLEAN
    BY <1>0, <1>2 DEF Summarise, LeaseTypeOK, Turn
  <2>2. turn' \in [Submissions -> Turn]
    <3> DEFINE next == IF turn[n].kind = "compact" THEN "told" ELSE "starting"
    <3>1. next \in TurnStages
      BY DEF TurnStages
    <3>2. turn' = [turn EXCEPT ![n] = [turn[n] EXCEPT !.missed = FALSE, !.stage = next]]
      BY <1>0, <1>2 DEF Summarise
    <3> HIDE DEF next
    <3>3. [turn[n] EXCEPT !.missed = FALSE, !.stage = next] \in Turn
      BY <1>0, <3>1 DEF Turn
    <3> QED BY <3>2, <3>3
  <2> QED BY <1>2, <2>1, <2>2 DEF Summarise, LeaseTypeOK, tokens
<1>3. CASE StartRun(n)
  <2>1. turn' \in [Submissions -> Turn]
    BY <1>3, ToMoves DEF StartRun, Later, TurnStages
  <2>2. used' \in Nat /\ used <= used' /\ token' \in 0..used'
    BY <1>3, TokenTypes DEF StartRun, LeaseTypeOK
  <2>3. acked' \subseteq 1..used'
    BY <1>3, <2>2 DEF StartRun, LeaseTypeOK
  <2>4. skipped' \in BOOLEAN /\ overlap' \in BOOLEAN
    BY <1>3 DEF StartRun, LeaseTypeOK
  <2> QED BY <1>3, <2>1, <2>2, <2>3, <2>4 DEF StartRun, LeaseTypeOK
<1>4. CASE Exchange(n)
  <2>1. Fine(s')
    BY <1>4, FineSessions DEF Exchange
  <2>2. turn' \in [Submissions -> Turn]
    BY <1>4, AppendMoves DEF Exchange, Later, TurnStages
  <2> QED BY <1>4, <2>1, <2>2, SameTypes DEF Exchange
<1>5. CASE ExchangePushed(n)
  <2>1. Fine(s')
    BY <1>5, FineSessions DEF ExchangePushed
  <2>2. turn' \in [Submissions -> Turn]
    BY <1>5, ToMoves DEF ExchangePushed, Later, TurnStages
  <2> QED BY <1>5, <2>1, <2>2, SameTypes DEF ExchangePushed
<1>6. CASE EndRun(n) \/ Vanish(n) \/ Forgotten(n)
  <2>1. turn' \in [Submissions -> Turn]
    BY <1>6, ToMoves DEF EndRun, Vanish, Forgotten, Later, TurnStages
  <2> QED BY <1>6, <2>1, SameTypes DEF EndRun, Vanish, Forgotten
<1>7. CASE AcknowledgeCancel(n)
  <2>1. turn' \in [Submissions -> Turn]
    BY <1>7, ToMoves DEF AcknowledgeCancel, Later, TurnStages
  <2>2. acked' \subseteq 1..used /\ token' \in 0..used
    BY <1>7 DEF AcknowledgeCancel, LeaseTypeOK, None
  <2> QED BY <1>7, <2>1, <2>2 DEF AcknowledgeCancel, LeaseTypeOK, rest
<1>8. CASE Store(n)
  <2>1. Fine(s')
    BY <1>8, FineSessions DEF Store
  <2>2. turn' \in [Submissions -> Turn]
    BY <1>8, AppendMoves, ToMoves DEF Store, Later, TurnStages
  <2> QED BY <1>8, <2>1, <2>2, SameTypes DEF Store
<1>9. CASE SetIdle(n)
  <2>1. Fine(s')
    BY <1>9, FineSessions DEF SetIdle
  <2>2. turn' \in [Submissions -> Turn]
    BY <1>9, ToMoves DEF SetIdle, Later, TurnStages
  <2> QED BY <1>9, <2>1, <2>2, SameTypes DEF SetIdle
<1> QED
  BY <1>1, <1>2, <1>3, <1>4, <1>5, <1>6, <1>7, <1>8, <1>9 DEF Task

LEMMA OtherTypes ==
  ASSUME LeaseTypeOK,
         (\E k \in Cancels : Canceller(k)) \/ OtherRequest \/ Notice \/ TimePasses
  PROVE  LeaseTypeOK'
<1> USE TypesOf
<1>1. ASSUME NEW k \in Cancels, Cancel(k) PROVE LeaseTypeOK'
  <2>1. Fine(s')
    BY <1>1, FineSessions DEF Cancel
  <2>2. CASE s.status = "working"
    <3>1. used' \in Nat /\ used <= used' /\ token' \in 0..used' /\ CurrentToken \in Nat
      BY <1>1, <2>2, TokenTypes DEF Cancel, LeaseTypeOK
    <3>2. acked' \subseteq 1..used'
      BY <1>1, <3>1 DEF Cancel, LeaseTypeOK
    <3>3. cancel' \in [Cancels -> Request]
      BY <1>1, <2>2, <3>1 DEF Cancel, LeaseTypeOK, Request
    <3> QED BY <1>1, <2>1, <3>1, <3>2, <3>3 DEF Cancel, LeaseTypeOK, Fine, rest
  <2>3. CASE s.status # "working"
    <3>1. cancel' \in [Cancels -> Request]
      BY <1>1, <2>3 DEF Cancel, LeaseTypeOK, Request, None
    <3>2. token' \in 0..used' /\ used' = used
      BY <1>1, <2>3 DEF Cancel, LeaseTypeOK, None
    <3> QED BY <1>1, <2>1, <3>1, <3>2 DEF Cancel, LeaseTypeOK, Fine, rest
  <2> QED BY <2>2, <2>3
<1>2. ASSUME NEW k \in Cancels, RequestStop(k) \/ CancelDone(k) \/ CancelTimesOut(k)
      PROVE  LeaseTypeOK'
  <2>1. cancel' \in [Cancels -> Request]
    BY <1>2 DEF RequestStop, CancelDone, CancelTimesOut, LeaseTypeOK, Request
  <2>2. token' \in 0..used /\ UNCHANGED <<s, turn, used, acked, skipped, overlap>>
    BY <1>2 DEF RequestStop, CancelDone, CancelTimesOut, LeaseTypeOK, None, tokens, rest
  <2> QED BY <2>1, <2>2 DEF LeaseTypeOK
<1>3. CASE OtherRequest
  BY <1>3, SameTypes DEF OtherRequest
<1>4. CASE Notice
  BY <1>4, FineSessions, SameTypes DEF Notice
<1>5. CASE TimePasses
  BY <1>5, FineSessions, SameTypes DEF TimePasses
<1> QED BY <1>1, <1>2, <1>3, <1>4, <1>5 DEF Canceller

-----------------------------------------------------------------------------
(* Steps that append a message.                                             *)

LEMMA ClientWritesKeep ==
  ASSUME LeaseTypeOK, LeaseKept, LeaseTypeOK', skipped' = skipped,
         NEW n \in Submissions, NEW what, NEW stage \in Later \ {"reserved", "over"},
         AppendTo(n, what, stage),
         stage = "summing" <=> turn[n].stage = "summing",
         \/ s'.owner = None
         \/ what \in {"user", "note"} /\ s'.owner = n /\ Owns(s, n)
  PROVE  LeaseKept'
<1> DEFINE own == what \in {"user", "note"}
<1>0. /\ stage \in Later /\ stage \notin {"none", "reserved", "over"}
      /\ turn \in [Submissions -> Turn] /\ s' \in Session
  BY DEF Later, LeaseTypeOK
<1>1. ASSUME NEW m \in Submissions
      PROVE  /\ turn'[m].stage = (IF m = n THEN stage ELSE turn[m].stage)
             /\ turn'[m].holder = turn[m].holder
             /\ turn'[m].overtaken = Rewritten(m, n, what).overtaken
             /\ turn'[m].missed = Rewritten(m, n, what).missed
  <2>1. CASE m = n
    BY <1>0, <2>1, AppendMoves
  <2>2. CASE m # n
    <3>0. \A l \in Submissions : l # n => turn'[l] = Rewritten(l, n, what)
      BY <1>0, AppendMoves
    <3>1. turn'[m] = Rewritten(m, n, what)
      BY <2>2, <3>0
    <3>2. /\ Rewritten(m, n, what).stage = turn[m].stage
          /\ Rewritten(m, n, what).holder = turn[m].holder
      BY <1>0, RewrittenTurn
    <3> QED BY <2>2, <3>1, <3>2
  <2> QED BY <2>1, <2>2
<1>2. ASSUME NEW m \in Submissions
      PROVE  /\ Rewritten(m, n, what).overtaken
                  = (turn[m].overtaken \/ (/\ turn[m].stage \notin {"none", "reserved", "over"}
                                           /\ ~(own /\ m = n)))
             /\ Rewritten(m, n, what).missed
                  = (turn[m].missed \/ (/\ turn[m].stage = "summing"
                                        /\ ~(own /\ turn[m].holder = n)))
  BY <1>0, RewrittenTurn
<1>3. \A m \in Submissions : Owns(s', m) => m = n /\ own
  BY DEF Owns, Submissions, None
<1>4. \A m \in Submissions : turn[m].stage # "none" => turn'[m].stage # "none"
  BY <1>0, <1>1
<1>5. \A m \in Submissions : turn'[m].stage \in {"none", "reserved", "over"} => ~turn'[m].overtaken
  <2> SUFFICES ASSUME NEW m \in Submissions, turn'[m].stage \in {"none", "reserved", "over"}
               PROVE  ~turn'[m].overtaken
    OBVIOUS
  <2>1. m # n /\ turn[m].stage \in {"none", "reserved", "over"}
    BY <1>0, <1>1
  <2>2. ~turn[m].overtaken
    BY <2>1 DEF LeaseKept
  <2> QED BY <1>1, <1>2, <2>1, <2>2
<1>6. OwnersMessageLast'
  <2> SUFFICES ASSUME NEW m \in Submissions, Owns(s', m) PROVE ~turn'[m].overtaken
    BY DEF OwnersMessageLast, Owns
  <2>1. m = n /\ own /\ s'.owner = n
    BY <1>3 DEF Owns
  <2>2. ~turn[n].overtaken
    BY <2>1 DEF LeaseKept, OwnersMessageLast, Owns, None, Submissions
  <2> QED BY <1>1, <1>2, <2>1, <2>2
<1>7. s'.owner # None => turn'[s'.owner].stage # "none"
  <2> SUFFICES ASSUME s'.owner # None PROVE turn'[n].stage # "none" /\ s'.owner = n
    OBVIOUS
  <2> QED BY <1>0, <1>1
<1>8. ASSUME NEW m \in Submissions, turn'[m].stage = "summing"
      PROVE  /\ turn'[m].holder # None /\ turn'[turn'[m].holder].stage # "none"
             /\ Owns(s', turn'[m].holder) => ~turn'[m].missed
  <2>1. turn[m].stage = "summing"
    BY <1>1, <1>8
  <2>2. /\ turn[m].holder # None /\ turn[turn[m].holder].stage # "none"
        /\ Owns(s, turn[m].holder) => ~turn[m].missed
        /\ turn[m].holder \in Submissions
    BY <1>0, <2>1 DEF LeaseKept, Reserved, Turn
  <2>3. turn'[m].holder # None /\ turn'[turn'[m].holder].stage # "none"
    BY <1>1, <1>4, <2>2
  <2>4. ASSUME Owns(s', turn'[m].holder) PROVE ~turn'[m].missed
    <3>1. turn[m].holder = n /\ own
      BY <1>1, <1>3, <2>2, <2>4
    <3>2. Owns(s, n)
      BY <2>2, <2>4, <1>1 DEF Owns
    <3> QED BY <1>1, <1>2, <2>2, <3>1, <3>2
  <2> QED BY <2>3, <2>4
<1>9. ASSUME NEW m \in Submissions, turn'[m].stage # "summing" PROVE ~turn'[m].missed
  <2>1. turn[m].stage # "summing"
    BY <1>1, <1>9
  <2>2. ~turn[m].missed
    BY <2>1 DEF LeaseKept
  <2> QED BY <1>1, <1>2, <2>1, <2>2
<1>10. \A m \in Submissions :
         IF turn'[m].stage = "summing"
         THEN /\ turn'[m].holder # None /\ turn'[turn'[m].holder].stage # "none"
              /\ Owns(s', turn'[m].holder) => ~turn'[m].missed
         ELSE ~turn'[m].missed
  BY <1>8, <1>9
<1>11. NothingElseSkipped'
  BY DEF LeaseKept, NothingElseSkipped
<1> QED BY <1>5, <1>6, <1>7, <1>10, <1>11 DEF LeaseKept, Reserved, Owns

(* A session as the steps leave it has nobody new.                          *)
LEMMA NobodyNew ==
  ASSUME LeaseTypeOK
  PROVE  /\ s' \in {Idle, s, Refreshed(s), Pushed(s), [Idle EXCEPT !.status = "cancelled"],
                    [s EXCEPT !.past = FALSE], [s EXCEPT !.past = TRUE]}
              => SameOwner
         /\ s' = Working(s) => SameOwner
         /\ \A n \in Submissions :
              s' \in {Released(s, n), Released(Refreshed(s), n)} => SameOwner
<1>0. s \in Session /\ (s.owner # None => s.status = "working")
  BY DEF LeaseTypeOK
<1>1. s' = Idle \/ s' = s => SameOwner
  BY DEF SameOwner, Idle
<1>2. s' = [Idle EXCEPT !.status = "cancelled"] => SameOwner
  BY DEF SameOwner, Idle
<1>3. s' = [s EXCEPT !.past = FALSE] \/ s' = [s EXCEPT !.past = TRUE] => SameOwner
  BY <1>0 DEF SameOwner, Session
<1>4. s' = Working(s) => SameOwner
  BY <1>0 DEF SameOwner, Session, Working
<1>5. Refreshed(s) \in {Idle, s} /\ Pushed(s) \in {Idle, s}
  BY DEF Refreshed, Pushed
<1>6. \A n \in Submissions : {Released(s, n), Released(Refreshed(s), n)} \subseteq {Idle, s}
  BY <1>5 DEF Released
<1> QED BY <1>1, <1>2, <1>3, <1>4, <1>5, <1>6

LEMMA ClientsKeep ==
  ASSUME LeaseTypeOK, LeaseKept, LeaseTypeOK', NEW n \in Submissions, TerminalClient(n)
  PROVE  LeaseKept'
<1>0. s \in Session /\ turn \in [Submissions -> Turn] /\ turn[n] \in Turn
  BY TypesOf
<1> DEFINE r == Refreshed(s)
<1>r. r \in Session /\ r \in {Idle, s}
  BY TypesOf DEF Refreshed
<1>o. Owns(r, n) => Owns(s, n)
  BY <1>r DEF Owns, Idle
<1>1. CASE Reserve(n)
  <2>1. turn[n].stage = "none" /\ UNCHANGED skipped
    BY <1>1 DEF Reserve, rest
  <2>2. PICK kind \in Kinds : turn' = [turn EXCEPT ![n].stage = "reserved", ![n].kind = kind]
    BY <1>1 DEF Reserve
  <2>3. turn' = [turn EXCEPT ![n] = [turn[n] EXCEPT !.stage = "reserved", !.kind = kind]]
    BY <2>2, <1>0
  <2>4. \A m \in Submissions : m # n => turn'[m] = turn[m]
    BY <1>0, <2>3
  <2>5. /\ turn'[n].stage = "reserved" /\ turn'[n].overtaken = turn[n].overtaken
        /\ turn'[n].missed = turn[n].missed
    BY <1>0, <2>3 DEF Turn
  <2>6. ~turn[n].overtaken /\ ~turn[n].missed
    BY <2>1 DEF LeaseKept
  <2>7. s'.owner = n /\ \A m \in Submissions : Owns(s', m) => m = n
    BY <1>1 DEF Reserve, Owns
  <2>8. OwnersMessageLast'
    BY <2>5, <2>6, <2>7 DEF OwnersMessageLast, Owns
  <2>9. ASSUME NEW m \in Submissions, turn'[m].stage = "summing"
        PROVE  /\ turn'[m].holder # None /\ turn'[turn'[m].holder].stage # "none"
               /\ Owns(s', turn'[m].holder) => ~turn'[m].missed
    <3>1. turn'[m] = turn[m]
      BY <2>4, <2>5, <2>9
    <3>2. turn[m].holder # None /\ turn[turn[m].holder].stage # "none" /\ turn[m].holder \in Submissions
      BY <1>0, <2>9, <3>1 DEF LeaseKept, Reserved, Turn
    <3>3. turn[m].holder # n
      BY <2>1, <3>2
    <3> QED BY <2>4, <2>7, <3>1, <3>2, <3>3
  <2>10. \A m \in Submissions : turn'[m].stage # "summing" => ~turn'[m].missed
    BY <2>4, <2>5, <2>6 DEF LeaseKept
  <2>11. \A m \in Submissions :
           IF turn'[m].stage = "summing"
           THEN /\ turn'[m].holder # None /\ turn'[turn'[m].holder].stage # "none"
                /\ Owns(s', turn'[m].holder) => ~turn'[m].missed
           ELSE ~turn'[m].missed
    BY <2>9, <2>10
  <2>12. \A m \in Submissions :
           turn'[m].stage \in {"none", "reserved", "over"} => ~turn'[m].overtaken
    BY <2>4, <2>5, <2>6 DEF LeaseKept
  <2>13. NothingElseSkipped'
    BY <2>1 DEF LeaseKept, NothingElseSkipped
  <2>14. turn'[s'.owner].stage # "none"
    BY <2>5, <2>7
  <2> QED BY <2>8, <2>11, <2>12, <2>13, <2>14 DEF LeaseKept, Reserved, Owns
<1>2. CASE SaveMessage(n)
  <2>0. skipped' = skipped /\ turn[n].stage = "reserved"
    BY <1>2 DEF SaveMessage, rest
  <2>1. CASE Owns(r, n)
    <3>1. s' = AppendReserved(r) /\ AppendTo(n, "user", "saved")
      BY <1>2, <2>1 DEF SaveMessage
    <3>2. s'.owner = n /\ Owns(s, n)
      BY <1>r, <1>o, <2>1, <3>1 DEF AppendReserved, Owns, Session
    <3> QED BY <2>0, <3>1, <3>2, ClientWritesKeep DEF Later, TurnStages
  <2>2. CASE ~Owns(r, n)
    <3>1. s' = r /\ To(n, "over")
      BY <1>2, <2>2 DEF SaveMessage
    <3> QED BY <2>0, <3>1, NobodyNew, MoveKeeps DEF Later, TurnStages
  <2> QED BY <2>1, <2>2
<1>3. CASE Note(n)
  <2>0. skipped' = skipped /\ turn[n].stage \in {"summing", "running", "between"}
    BY <1>3 DEF Note, rest
  <2>1. CASE Owns(r, n)
    <3>1. s' = AppendReserved(r) /\ AppendTo(n, "note", turn[n].stage)
      BY <1>3, <2>1 DEF Note
    <3>2. s'.owner = n /\ Owns(s, n)
      BY <1>r, <1>o, <2>1, <3>1 DEF AppendReserved, Owns, Session
    <3> QED BY <2>0, <3>1, <3>2, ClientWritesKeep DEF Later, TurnStages
  <2>2. CASE ~Owns(r, n)
    <3>1. s' = r /\ turn' = [turn EXCEPT ![n].heard = FALSE]
      BY <1>3, <2>2 DEF Note
    <3>2. \A m \in Submissions : Stays(m)
      BY <1>0, <3>1 DEF Stays, Turn
    <3> QED BY <2>0, <3>1, <3>2, NobodyNew, RestKeeps
  <2> QED BY <2>1, <2>2
<1>4. CASE Release(n)
  BY <1>4, NobodyNew, MoveKeeps DEF Release, rest, Later, TurnStages
<1>5. CASE Leave(n)
  <2>1. SameOwner /\ skipped' = skipped
    BY <1>5, NobodyNew DEF Leave
  <2>2. CASE To(n, "over")
    BY <2>1, <2>2, MoveKeeps DEF Later, TurnStages
  <2>3. CASE turn' = [turn EXCEPT ![n].heard = FALSE]
    <3>1. \A m \in Submissions : Stays(m)
      BY <1>0, <2>3 DEF Stays, Turn
    <3> QED BY <2>1, <3>1, RestKeeps
  <2> QED BY <1>5, <2>2, <2>3 DEF Leave
<1> QED BY <1>1, <1>2, <1>3, <1>4, <1>5 DEF TerminalClient

LEMMA TasksKeep ==
  ASSUME LeaseTypeOK, LeaseKept, LeaseTypeOK', NEW n \in Submissions, Task(n)
  PROVE  LeaseKept'
<1>0. /\ s \in Session /\ turn \in [Submissions -> Turn] /\ turn[n] \in Turn
      /\ (s' = s => SameOwner) /\ ~skipped
  BY TypesOf, NobodyNew DEF LeaseKept, NothingElseSkipped
<1>1. CASE Snapshot(n)
  <2>0. turn[n].stage # "summing" /\ s' = s /\ ~skipped'
    BY <1>0, <1>1 DEF Snapshot, rest
  <2>1. ~turn[n].missed
    BY <2>0 DEF LeaseKept
  <2>2. \A m \in Submissions : m # n => Stays(m)
    BY <1>0, <1>1 DEF Snapshot, Stays
  <2>3. CASE turn'[n] = [turn[n] EXCEPT !.stage = "told"]
    <3>1. Passes(n)
      BY <1>0, <2>1, <2>3 DEF Passes, Turn
    <3> QED BY <1>0, <2>0, <2>2, <3>1, QuietKeeps
  <2>4. CASE turn'[n] = [[turn[n] EXCEPT !.holder = s.owner] EXCEPT !.stage = "starting"]
    <3>1. Passes(n)
      BY <1>0, <2>1, <2>4 DEF Passes, Turn
    <3> QED BY <1>0, <2>0, <2>2, <3>1, QuietKeeps
  <2>5. CASE /\ turn'[n] = [[turn[n] EXCEPT !.holder = s.owner] EXCEPT !.stage = "summing"]
             /\ s.owner # None
    <3>1. Reserved(s.owner) /\ s.owner \in Submissions
      BY <1>0, <2>5 DEF LeaseKept, Session
    <3>2. /\ turn'[n].stage = "summing" /\ turn'[n].missed = turn[n].missed
          /\ turn'[n].overtaken = turn[n].overtaken /\ turn'[n].holder = s.owner
      BY <1>0, <2>5 DEF Turn
    <3>3. BeginsSummary(n)
      BY <1>0, <2>1, <3>1, <3>2 DEF BeginsSummary, Turn
    <3> QED BY <1>0, <2>0, <2>2, <3>3, QuietKeeps
  <2>6. s.owner # None \/ ~(Owns(s, n) \/ s.owner # None)
    BY DEF Owns, None, Submissions
  <2> QED BY <1>0, <1>1, <2>3, <2>4, <2>5, <2>6 DEF Snapshot
<1>2. CASE Summarise(n)
  <2>1. turn[n].stage = "summing" /\ s' = s
    BY <1>2 DEF Summarise
  <2>2. ~skipped'
    <3>1. Owns(s, turn[n].holder) => ~turn[n].missed
      BY <2>1 DEF LeaseKept
    <3> QED BY <1>0, <1>2, <3>1 DEF Summarise, KeepsSummary
  <2>3. \A m \in Submissions : m # n => Stays(m)
    BY <1>0, <1>2 DEF Summarise, Stays
  <2>4. /\ turn'[n].stage \in {"told", "starting"} /\ turn'[n].missed = FALSE
        /\ turn'[n].overtaken = turn[n].overtaken
    BY <1>0, <1>2 DEF Summarise, Turn
  <2>5. Passes(n)
    BY <2>4 DEF Passes
  <2> QED BY <1>0, <2>1, <2>2, <2>3, <2>5, QuietKeeps
<1>3. CASE StartRun(n)
  BY <1>0, <1>3, MoveKeeps DEF StartRun, Later, TurnStages
<1>4. CASE Exchange(n)
  <2>1. s'.owner = None /\ skipped' = skipped
    BY <1>0, <1>4 DEF Exchange, Pushed, Idle, rest, LeaseTypeOK, None, Session
  <2> QED BY <1>4, <2>1, ClientWritesKeep DEF Exchange, Later, TurnStages
<1>5. CASE ExchangePushed(n)
  BY <1>5, NobodyNew, MoveKeeps DEF ExchangePushed, rest, Later, TurnStages
<1>6. CASE EndRun(n)
  BY <1>0, <1>6, MoveKeeps DEF EndRun, rest, Later, TurnStages
<1>7. CASE Vanish(n) \/ Forgotten(n)
  BY <1>0, <1>7, MoveKeeps DEF Vanish, Forgotten, rest, Later, TurnStages
<1>8. CASE AcknowledgeCancel(n)
  BY <1>0, <1>8, MoveKeeps DEF AcknowledgeCancel, rest, Later, TurnStages
<1>9. CASE Store(n)
  <2> DEFINE next == IF turn[n].kind = "answer" THEN "stored" ELSE "told"
  <2>0. next \in Later \ {"reserved", "summing"} /\ next # "over" /\ skipped' = skipped
    BY <1>9 DEF Store, Later, TurnStages, rest
  <2>1. turn[n].stage # "summing"
    BY <1>9 DEF Store
  <2>2. CASE s' = Idle /\ AppendTo(n, "answer", next)
    <3>1. s'.owner = None /\ next \in Later \ {"reserved", "over"} /\ next # "summing"
      BY <2>0, <2>2 DEF Idle
    <3> HIDE DEF next
    <3> QED BY <2>0, <2>1, <2>2, <3>1, ClientWritesKeep
  <2>3. CASE To(n, next) /\ s' = s
    <3> HIDE DEF next
    <3> QED BY <1>0, <2>0, <2>1, <2>3, MoveKeeps
  <2> QED BY <1>9, <2>2, <2>3 DEF Store
<1>10. CASE SetIdle(n)
  BY <1>10, NobodyNew, MoveKeeps DEF SetIdle, rest, Later, TurnStages
<1> QED
  BY <1>1, <1>2, <1>3, <1>4, <1>5, <1>6, <1>7, <1>8, <1>9, <1>10 DEF Task

LEMMA OthersKeep ==
  ASSUME LeaseTypeOK, LeaseKept, LeaseTypeOK',
         (\E k \in Cancels : Canceller(k)) \/ OtherRequest \/ Notice \/ TimePasses
  PROVE  LeaseKept'
<1>1. turn' = turn /\ skipped' = skipped
  BY DEF Canceller, Cancel, RequestStop, CancelDone, CancelTimesOut, OtherRequest, Notice,
         TimePasses, rest
<1>2. SameOwner
  BY NobodyNew
    DEF Canceller, Cancel, RequestStop, CancelDone, CancelTimesOut, OtherRequest, Notice,
        TimePasses
<1>3. \A m \in Submissions : Stays(m)
  BY <1>1 DEF Stays
<1> QED BY <1>1, <1>2, <1>3, RestKeeps

-----------------------------------------------------------------------------
(* What a cancellation waits for.                                           *)

(* A submission after a step that begins no turn.                           *)
NoTurnBegins ==
  \A n \in Submissions :
    /\ turn'[n].stage \in {"running", "between"} => Runs(n)
    /\ turn'[n].stage \in {"running", "between", "ended"} => Busy(n)
    /\ Begun(n) => turn'[n].stage \notin {"none", "reserved", "saved", "summing", "starting"}

(* A request to cancel after a step: it is as it was, or it has been told   *)
(* of an acknowledged token, or of none.                                    *)
Follows(k) ==
  /\ cancel'[k].hit = cancel[k].hit /\ cancel'[k].tok = cancel[k].tok
  /\ cancel'[k].stage = "told" => cancel[k].stage = "told" \/ cancel[k].tok \in acked

LEMMA QuietStops ==
  ASSUME LeaseTypeOK, TurnsStopped, NoTurnBegins, overlap' = overlap, acked' = acked,
         token' \notin acked, \A k \in Cancels : Follows(k)
  PROVE  TurnsStopped'
<1>1. ~overlap' => \A m, n \in Submissions : Busy(m)' /\ Busy(n)' => m = n
  BY DEF NoTurnBegins, TurnsStopped, Busy, Runs
<1>2. ASSUME NEW k \in Cancels
      PROVE  /\ \A n \in cancel'[k].hit : Begun(n)'
             /\ cancel'[k].stage = "told" /\ cancel'[k].tok # None => cancel'[k].tok \in acked'
             /\ ~overlap' /\ cancel'[k].tok \in acked' => \A n \in cancel'[k].hit : ~Runs(n)'
  <2>0. cancel[k].hit \subseteq Submissions
    BY DEF LeaseTypeOK, Request
  <2>1. /\ \A n \in cancel[k].hit : Begun(n)
        /\ cancel[k].stage = "told" /\ cancel[k].tok # None => cancel[k].tok \in acked
        /\ ~overlap /\ cancel[k].tok \in acked => \A n \in cancel[k].hit : ~Runs(n)
    BY DEF TurnsStopped
  <2>2. Follows(k)
    OBVIOUS
  <2>3. \A n \in cancel'[k].hit : Begun(n)'
    BY <2>0, <2>1, <2>2 DEF Follows, NoTurnBegins, Begun
  <2>4. ~overlap' /\ cancel'[k].tok \in acked' => \A n \in cancel'[k].hit : ~Runs(n)'
    BY <2>0, <2>1, <2>2 DEF Follows, NoTurnBegins, Runs
  <2>5. cancel'[k].stage = "told" /\ cancel'[k].tok # None => cancel'[k].tok \in acked'
    BY <2>1, <2>2 DEF Follows
  <2> QED BY <2>3, <2>4, <2>5
<1> QED BY <1>1, <1>2 DEF TurnsStopped

(* A step of one submission to a stage that begins no turn.                 *)
LEMMA OneMoves ==
  ASSUME NEW n \in Submissions,
         \A m \in Submissions : m # n => turn'[m].stage = turn[m].stage,
         turn'[n].stage \in {"running", "between"} => Runs(n),
         turn'[n].stage = "ended" => Busy(n),
         Begun(n) => turn'[n].stage \notin {"none", "reserved", "saved", "summing", "starting"}
  PROVE  NoTurnBegins
  BY DEF NoTurnBegins, Runs, Busy, Begun

LEMMA StagesTo ==
  ASSUME LeaseTypeOK, NEW n \in Submissions, NEW stage \in Later,
         NEW what, To(n, stage) \/ AppendTo(n, what, stage)
  PROVE  /\ turn'[n].stage = stage
         /\ \A m \in Submissions : m # n => turn'[m].stage = turn[m].stage
<1>0. turn \in [Submissions -> Turn]
  BY DEF LeaseTypeOK
<1>1. CASE To(n, stage)
  BY <1>0, <1>1, ToMoves
<1>2. CASE AppendTo(n, what, stage)
  <2>1. /\ turn'[n].stage = stage
        /\ \A m \in Submissions : m # n => turn'[m] = Rewritten(m, n, what)
    BY <1>0, <1>2, AppendMoves
  <2>2. \A m \in Submissions : Rewritten(m, n, what).stage = turn[m].stage
    BY <1>0, RewrittenTurn
  <2> QED BY <2>1, <2>2
<1> QED BY <1>1, <1>2

LEMMA MovesStop ==
  ASSUME LeaseTypeOK, NEW n \in Submissions, NEW stage \in TurnStages, NEW what,
         To(n, stage) \/ AppendTo(n, what, stage), stage # "none",
         stage \in {"running", "between"} => Runs(n), stage = "ended" => Busy(n),
         Begun(n) => stage \notin {"reserved", "saved", "summing", "starting"}
  PROVE  NoTurnBegins
<1>1. stage \in Later
  BY DEF Later
<1>2. /\ turn'[n].stage = stage
      /\ \A m \in Submissions : m # n => turn'[m].stage = turn[m].stage
  BY <1>1, StagesTo
<1> QED BY <1>2, OneMoves

LEMMA SubmissionsStop ==
  ASSUME LeaseTypeOK, TurnsStopped, NEW n \in Submissions,
         \/ TerminalClient(n) \/ Snapshot(n) \/ Summarise(n) \/ Exchange(n)
         \/ ExchangePushed(n) \/ EndRun(n) \/ Vanish(n) \/ Store(n) \/ SetIdle(n) \/ Forgotten(n)
  PROVE  TurnsStopped'
<1>0. turn \in [Submissions -> Turn] /\ turn[n] \in Turn
  BY TypesOf
<1>1. UNCHANGED <<overlap, acked, token, cancel>>
  BY DEF TerminalClient, Reserve, SaveMessage, Note, Release, Leave, Snapshot, Summarise,
         Exchange, ExchangePushed, EndRun, Vanish, Store, SetIdle, Forgotten, tokens, rest
<1>2. NoTurnBegins
  <2>1. CASE Reserve(n)
    <3>1. /\ turn[n].stage = "none"
          /\ \E kind \in Kinds : turn' = [turn EXCEPT ![n].stage = "reserved", ![n].kind = kind]
      BY <2>1 DEF Reserve
    <3>2. /\ turn'[n].stage = "reserved"
          /\ \A m \in Submissions : m # n => turn'[m].stage = turn[m].stage
      BY <1>0, <3>1 DEF Turn
    <3> QED BY <3>1, <3>2, OneMoves DEF Begun
  <2>2. CASE SaveMessage(n)
    <3>1. ~Begun(n) /\ (AppendTo(n, "user", "saved") \/ To(n, "over"))
      BY <2>2 DEF SaveMessage, Begun
    <3> QED BY <3>1, MovesStop DEF TurnStages
  <2>3. CASE turn' = [turn EXCEPT ![n].heard = FALSE]
    <3>1. \A m \in Submissions : turn'[m].stage = turn[m].stage
      BY <1>0, <2>3 DEF Turn
    <3> QED BY <3>1 DEF NoTurnBegins, Runs, Busy, Begun
  <2>4. CASE AppendTo(n, "note", turn[n].stage) /\ turn[n].stage \in {"summing", "running", "between"}
    <3>1. /\ turn[n].stage \in TurnStages /\ turn[n].stage \notin {"none", "ended"}
          /\ turn[n].stage \in {"running", "between"} => Runs(n)
          /\ Begun(n) => turn[n].stage \notin {"reserved", "saved", "summing", "starting"}
      BY <2>4 DEF TurnStages, Runs, Begun
    <3> QED BY <2>4, <3>1, MovesStop
  <2>5. CASE To(n, "over")
    BY <2>5, MovesStop DEF TurnStages
  <2>6. CASE Snapshot(n)
    <3>1. turn[n].stage \in {"reserved", "saved"}
      BY <2>6 DEF Snapshot
    <3>2. turn'[n].stage \in {"told", "starting", "summing"}
      BY <1>0, <2>6 DEF Snapshot, Turn
    <3>3. \A m \in Submissions : m # n => turn'[m].stage = turn[m].stage
      BY <1>0, <2>6 DEF Snapshot
    <3> QED BY <3>1, <3>2, <3>3, OneMoves DEF Begun
  <2>7. CASE Summarise(n)
    <3>1. turn[n].stage = "summing" /\ turn'[n].stage \in {"told", "starting"}
      BY <1>0, <2>7 DEF Summarise, Turn
    <3>2. \A m \in Submissions : m # n => turn'[m].stage = turn[m].stage
      BY <1>0, <2>7 DEF Summarise
    <3> QED BY <3>1, <3>2, OneMoves DEF Begun
  <2>8. CASE Exchange(n) \/ ExchangePushed(n) \/ EndRun(n)
    <3>1. Runs(n) /\ Busy(n)
      BY <2>8 DEF Exchange, ExchangePushed, EndRun, Runs, Busy
    <3>2. \/ AppendTo(n, "exchange", "between") \/ To(n, "running") \/ To(n, "ended")
      BY <2>8 DEF Exchange, ExchangePushed, EndRun
    <3> QED BY <3>1, <3>2, MovesStop DEF TurnStages
  <2>9. CASE Store(n) \/ SetIdle(n)
    <3>1. PICK next \in {"stored", "told"} : AppendTo(n, "answer", next) \/ To(n, next)
      BY <2>9 DEF Store, SetIdle
    <3>2. /\ next \in TurnStages
          /\ next \notin {"none", "reserved", "saved", "summing", "starting", "running", "between", "ended"}
      BY DEF TurnStages
    <3> QED BY <3>1, <3>2, MovesStop
  <2> QED
    BY <2>1, <2>2, <2>3, <2>4, <2>5, <2>6, <2>7, <2>8, <2>9
      DEF TerminalClient, Note, Release, Leave, Vanish, Forgotten
<1>3. token' \notin acked
  BY <1>1 DEF TurnsStopped
<1>4. \A k \in Cancels : Follows(k)
  BY <1>1 DEF Follows
<1> QED BY <1>1, <1>2, <1>3, <1>4, QuietStops

LEMMA StartsStop ==
  ASSUME LeaseTypeOK, TurnsStopped, NEW n \in Submissions, StartRun(n)
  PROVE  TurnsStopped'
<1>1. /\ turn[n].stage = "starting" /\ turn'[n].stage = "running"
      /\ \A m \in Submissions : m # n => turn'[m].stage = turn[m].stage
  BY StagesTo DEF StartRun, Later, TurnStages
<1>2. /\ cancel' = cancel /\ acked' = acked
      /\ overlap' = (overlap \/ \E m \in Submissions : Busy(m))
  BY DEF StartRun
<1>3. token' \notin acked'
  <2>1. token' = CurrentToken /\ CurrentToken # None /\ CurrentToken \notin (1..used) \ {token}
    BY TokenTypes DEF StartRun, TakeToken, LeaseTypeOK, None
  <2> QED BY <1>2, <2>1 DEF LeaseTypeOK, TurnsStopped
<1>4. ~overlap' => \A l, m \in Submissions : Busy(l)' /\ Busy(m)' => l = m
  BY <1>1, <1>2 DEF Busy, Runs
<1>5. ASSUME NEW k \in Cancels
      PROVE  /\ \A m \in cancel'[k].hit : Begun(m)'
             /\ cancel'[k].stage = "told" /\ cancel'[k].tok # None => cancel'[k].tok \in acked'
             /\ ~overlap' /\ cancel'[k].tok \in acked' => \A m \in cancel'[k].hit : ~Runs(m)'
  <2>0. cancel[k].hit \subseteq Submissions
    BY DEF LeaseTypeOK, Request
  <2>1. /\ \A m \in cancel[k].hit : Begun(m)
        /\ cancel[k].stage = "told" /\ cancel[k].tok # None => cancel[k].tok \in acked
        /\ ~overlap /\ cancel[k].tok \in acked => \A m \in cancel[k].hit : ~Runs(m)
    BY DEF TurnsStopped
  <2>2. n \notin cancel[k].hit
    BY <1>1, <2>1 DEF Begun
  <2>3. \A m \in cancel[k].hit : turn'[m].stage = turn[m].stage
    BY <1>1, <2>0, <2>2
  <2> QED BY <1>2, <2>1, <2>3 DEF Begun, Runs
<1> QED BY <1>3, <1>4, <1>5 DEF TurnsStopped

LEMMA AcknowledgementsStop ==
  ASSUME LeaseTypeOK, TurnsStopped, NEW n \in Submissions, AcknowledgeCancel(n)
  PROVE  TurnsStopped'
<1>1. /\ turn[n].stage = "ended" /\ turn'[n].stage = "acked"
      /\ \A m \in Submissions : m # n => turn'[m].stage = turn[m].stage
  BY StagesTo DEF AcknowledgeCancel, Later, TurnStages
<1>2. /\ cancel' = cancel /\ overlap' = overlap /\ token' = None
      /\ acked' = acked \cup ({token} \ {None})
  BY DEF AcknowledgeCancel, rest
<1>3. token' \notin acked'
  BY <1>2 DEF LeaseTypeOK, None
<1>4. ~overlap' => \A l, m \in Submissions : Busy(l)' /\ Busy(m)' => l = m
  BY <1>1, <1>2 DEF Busy, Runs, TurnsStopped
<1>5. ~overlap => \A m \in Submissions : turn'[m].stage \notin {"running", "between"}
  BY <1>1 DEF TurnsStopped, Busy, Runs
<1>6. ASSUME NEW k \in Cancels
      PROVE  /\ \A m \in cancel'[k].hit : Begun(m)'
             /\ cancel'[k].stage = "told" /\ cancel'[k].tok # None => cancel'[k].tok \in acked'
             /\ ~overlap' /\ cancel'[k].tok \in acked' => \A m \in cancel'[k].hit : ~Runs(m)'
  <2>0. cancel[k].hit \subseteq Submissions
    BY DEF LeaseTypeOK, Request
  <2>1. /\ \A m \in cancel[k].hit : Begun(m)
        /\ cancel[k].stage = "told" /\ cancel[k].tok # None => cancel[k].tok \in acked
    BY DEF TurnsStopped
  <2>2. \A m \in cancel'[k].hit : Begun(m)'
    BY <1>1, <1>2, <2>0, <2>1 DEF Begun
  <2>3. ~overlap' => \A m \in cancel'[k].hit : ~Runs(m)'
    BY <1>2, <1>5, <2>0 DEF Runs
  <2> QED BY <1>2, <2>1, <2>2, <2>3
<1> QED BY <1>3, <1>4, <1>6 DEF TurnsStopped

LEMMA CancelsStop ==
  ASSUME LeaseTypeOK, TurnsStopped, NEW k \in Cancels, Canceller(k)
  PROVE  TurnsStopped'
<1>1. /\ turn' = turn /\ acked' = acked /\ overlap' = overlap
      /\ cancel \in [Cancels -> Request]
  BY DEF Canceller, Cancel, RequestStop, CancelDone, CancelTimesOut, rest, tokens, LeaseTypeOK
<1>2. None \notin acked /\ token \notin acked
  BY DEF LeaseTypeOK, TurnsStopped, None
<1>3. CASE Cancel(k)
  <2> DEFINE hit == {n \in Submissions : Runs(n)}
  <2>1. CurrentToken \notin acked /\ CurrentToken # None
    BY <1>2, TokenTypes DEF LeaseTypeOK
  <2>2. \E r \in {[stage |-> "marked", tok |-> CurrentToken, hit |-> hit],
                  [stage |-> "told", tok |-> None, hit |-> hit]} :
          cancel' = [cancel EXCEPT ![k] = r]
    BY <1>3 DEF Cancel
  <2>3. token' \notin acked'
    BY <1>1, <1>2, <1>3, <2>1 DEF Cancel, TakeToken
  <2>4. ~overlap' => \A l, m \in Submissions : Busy(l)' /\ Busy(m)' => l = m
    BY <1>1 DEF Busy, Runs, TurnsStopped
  <2>5. ASSUME NEW j \in Cancels
        PROVE  /\ \A m \in cancel'[j].hit : Begun(m)'
               /\ cancel'[j].stage = "told" /\ cancel'[j].tok # None => cancel'[j].tok \in acked'
               /\ ~overlap' /\ cancel'[j].tok \in acked' => \A m \in cancel'[j].hit : ~Runs(m)'
    <3>1. CASE j # k
      <4>1. cancel'[j] = cancel[j]
        BY <2>2, <3>1
      <4> QED BY <1>1, <4>1 DEF TurnsStopped, Begun, Runs
    <3>2. CASE j = k
      <4>1. /\ cancel'[j].hit = hit /\ cancel'[j].tok \notin acked
            /\ cancel'[j].stage = "told" => cancel'[j].tok = None
        BY <1>1, <1>2, <2>1, <2>2, <3>2
      <4>2. \A m \in hit : Begun(m)
        BY DEF Begun, Runs
      <4> QED BY <1>1, <4>1, <4>2 DEF Begun
    <3> QED BY <3>1, <3>2
  <2> QED BY <2>3, <2>4, <2>5 DEF TurnsStopped
<1>4. CASE RequestStop(k) \/ CancelDone(k) \/ CancelTimesOut(k)
  <2>1. NoTurnBegins
    BY <1>1 DEF NoTurnBegins, Runs, Busy, Begun
  <2>2. token' \notin acked
    BY <1>2, <1>4 DEF RequestStop, CancelDone, CancelTimesOut, tokens
  <2>3. ASSUME NEW j \in Cancels PROVE Follows(j)
    BY <1>1, <1>4 DEF RequestStop, CancelDone, CancelTimesOut, Follows, Request
  <2> QED BY <1>1, <2>1, <2>2, <2>3, QuietStops
<1> QED BY <1>3, <1>4 DEF Canceller

LEMMA OthersStop ==
  ASSUME LeaseTypeOK, TurnsStopped, OtherRequest \/ Notice \/ TimePasses
  PROVE  TurnsStopped'
<1>1. UNCHANGED <<turn, overlap, acked, token, cancel>>
  BY DEF OtherRequest, Notice, TimePasses, tokens, rest
<1> QED BY <1>1 DEF TurnsStopped, Busy, Runs, Begun

-----------------------------------------------------------------------------
LEMMA InitIsLeased == LeaseInit => LeaseInv
<1> SUFFICES ASSUME LeaseInit PROVE LeaseInv
  OBVIOUS
<1> USE DEF LeaseInit
<1>1. NewTurn("answer") \in Turn
  BY DEF NewTurn, Turn, TurnStages, None
<1>2. NoRequest \in Request
  BY DEF NoRequest, Request, None
<1>3. LeaseTypeOK
  <2>1. s \in Session /\ s.owner = None
    BY DEF Session, Idle, None
  <2>2. turn \in [Submissions -> Turn] /\ cancel \in [Cancels -> Request]
    BY <1>1, <1>2
  <2>3. used \in Nat /\ token \in 0..used /\ acked \subseteq 1..used
    BY DEF None
  <2>4. {skipped, overlap} \subseteq BOOLEAN
    OBVIOUS
  <2> QED BY <2>1, <2>2, <2>3, <2>4 DEF LeaseTypeOK
<1>4. \A n \in Submissions : /\ turn[n].stage = "none" /\ turn[n].overtaken = FALSE
                            /\ turn[n].missed = FALSE
  BY DEF NewTurn
<1>5. LeaseKept
  BY <1>4 DEF LeaseKept, OwnersMessageLast, NothingElseSkipped, Idle
<1>6. \A k \in Cancels : cancel[k].hit = {} /\ cancel[k].stage = "none"
  BY DEF NoRequest
<1>7. TurnsStopped
  BY <1>4, <1>6 DEF TurnsStopped, Busy, Runs
<1> QED BY <1>3, <1>5, <1>7 DEF LeaseInv

LEMMA NextIsLeased == LeaseInv /\ [LeaseNext]_lease => LeaseInv'
<1> SUFFICES ASSUME LeaseInv, [LeaseNext]_lease PROVE LeaseInv'
  OBVIOUS
<1>0. LeaseTypeOK /\ LeaseKept /\ TurnsStopped
  BY DEF LeaseInv
<1>1. ASSUME NEW n \in Submissions, TerminalClient(n) PROVE LeaseInv'
  BY <1>0, <1>1, SubmissionTypes, ClientsKeep, SubmissionsStop DEF LeaseInv
<1>2. ASSUME NEW n \in Submissions, Task(n) PROVE LeaseInv'
  <2>1. LeaseTypeOK' /\ LeaseKept'
    BY <1>0, <1>2, TaskTypes, TasksKeep
  <2>2. TurnsStopped'
    BY <1>0, <1>2, StartsStop, AcknowledgementsStop, SubmissionsStop DEF Task
  <2> QED BY <2>1, <2>2 DEF LeaseInv
<1>3. ASSUME NEW k \in Cancels, Canceller(k) PROVE LeaseInv'
  BY <1>0, <1>3, OtherTypes, OthersKeep, CancelsStop DEF LeaseInv
<1>4. CASE OtherRequest \/ Notice \/ TimePasses
  BY <1>0, <1>4, OtherTypes, OthersKeep, OthersStop DEF LeaseInv
<1>5. CASE UNCHANGED lease
  <2>1. UNCHANGED <<s, turn, token, acked, used, cancel, skipped, overlap>>
    BY <1>5 DEF lease, tokens, rest
  <2>2. LeaseTypeOK'
    BY <1>0, <2>1 DEF LeaseTypeOK
  <2>3. LeaseKept'
    BY <1>0, <2>1 DEF LeaseKept, OwnersMessageLast, NothingElseSkipped, Owns, Reserved
  <2>4. TurnsStopped'
    BY <1>0, <2>1 DEF TurnsStopped, Busy, Runs, Begun
  <2> QED BY <2>2, <2>3, <2>4 DEF LeaseInv
<1> QED BY <1>1, <1>2, <1>3, <1>4, <1>5 DEF LeaseNext

(* The types, and what the three properties rest on, hold throughout.       *)
THEOREM Leased == LeaseSpec => []LeaseInv
  BY InitIsLeased, NextIsLeased, PTL DEF LeaseSpec

(* However clients, tasks and the end of reservations interleave, nobody's  *)
(* message but notices follows that of the owner of the session.            *)
THEOREM MessageLast == LeaseSpec => []OwnersMessageLast
<1>1. LeaseInv => OwnersMessageLast
  BY DEF LeaseInv, LeaseKept
<1> QED BY <1>1, Leased, PTL

(* No compacted context stands for a message of somebody else that it was   *)
(* not made of.                                                             *)
THEOREM SkipsNothing == LeaseSpec => []NothingElseSkipped
<1>1. LeaseInv => NothingElseSkipped
  BY DEF LeaseInv, LeaseKept
<1> QED BY <1>1, Leased, PTL

(* Who is told of a cancellation is told when the turns that ran have       *)
(* stopped, as long as turns have not overlapped.                           *)
THEOREM CancelsWait == LeaseSpec => []CancelWaits
<1>1. LeaseInv => CancelWaits
  BY DEF LeaseInv, TurnsStopped, CancelWaits
<1> QED BY <1>1, Leased, PTL

-----------------------------------------------------------------------------
(* One turn at a time, where nothing takes the session from a turn.         *)

UnderWay(n) == turn[n].stage \notin {"none", "stored", "told", "over"}

(* What the five ways in which a turn loses its session have in common:     *)
(* a turn under way is cancelled, or its reservation runs out; a client     *)
(* leaves, and may give the session back; another client reserves it        *)
(* between the two steps of a tool exchange, or between the answer and      *)
(* the step that sets the session idle whoever has it.                      *)
Undisturbed ==
  /\ \A n \in Submissions : UnderWay(n) => s.status # "cancelled" /\ ~(s.status = "working" /\ s.past)
  /\ leaves = 0
  /\ \A n \in Submissions : turn[n].stage = "between" => s.owner = None
  /\ \A n \in Submissions : turn[n].stage = "stored" => s.owner \in {None, n}

Unfinished(n) == UnderWay(n) \/ turn[n].stage = "stored"

Alone ==
  /\ \A m, n \in Submissions : Unfinished(m) /\ Unfinished(n) => m = n
  /\ \A n \in Submissions : UnderWay(n) =>
       s.owner \in {None, n} /\ (turn[n].stage # "between" => s.status = "working")

(* A step of the one submission that is unfinished, or of one that is not   *)
(* and stays so.                                                            *)
LEMMA OneGoesOn ==
  ASSUME Alone, NEW n \in Submissions,
         \A m \in Submissions : m # n => turn'[m].stage = turn[m].stage,
         Unfinished(n)' => Unfinished(n),
         UnderWay(n)' => /\ s'.owner \in {None, n}
                         /\ turn'[n].stage # "between" => s'.status = "working",
         ~Unfinished(n) => \A m \in Submissions : UnderWay(m) => s' = s
  PROVE  Alone'
<1>1. \A m \in Submissions : m # n => /\ UnderWay(m)' <=> UnderWay(m)
                                      /\ Unfinished(m)' <=> Unfinished(m)
  BY DEF UnderWay, Unfinished
<1>2. \A l, m \in Submissions : Unfinished(l)' /\ Unfinished(m)' => l = m
  BY <1>1 DEF Alone
<1>3. ASSUME NEW m \in Submissions, UnderWay(m)', m # n
      PROVE  s'.owner \in {None, m} /\ (turn'[m].stage # "between" => s'.status = "working")
  <2>1. UnderWay(m) /\ Unfinished(m)
    BY <1>1, <1>3 DEF Unfinished
  <2>2. ~Unfinished(n)
    BY <1>3, <2>1 DEF Alone
  <2> QED BY <1>3, <2>1, <2>2 DEF Alone
<1> QED BY <1>2, <1>3 DEF Alone, UnderWay, Unfinished

(* The session of a turn under way is not returned to idle by a request.    *)
LEMMA NotRunOut ==
  ASSUME Undisturbed, NEW n \in Submissions, UnderWay(n)
  PROVE  Refreshed(s) = s
  BY DEF Undisturbed, Refreshed

(* What each step of a submission that has its place does to its stage.     *)
LEMMA StepsGoOn ==
  ASSUME LeaseTypeOK, Undisturbed, Undisturbed', Alone, NEW n \in Submissions,
         \/ SaveMessage(n) \/ Note(n) \/ Release(n) \/ Leave(n) \/ Task(n)
  PROVE  Alone'
<1>0. turn \in [Submissions -> Turn] /\ s \in Session /\ turn[n].stage \in TurnStages
  BY DEF LeaseTypeOK, Turn
<1> USE DEF UnderWay, Unfinished
<1>1. ASSUME NEW stage \in Later, NEW what, To(n, stage) \/ AppendTo(n, what, stage),
             stage \in {"told", "over"},
             ~Unfinished(n) => \A m \in Submissions : UnderWay(m) => s' = s
      PROVE  Alone'
  BY <1>1, StagesTo, OneGoesOn
<1>2. ASSUME NEW stage \in Later, NEW what, To(n, stage) \/ AppendTo(n, what, stage),
             Unfinished(n),
             stage # "stored" => /\ s'.owner \in {None, n}
                                 /\ stage # "between" => s'.status = "working"
      PROVE  Alone'
  BY <1>2, StagesTo, OneGoesOn
<1>3. UnderWay(n) => s.owner \in {None, n} /\ (turn[n].stage # "between" => s.status = "working")
  BY DEF Alone
<1>4. CASE SaveMessage(n)
  <2>1. UnderWay(n) /\ Refreshed(s) = s
    BY <1>4, NotRunOut DEF SaveMessage
  <2>2. CASE Owns(s, n)
    <3>1. s' = AppendReserved(s) /\ AppendTo(n, "user", "saved")
      BY <1>4, <2>1, <2>2 DEF SaveMessage
    <3>2. s'.owner = n /\ s'.status = "working"
      BY <1>0, <2>2, <3>1 DEF AppendReserved, Owns, Session
    <3> QED BY <1>2, <2>1, <3>1, <3>2 DEF Later, TurnStages
  <2>3. CASE ~Owns(s, n)
    <3>1. To(n, "over")
      BY <1>4, <2>1, <2>3 DEF SaveMessage
    <3> QED BY <1>1, <2>1, <3>1 DEF Later, TurnStages
  <2> QED BY <2>2, <2>3
<1>5. CASE Note(n)
  <2>1. UnderWay(n) /\ Refreshed(s) = s
    BY <1>5, NotRunOut DEF Note
  <2>2. s'.owner = s.owner /\ s'.status = s.status
    BY <1>0, <1>5, <2>1 DEF Note, AppendReserved, Session
  <2>3. CASE AppendTo(n, "note", turn[n].stage)
    BY <1>0, <1>2, <1>3, <2>1, <2>2, <2>3 DEF Later
  <2>4. CASE turn' = [turn EXCEPT ![n].heard = FALSE]
    <3>1. \A m \in Submissions : turn'[m].stage = turn[m].stage
      BY <1>0, <2>4 DEF Turn
    <3> QED BY <1>3, <2>1, <2>2, <3>1, OneGoesOn
  <2> QED BY <1>5, <2>3, <2>4 DEF Note
<1>6. CASE Release(n)
  <2>1. To(n, "over") /\ turn[n].stage = "told" /\ s' = Released(Refreshed(s), n)
    BY <1>6 DEF Release
  <2>2. ASSUME NEW m \in Submissions, UnderWay(m) PROVE s' = s
    <3>1. Refreshed(s) = s /\ s.owner \in {None, m} /\ m # n
      BY <2>1, <2>2, NotRunOut DEF Alone
    <3>2. ~Owns(s, n)
      BY <3>1 DEF Owns, None, Submissions
    <3> QED BY <2>1, <3>1, <3>2 DEF Released
  <2> QED BY <1>1, <2>1, <2>2 DEF Later, TurnStages
<1>7. ~Leave(n)
  BY DEF Leave, Undisturbed
<1>8. CASE Snapshot(n)
  <2> DEFINE t == turn'[n]
  <2>1. /\ t.stage \in {"told", "starting", "summing"} /\ UnderWay(n)
        /\ turn[n].stage # "between" /\ s' = s
        /\ \A m \in Submissions : m # n => turn'[m].stage = turn[m].stage
    BY <1>0, <1>8 DEF Snapshot, Turn
  <2> QED BY <1>3, <2>1, OneGoesOn
<1>9. CASE Summarise(n)
  <2>1. /\ turn'[n].stage \in {"told", "starting"} /\ turn[n].stage = "summing" /\ s' = s
        /\ \A m \in Submissions : m # n => turn'[m].stage = turn[m].stage
    BY <1>0, <1>9 DEF Summarise, Turn
  <2> QED BY <1>3, <2>1, OneGoesOn
<1>10. CASE StartRun(n) \/ EndRun(n) \/ AcknowledgeCancel(n)
  <2>1. PICK stage \in {"running", "ended", "acked"} : To(n, stage)
    BY <1>10 DEF StartRun, EndRun, AcknowledgeCancel
  <2>2. UnderWay(n) /\ turn[n].stage # "between" /\ s' = s
    BY <1>10 DEF StartRun, EndRun, AcknowledgeCancel
  <2> QED BY <1>2, <1>3, <2>1, <2>2 DEF Later, TurnStages
<1>11. CASE Vanish(n) \/ Forgotten(n)
  <2>1. To(n, "over") /\ s' = s
    BY <1>11 DEF Vanish, Forgotten
  <2> QED BY <1>1, <2>1 DEF Later, TurnStages
<1>12. CASE Exchange(n)
  <2>1. AppendTo(n, "exchange", "between") /\ s' = Pushed(s) /\ UnderWay(n)
    BY <1>12 DEF Exchange
  <2>2. s'.owner = None
    BY <2>1 DEF Pushed, Idle, Undisturbed
  <2> QED BY <1>2, <2>1, <2>2 DEF Later, TurnStages
<1>13. CASE ExchangePushed(n)
  <2>1. To(n, "running") /\ s' = Working(s) /\ UnderWay(n)
    BY <1>13 DEF ExchangePushed
  <2>2. s'.owner = s.owner /\ s'.status = "working"
    BY <1>0, <2>1 DEF Working, Session
  <2> QED BY <1>2, <1>3, <2>1, <2>2 DEF Later, TurnStages
<1>14. CASE Store(n)
  <2>1. PICK stage \in {"stored", "told"} : To(n, stage) \/ AppendTo(n, "answer", stage)
    BY <1>14 DEF Store
  <2>2. UnderWay(n)
    BY <1>14 DEF Store
  <2> QED BY <1>1, <1>2, <2>1, <2>2 DEF Later, TurnStages
<1>15. CASE SetIdle(n)
  <2>1. To(n, "told") /\ Unfinished(n)
    BY <1>15 DEF SetIdle
  <2> QED BY <1>1, <2>1 DEF Later, TurnStages
<1> QED BY <1>4, <1>5, <1>6, <1>7, <1>8, <1>9, <1>10, <1>11, <1>12, <1>13, <1>14, <1>15 DEF Task

(* A session that a turn has is not reserved.                               *)
LEMMA ReservedAlone ==
  ASSUME LeaseTypeOK, Undisturbed, Undisturbed', Alone, NEW n \in Submissions, Reserve(n)
  PROVE  Alone'
<1>1. /\ turn[n].stage = "none" /\ Refreshed(s).status # "working"
      /\ s'.owner = n /\ s'.status = "working"
  BY DEF Reserve
<1>2. /\ turn'[n].stage = "reserved"
      /\ \A m \in Submissions : m # n => turn'[m].stage = turn[m].stage
  BY DEF Reserve, LeaseTypeOK, Turn
<1>3. ASSUME NEW m \in Submissions, Unfinished(m) PROVE FALSE
  <2>1. m # n /\ turn'[m].stage = turn[m].stage /\ n # None
    BY <1>1, <1>2, <1>3 DEF Unfinished, UnderWay, Submissions, None
  <2>2. turn[m].stage \notin {"between", "stored"}
    BY <1>1, <2>1 DEF Undisturbed
  <2>3. UnderWay(m) /\ s.status = "working"
    BY <1>3, <2>2 DEF Unfinished, Alone
  <2> QED BY <1>1, <2>3, NotRunOut
<1> QED BY <1>1, <1>2, <1>3 DEF Alone, Unfinished, UnderWay

(* Other requests, notices and the clock, which move no submission.         *)
LEMMA OthersLeaveAlone ==
  ASSUME LeaseTypeOK, Undisturbed, Undisturbed', Alone,
         \/ \E k \in Cancels : Canceller(k)
         \/ OtherRequest \/ Notice \/ TimePasses \/ UNCHANGED lease
  PROVE  Alone'
<1>0. s \in Session
  BY DEF LeaseTypeOK
<1>1. turn' = turn
  BY DEF Canceller, Cancel, RequestStop, CancelDone, CancelTimesOut, OtherRequest, Notice,
         TimePasses, lease
<1> SUFFICES ASSUME NEW n \in Submissions, UnderWay(n)
             PROVE  s'.owner = s.owner /\ s'.status = s.status
  BY <1>1 DEF Alone, Unfinished, UnderWay
<1>2. UnderWay(n)'
  BY <1>1 DEF UnderWay
<1>3. ASSUME NEW k \in Cancels, Canceller(k) PROVE s' = s
  <2>1. ~Cancel(k)
    BY <1>2 DEF Cancel, Idle, Undisturbed
  <2> QED BY <1>3, <2>1 DEF Canceller, RequestStop, CancelDone, CancelTimesOut
<1>4. ~OtherRequest
  BY NotRunOut DEF OtherRequest
<1>5. CASE Notice
  BY <1>0, <1>5 DEF Notice, Session
<1>6. ~TimePasses
  <2>1. TimePasses => s'.status = "working" /\ s'.past
    BY <1>0 DEF TimePasses, Session
  <2> QED BY <1>2, <2>1 DEF Undisturbed
<1>7. CASE UNCHANGED lease
  BY <1>7 DEF lease
<1> QED BY <1>3, <1>4, <1>5, <1>6, <1>7

(* The code lets turns of one session overlap, in spite of the document, in *)
(* these five ways and no other: a session whose turns nothing disturbs so  *)
(* has one terminal turn at a time.                                         *)
THEOREM OneTurnUndisturbed == LeaseSpec /\ []Undisturbed => []OneTurnAtATime
<1>1. LeaseInit => Alone
  BY DEF LeaseInit, Alone, Unfinished, UnderWay, NewTurn
<1>2. LeaseInv /\ Undisturbed /\ Undisturbed' /\ Alone /\ [LeaseNext]_lease => Alone'
  <2> SUFFICES ASSUME LeaseInv, Undisturbed, Undisturbed', Alone, [LeaseNext]_lease
               PROVE  Alone'
    OBVIOUS
  <2>1. LeaseTypeOK
    BY DEF LeaseInv
  <2> QED BY <2>1, StepsGoOn, ReservedAlone, OthersLeaveAlone DEF LeaseNext, TerminalClient
<1>3. Alone => OneTurnAtATime
  <2> SUFFICES ASSUME Alone PROVE OneTurnAtATime
    OBVIOUS
  <2> DEFINE R == {n \in Submissions : Runs(n)}
  <2>1. \A m, n \in R : m = n
    BY DEF Alone, Unfinished, UnderWay, Runs
  <2>2. R = {} \/ \E n : R = {n}
    BY <2>1
  <2> HIDE DEF R
  <2>3. CASE R = {}
    <3>1. Cardinality(R) = 0
      BY <2>3, FS_EmptySet
    <3> QED BY <3>1 DEF OneTurnAtATime, R
  <2>4. ASSUME NEW n, R = {n} PROVE OneTurnAtATime
    <3>1. Cardinality(R) = 1
      BY <2>4, FS_Singleton
    <3> QED BY <3>1 DEF OneTurnAtATime, R
  <2> QED BY <2>2, <2>3, <2>4
<1> QED BY <1>1, <1>2, <1>3, Leased, PTL DEF LeaseSpec
=============================================================================
