------------------------------- MODULE FileStore -------------------------------
(***************************************************************************)
(* The journalled writer of state files (krabb-libs/file/src/lib.rs): save *)
(* replaces a file over a temporary, a backup and a journal that names the *)
(* phase reached; load first recovers from whatever journals it finds.     *)
(*                                                                         *)
(* One action is one call of the file system, and the process may die      *)
(* between any two.  A save writes its own number as the content, 0 is no  *)
(* file.  Each save has files of its own (their names carry a nonce), and  *)
(* what an earlier save left behind stays until a load.  A temporary that  *)
(* was only partly written has no journal yet, so it is never looked at,   *)
(* and is left out.  Renames reach the disk in order; a removal done by    *)
(* recovery does not fail; a process loads a file before it saves it.      *)
(***************************************************************************)
EXTENDS Naturals

CONSTANTS
  Saves,      (* the number of saves, a bound                              *)
  Torn,       (* whether a journal may be cut off between open and write   *)
  StuckMid    (* whether a save may fail once it has moved the old file    *)

ASSUME FileAssumption == Saves \in Nat \ {0} /\ {Torn, StuckMid} \subseteq BOOLEAN

Txns == 1..Saves

VARIABLES
  path,     (* the file                                                    *)
  temp, backup, journal,   (* the files of each save                       *)
  pc, cur,  (* what the process does next, and for which save              *)
  started,  (* saves begun so far                                          *)
  allowed,  (* history: what a load may return                             *)
  loaded    (* what the last load returned                                 *)

disk == <<path, temp, backup, journal>>
vars == <<disk, pc, cur, started, allowed, loaded>>

Saving == {"prepare", "backup", "mark", "install", "note", "drop", "close"}

Sweeping == {"sweep_temp", "sweep_backup", "sweep_journal"}

Phases == {"none", "torn", "prepared", "backed_up", "installed"}

TypeOK ==
  /\ path \in 0..Saves
  /\ temp \in [Txns -> 0..Saves] /\ backup \in [Txns -> 0..Saves]
  /\ journal \in [Txns -> Phases]
  /\ pc \in {"down", "idle", "recover"} \cup Saving \cup Sweeping
  /\ started \in 0..Saves /\ cur \in 0..Saves
  /\ pc \in Saving \cup Sweeping => cur \in Txns
  /\ pc \in Saving => cur = started
  /\ allowed \subseteq 0..Saves /\ loaded \in 0..Saves

Init ==
  /\ path = 0 /\ temp = [n \in Txns |-> 0] /\ backup = [n \in Txns |-> 0]
  /\ journal = [n \in Txns |-> "none"]
  /\ pc = "down" /\ cur = 0 /\ started = 0
  /\ allowed = {0} /\ loaded = 0

-----------------------------------------------------------------------------
(* save.                                                                   *)

(* The temporary is written and synced before anything names it.           *)
WriteTemporary ==
  /\ pc = "idle" /\ started < Saves
  /\ started' = started + 1 /\ cur' = started + 1
  /\ temp' = [temp EXCEPT ![started + 1] = started + 1]
  /\ allowed' = allowed \cup {started + 1}
  /\ pc' = "prepare"
  /\ UNCHANGED <<path, backup, journal, loaded>>

(* write_journal opens with truncation, then writes.                       *)
TearJournal ==
  /\ Torn /\ pc \in {"prepare", "mark", "note"}
  /\ journal' = [journal EXCEPT ![cur] = "torn"]
  /\ UNCHANGED <<path, temp, backup, pc, cur, started, allowed, loaded>>

WriteJournal(phase, next) ==
  /\ journal' = [journal EXCEPT ![cur] = phase]
  /\ pc' = next
  /\ UNCHANGED <<path, temp, backup, cur, started, allowed, loaded>>

Prepare == pc = "prepare" /\ WriteJournal("prepared", "backup")

(* Mutant: the old file is removed, not renamed.                           *)
BackUpRemoves ==
  /\ pc = "backup" /\ path' = 0
  /\ pc' = IF path # 0 THEN "mark" ELSE "install"
  /\ UNCHANGED <<temp, backup, journal, cur, started, allowed, loaded>>

BackUp ==
  /\ pc = "backup"
  /\ IF path # 0
     THEN /\ backup' = [backup EXCEPT ![cur] = path] /\ path' = 0
          /\ pc' = "mark"
     ELSE pc' = "install" /\ UNCHANGED <<path, backup>>
  /\ UNCHANGED <<temp, journal, cur, started, allowed, loaded>>

MarkBackedUp == pc = "mark" /\ WriteJournal("backed_up", "install")

Install ==
  /\ pc = "install"
  /\ path' = temp[cur] /\ temp' = [temp EXCEPT ![cur] = 0]
  /\ pc' = "note"
  /\ UNCHANGED <<backup, journal, cur, started, allowed, loaded>>

NoteInstalled == pc = "note" /\ WriteJournal("installed", "drop")

DropBackup ==
  /\ pc = "drop"
  /\ backup' = [backup EXCEPT ![cur] = 0]
  /\ pc' = "close"
  /\ UNCHANGED <<path, temp, journal, cur, started, allowed, loaded>>

Close ==
  /\ pc = "close"
  /\ journal' = [journal EXCEPT ![cur] = "none"]
  /\ allowed' = {cur}
  /\ pc' = "idle"
  /\ UNCHANGED <<path, temp, backup, cur, started, loaded>>

(* An error of any call ends the save; only the temporary is taken away.   *)
(* The removal of the backup may fail unnoticed; that of the journal, and  *)
(* the sync of the directory after it, end the save with an error.         *)
MidSave == {"mark", "install", "note"}

Fail ==
  /\ pc \in Saving \ {"drop"} /\ (pc \in MidSave => StuckMid)
  /\ temp' = [temp EXCEPT ![cur] = 0]
  /\ pc' = "idle"
  /\ UNCHANGED <<path, backup, journal, cur, started, allowed, loaded>>

KeepBackup ==
  /\ StuckMid /\ pc = "drop" /\ pc' = "close"
  /\ UNCHANGED <<disk, cur, started, allowed, loaded>>

UnsyncedClose ==
  /\ pc = "close"
  /\ journal' = [journal EXCEPT ![cur] = "none"]
  /\ pc' = "idle"
  /\ UNCHANGED <<path, temp, backup, cur, started, allowed, loaded>>

-----------------------------------------------------------------------------
(* load.                                                                   *)

StartLoad ==
  /\ pc \in {"down", "idle"} /\ pc' = "recover"
  /\ UNCHANGED <<disk, cur, started, allowed, loaded>>

(* Where the content of the file is found, by the journal of save n.       *)
(* Mutant: the backup is put over a file that is in place.                 *)
SourceAlways(n) ==
  CASE journal[n] = "backed_up" /\ temp[n] # 0 -> "temp"
    [] journal[n] # "none" /\ temp[n] = 0 /\ backup[n] # 0 -> "backup"
    [] OTHER -> "stay"

(* Mutant: only a journal that says so leads back to the backup.           *)
SourceBackedUp(n) ==
  CASE path = 0 /\ journal[n] = "backed_up" /\ temp[n] # 0 -> "temp"
    [] path = 0 /\ journal[n] = "backed_up" /\ temp[n] = 0 /\ backup[n] # 0 -> "backup"
    [] OTHER -> "stay"

Source(n) ==
  CASE path # 0 -> "stay"
    [] path = 0 /\ journal[n] = "backed_up" /\ temp[n] # 0 -> "temp"
    [] path = 0 /\ journal[n] = "backed_up" /\ temp[n] = 0 /\ backup[n] # 0 -> "backup"
    [] path = 0 /\ journal[n] \in {"prepared", "installed"} /\ backup[n] # 0 -> "backup"
    [] OTHER -> "stay"

(* Journals are met in the order of the directory, which is any order.     *)
RecoverJournal(n) ==
  /\ pc = "recover" /\ journal[n] \notin {"none", "torn"}
  /\ CASE Source(n) = "temp" ->
            path' = temp[n] /\ temp' = [temp EXCEPT ![n] = 0] /\ UNCHANGED backup
       [] Source(n) = "backup" ->
            path' = backup[n] /\ backup' = [backup EXCEPT ![n] = 0] /\ UNCHANGED temp
       [] OTHER -> UNCHANGED <<path, temp, backup>>
  /\ cur' = n /\ pc' = "sweep_temp"
  /\ UNCHANGED <<journal, started, allowed, loaded>>

ForgetJournal(n) ==
  /\ pc = "recover" /\ journal[n] = "torn"
  /\ journal' = [journal EXCEPT ![n] = "none"]
  /\ UNCHANGED <<path, temp, backup, pc, cur, started, allowed, loaded>>

SweepTemporary ==
  /\ pc = "sweep_temp" /\ pc' = "sweep_backup"
  /\ temp' = [temp EXCEPT ![cur] = 0]
  /\ UNCHANGED <<path, backup, journal, cur, started, allowed, loaded>>

SweepBackup ==
  /\ pc = "sweep_backup" /\ pc' = "sweep_journal"
  /\ backup' = [backup EXCEPT ![cur] = 0]
  /\ UNCHANGED <<path, temp, journal, cur, started, allowed, loaded>>

SweepJournal ==
  /\ pc = "sweep_journal" /\ pc' = "recover"
  /\ journal' = [journal EXCEPT ![cur] = "none"]
  /\ UNCHANGED <<path, temp, backup, cur, started, allowed, loaded>>

Recovered == \A n \in Txns : journal[n] = "none"

Loaded ==
  /\ pc = "recover" /\ Recovered
  /\ loaded' = path /\ allowed' = {path}
  /\ pc' = "idle"
  /\ UNCHANGED <<disk, cur, started>>

Crash ==
  /\ pc # "down" /\ pc' = "down"
  /\ UNCHANGED <<disk, cur, started, allowed, loaded>>

Save ==
  \/ WriteTemporary \/ TearJournal \/ Prepare \/ BackUp \/ MarkBackedUp \/ Install
  \/ NoteInstalled \/ DropBackup \/ Close \/ Fail \/ KeepBackup \/ UnsyncedClose

Load ==
  \/ StartLoad
  \/ \E n \in Txns : RecoverJournal(n) \/ ForgetJournal(n)
  \/ SweepTemporary \/ SweepBackup \/ SweepJournal \/ Loaded

Next == Save \/ Load \/ Crash

Spec == Init /\ [][Next]_vars

-----------------------------------------------------------------------------
(* Properties.                                                             *)

(* Recovery brings back the content of the last save that succeeded, or of *)
(* one begun after it, never an older one and never nothing.               *)
LoadAllowed == pc = "recover" /\ Recovered => path \in allowed

(* Whatever failed saves left behind, a save that succeeded is what is     *)
(* loaded until another one begins.                                        *)
SuccessKept ==
  pc = "recover" /\ Recovered => \A c \in allowed : allowed = {c} => path = c

(* What SuccessKept rests on, whatever is torn or fails: only a save adds   *)
(* to what may be loaded, so where one content is left the file holds it,  *)
(* and no journal leads away from there.                                   *)
Contained ==
  /\ started \in 0..Saves /\ path \in 0..started
  /\ temp \in [Txns -> 0..started] /\ backup \in [Txns -> 0..started]
  /\ journal \in [Txns -> Phases]
  /\ allowed \subseteq 0..started /\ allowed # {}

SaveInPlace ==
  pc \in Saving =>
    /\ cur = started /\ cur \in Txns /\ cur \in allowed /\ allowed # {cur}
    /\ pc \in {"prepare", "backup", "mark", "install"} => temp[cur] = cur
    /\ pc \in {"note", "drop", "close"} => path = cur

OnlyOneLeft ==
  \A c \in allowed : allowed = {c} => path = c /\ (c = 0 => Recovered)

SuccessInv == Contained /\ SaveInPlace /\ OnlyOneLeft

(* What LoadAllowed rests on when journals are whole and saves do not fail *)
(* half-way: the file is in place, or the last save has moved it away and  *)
(* its journal leads back to it.                                           *)
Settled ==
  /\ path \in allowed
  /\ path = 0 /\ started \in Txns => backup[started] = 0 /\ journal[started] # "backed_up"

MovedAway ==
  /\ started \in Txns /\ path = 0
  /\ backup[started] # 0 /\ backup[started] \in allowed
  /\ journal[started] \in {"prepared", "backed_up"}
  /\ temp[started] \in {0, started} /\ started \in allowed
  /\ pc \in {"mark", "install", "down", "recover"} \cup Sweeping
  /\ pc \in Sweeping => cur # started

FileInReach == Settled \/ MovedAway

(* No save but the last has a backup, and none of its files lead anywhere. *)
OthersQuiet ==
  \A n \in Txns :
    /\ journal[n] # "torn"
    /\ journal[n] = "none" => backup[n] = 0
    /\ n # started => backup[n] = 0 /\ journal[n] # "backed_up"

(* Where a save has got to.                                                *)
Progress ==
  /\ pc \in Saving => started \in allowed
  /\ pc \in {"prepare", "backup", "mark", "install"} => temp[cur] = cur
  /\ pc \in {"prepare", "backup"} => Settled /\ backup[cur] = 0
  /\ pc \in {"prepare", "backup"} => journal[cur] # "backed_up"
  /\ pc = "backup" => journal[cur] = "prepared"
  /\ pc = "mark" => MovedAway
  /\ pc = "install" => path = 0
  /\ pc \in {"note", "drop", "close"} => path = cur
  /\ pc \in {"drop", "close"} => journal[cur] = "installed"
  /\ pc \in {"close", "sweep_journal"} => backup[cur] = 0
  /\ pc = "idle" => Settled
  /\ pc = "idle" /\ started \in Txns => backup[started] = 0 /\ journal[started] # "backed_up"

IInv == TypeOK /\ FileInReach /\ OthersQuiet /\ Progress

(* The writer implements the atomic file.                                  *)
Promise == INSTANCE AtomicFile WITH
  Contents <- Txns, Missing <- 0, may <- allowed, got <- loaded,
  writing <- IF pc \in Saving THEN cur ELSE 0

Atomic == Promise!Spec
=============================================================================
