------------------------------ MODULE PluginFiles ------------------------------
(***************************************************************************)
(* How plugins are installed, updated and removed, and how the daemon      *)
(* repairs what an interrupted command left (link_at, update_plugins_at,   *)
(* update_one, uninstall_plugin_at, remove_at and recover_plugins in       *)
(* krabb-runtime/src/lib.rs).  Commands are processes of their own; what   *)
(* they do to plugins/ and plugins.lock they do under .plugins.lock, which *)
(* is tried and never waited for.                                          *)
(*                                                                         *)
(* It is one plugin: its directory, the backups beside it, its entry in    *)
(* the lock file, the saved preview of its update, and its process in the  *)
(* daemon.  Builds of its source are numbered as they are made, and stand  *)
(* for version, revision and digest; a new build declares the same         *)
(* capabilities.  Whether sessions or deliveries need the plugin, which    *)
(* forbids its removal, is left out.  What a command stages before it has  *)
(* renamed anything leaves no trace but a stage directory, which is left   *)
(* out; the daemon checks and starts a process in one step.                *)
(***************************************************************************)
EXTENDS Naturals, FiniteSets

CONSTANTS
  Commands,    (* command lines that may run side by side                   *)
  Forms,       (* whether installs link the binary, copy it, or may do both *)
  Automatic,   (* config.update is "auto"                                   *)
  MaxBuild,    (* builds of the source, a bound                             *)
  MaxOps,      (* commands begun, a bound                                   *)
  MaxFaults    (* failing calls and crashes between two recoveries, a bound *)

Daemon == "daemon"

Nobody == "nobody"

ASSUME FilesAssumption ==
  /\ {Daemon, Nobody} \cap Commands = {}
  /\ Forms \subseteq BOOLEAN /\ Automatic \in BOOLEAN
  /\ MaxBuild \in Nat \ {0} /\ MaxOps \in Nat /\ MaxFaults \in Nat

VARIABLES
  source,      (* the newest build                                          *)
  dir,         (* plugins/<id>                                              *)
  backups,     (* plugins/.<id>.backup-<n>                                  *)
  entry,       (* of the plugin in plugins.lock                             *)
  preview,     (* .plugin-update-preview                                    *)
  holder,      (* of .plugins.lock                                          *)
  cmd,         (* the commands, and the daemon's own update                 *)
  daemon, live,   (* the daemon, and the build its process of the plugin is *)
  ops, faults,
  crashed,     (* a holder of the lock died, and nothing was recovered yet  *)
  cut          (* it had replaced the files and not yet saved the lock      *)

files == <<dir, backups, entry>>
counts == <<ops, faults, crashed, cut>>
plugin == <<source, files, preview, holder, cmd, daemon, live, counts>>

Gone == [build |-> 0, linked |-> FALSE]

Contents == [build : 1..MaxBuild, linked : BOOLEAN] \cup {Gone}

Idle ==
  [at |-> "idle", op |-> "none", new |-> Gone, locked |-> Gone, old |-> Gone,
   base |-> 0, n |-> 0, kept |-> FALSE, reload |-> FALSE]

Ops == {"none", "install", "update", "remove", "auto"}

Points == {"idle", "asking", "planned", "locking", "removing",
           "aside", "place", "save", "unlock", "restore", "clean", "reload"}

Steps ==
  [at : Points, op : Ops, new : Contents, locked : Contents, old : Contents,
   base : 0..MaxBuild, n : 0..MaxOps, kept : BOOLEAN, reload : BOOLEAN]

NoPreview == [saved |-> FALSE, base |-> 0, build |-> 0]

(* A plugin that is not installed, or was before.                          *)
FilesInit ==
  /\ source = 1 /\ backups = {}
  /\ dir \in {Gone} \cup [build : {1}, linked : Forms] /\ entry = dir
  /\ preview = NoPreview /\ holder = Nobody
  /\ cmd = [c \in Commands \cup {Daemon} |-> Idle]
  /\ daemon = "down" /\ live = 0
  /\ ops = 0 /\ faults = 0 /\ crashed = FALSE /\ cut = FALSE

-----------------------------------------------------------------------------
Free == holder = Nobody

At(c, point) == cmd[c].at = point

Put(c, r) == cmd' = [cmd EXCEPT ![c] = r]

Goto(c, point) == Put(c, [cmd[c] EXCEPT !.at = point])

Begin(c, r) ==
  /\ c \in Commands /\ At(c, "idle") /\ ops < MaxOps
  /\ ops' = ops + 1
  /\ Put(c, [r EXCEPT !.n = ops + 1])

Fault == faults < MaxFaults /\ faults' = faults + 1

(* A linked binary is whatever was built last.                             *)
Content(d) == IF d.linked THEN source ELSE d.build

(* verify_plugin_binary: a linked plugin must be a link, any other must    *)
(* have the digest in the lock.                                            *)
Verified(e, d) ==
  /\ e # Gone /\ d # Gone
  /\ IF e.linked THEN d.linked ELSE Content(d) = e.build

Own(c) == {b \in backups : b.n = cmd[c].n}

Restored(c) == IF cmd[c].kept THEN (CHOOSE b \in Own(c) : TRUE).of ELSE dir

-----------------------------------------------------------------------------
(* Commands, up to where they hold the lock.                               *)

Install(c, linked) ==
  LET new == [build |-> source, linked |-> linked] IN
  /\ Free /\ holder' = c
  /\ Begin(c, [Idle EXCEPT !.at = "aside", !.op = "install", !.new = new, !.locked = new,
                           !.old = entry, !.reload = TRUE])
  /\ UNCHANGED <<source, files, preview, daemon, live, faults, crashed, cut>>

Candidate ==
  IF entry = Gone \/ entry.build = source THEN [NoPreview EXCEPT !.saved = TRUE]
  ELSE [saved |-> TRUE, base |-> entry.build, build |-> source]

Asking == [Idle EXCEPT !.at = "asking", !.op = "update"]

PreviewUpdate(c) ==
  /\ Free /\ preview' = Candidate
  /\ Begin(c, Asking)
  /\ UNCHANGED <<source, files, holder, daemon, live, faults, crashed, cut>>

(* With --yes a preview that is there is not made again.                   *)
UseSavedPreview(c) ==
  /\ preview.saved
  /\ Begin(c, Asking)
  /\ UNCHANGED <<source, files, preview, holder, daemon, live, faults, crashed, cut>>

(* The user declines, or the lock is held.                                 *)
Decline(c) ==
  /\ At(c, "asking") /\ Put(c, Idle)
  /\ UNCHANGED <<source, files, preview, holder, daemon, live, counts>>

(* A preview of another build than the one in the lock is refused.         *)
Stale == preview.build # 0 /\ entry # Gone /\ preview.base # entry.build

TakeSnapshot(c) ==
  /\ At(c, "asking") /\ Free
  /\ Put(c, IF Stale \/ preview.build = 0 \/ entry = Gone THEN Idle
           ELSE [cmd[c] EXCEPT !.at = "planned", !.base = preview.base,
                               !.new = [build |-> preview.build, linked |-> FALSE]])
  /\ UNCHANGED <<source, files, preview, holder, daemon, live, counts>>

Uninstall(c) ==
  /\ Begin(c, [Idle EXCEPT !.at = "planned", !.op = "remove"])
  /\ UNCHANGED <<source, files, preview, holder, daemon, live, faults, crashed, cut>>

(* An active plugin is unloaded before its files are replaced or removed.  *)
(* One that could not be removed is loaded again, active or not.  What is  *)
(* active is asked for and unloaded in one step.                           *)
Unload(c) ==
  /\ At(c, "planned")
  /\ live' = IF daemon = "up" THEN 0 ELSE live
  /\ Put(c, IF cmd[c].op = "remove"
           THEN [cmd[c] EXCEPT !.at = "removing", !.reload = TRUE]
           ELSE [cmd[c] EXCEPT !.at = "locking", !.reload = daemon = "up" /\ live # 0])
  /\ UNCHANGED <<source, files, preview, holder, daemon, counts>>

(* A process that does not stop is forgotten all the same, and the command *)
(* given up without loading it again.                                      *)
UnloadFails(c) ==
  /\ At(c, "planned") /\ daemon = "up" /\ live # 0
  /\ Fault /\ live' = 0 /\ Put(c, Idle)
  /\ UNCHANGED <<source, files, preview, holder, daemon, ops, crashed, cut>>

GiveUp(c) == IF cmd[c].reload THEN [cmd[c] EXCEPT !.at = "reload"] ELSE Idle

(* Mutant: the preview is not compared with the lock again.                *)
ApplyAny(c) ==
  /\ At(c, "locking") /\ Free
  /\ IF entry # Gone
     THEN /\ holder' = c
          /\ Put(c, [cmd[c] EXCEPT !.at = "aside", !.old = entry,
                                  !.locked = [build |-> cmd[c].new.build, linked |-> entry.linked]])
     ELSE Put(c, GiveUp(c)) /\ UNCHANGED holder
  /\ UNCHANGED <<source, files, preview, daemon, live, counts>>

Apply(c) ==
  /\ At(c, "locking") /\ Free
  /\ IF entry.build = cmd[c].base
     THEN /\ holder' = c
          /\ Put(c, [cmd[c] EXCEPT !.at = "aside", !.old = entry,
                                  !.locked = [build |-> cmd[c].new.build, linked |-> entry.linked]])
     ELSE Put(c, GiveUp(c)) /\ UNCHANGED holder
  /\ UNCHANGED <<source, files, preview, daemon, live, counts>>

TakeOut(c) ==
  /\ At(c, "removing") /\ Free
  /\ IF entry # Gone \/ dir # Gone
     THEN holder' = c /\ Put(c, [cmd[c] EXCEPT !.at = "aside", !.old = entry])
     ELSE Put(c, GiveUp(c)) /\ UNCHANGED holder
  /\ UNCHANGED <<source, files, preview, daemon, live, counts>>

(* The lock is held by another command.                                    *)
LockHeld(c) ==
  /\ At(c, "locking") \/ At(c, "removing")
  /\ ~Free /\ Put(c, GiveUp(c))
  /\ UNCHANGED <<source, files, preview, holder, daemon, live, counts>>

-----------------------------------------------------------------------------
(* Commands that hold the lock.                                            *)

Release(c, r) == holder' = Nobody /\ Put(c, r)

(* Only a failed installation does not have the plugin loaded.             *)
Failed(c) == IF cmd[c].op = "install" THEN Idle ELSE GiveUp(c)

SetAside(c) ==
  /\ At(c, "aside")
  /\ dir' = Gone
  /\ backups' = IF dir = Gone THEN backups ELSE backups \cup {[of |-> dir, n |-> cmd[c].n]}
  /\ Put(c, [cmd[c] EXCEPT !.at = IF cmd[c].op = "remove" THEN "save" ELSE "place",
                          !.kept = dir # Gone])
  /\ UNCHANGED <<source, entry, preview, holder, daemon, live, counts>>

SetAsideFails(c) ==
  /\ At(c, "aside") /\ dir # Gone
  /\ Fault /\ Release(c, Failed(c))
  /\ UNCHANGED <<source, files, preview, daemon, live, ops, crashed, cut>>

Place(c) ==
  /\ At(c, "place")
  /\ dir' = cmd[c].new /\ Goto(c, "save")
  /\ UNCHANGED <<source, backups, entry, preview, holder, daemon, live, counts>>

PlaceFails(c) ==
  /\ At(c, "place")
  /\ Fault /\ Release(c, Failed(c))
  /\ dir' = Restored(c) /\ backups' = backups \ Own(c)
  /\ UNCHANGED <<source, entry, preview, daemon, live, ops, crashed, cut>>

Save(c) ==
  /\ At(c, "save")
  /\ entry' = cmd[c].locked /\ cut' = FALSE /\ Goto(c, "clean")
  /\ UNCHANGED <<source, dir, backups, preview, holder, daemon, live, ops, faults, crashed>>

(* A save that fails may have replaced the file.  That the old lock and    *)
(* the old files cannot be put back either is left out.                    *)
SaveFails(c) ==
  /\ At(c, "save")
  /\ Fault /\ entry' \in {entry, cmd[c].locked} /\ Goto(c, "unlock")
  /\ UNCHANGED <<source, dir, backups, preview, holder, daemon, live, ops, crashed, cut>>

RestoreLock(c) ==
  /\ At(c, "unlock")
  /\ entry' = cmd[c].old /\ Goto(c, "restore")
  /\ UNCHANGED <<source, dir, backups, preview, holder, daemon, live, counts>>

(* rollback_update: the new files go, the backup comes back.               *)
RestoreFiles(c) ==
  /\ At(c, "restore")
  /\ dir' = IF cmd[c].kept THEN Restored(c) ELSE Gone
  /\ backups' = backups \ Own(c)
  /\ Release(c, Failed(c))
  /\ UNCHANGED <<source, entry, preview, daemon, live, counts>>

Done(c) ==
  IF cmd[c].op = "remove" \/ (cmd[c].op = "update" /\ ~cmd[c].reload) THEN Idle
  ELSE [cmd[c] EXCEPT !.at = "reload"]

(* finish_update, and what link_at and remove_at do in its place: a backup *)
(* that cannot be removed stays.                                           *)
Clean(c) ==
  /\ At(c, "clean")
  /\ \/ backups' = backups \ Own(c) /\ UNCHANGED faults
     \/ Own(c) # {} /\ Fault /\ UNCHANGED backups
  /\ Release(c, Done(c))
  /\ UNCHANGED <<source, dir, entry, preview, daemon, live, ops, crashed, cut>>

(* plugin.load checks the plugin, and replaces the process there is.       *)
Loaded(old) == IF Verified(entry, dir) THEN Content(dir) ELSE old

Reload(c) ==
  /\ At(c, "reload") /\ c # Daemon
  /\ live' = (IF daemon = "up" THEN Loaded(live) ELSE live) /\ Put(c, Idle)
  /\ UNCHANGED <<source, files, preview, holder, daemon, counts>>

(* The process dies.  What it had renamed and not recorded is found by     *)
(* recover_plugins, except when only the lock was still to be saved.       *)
Crash(c) ==
  /\ IF c = Daemon THEN daemon \notin {"down", "up"} ELSE ~At(c, "idle")
  /\ Fault /\ Put(c, Idle)
  /\ holder' = IF holder = c THEN Nobody ELSE holder
  /\ crashed' = (crashed \/ holder = c)
  /\ cut' = (cut \/ (cmd[c].at \in {"save", "unlock", "restore"} /\ dir # Gone))
  /\ daemon' = IF c = Daemon THEN "down" ELSE daemon
  /\ UNCHANGED <<source, files, preview, live, ops>>

-----------------------------------------------------------------------------
(* The daemon: it repairs the plugins before anything else, updates them   *)
(* itself if it is told to, and loads them.                                *)

Open ==
  /\ daemon = "down" /\ Free
  /\ daemon' = "recovering" /\ holder' = Daemon
  /\ UNCHANGED <<source, files, preview, cmd, live, counts>>

(* Mutant: a backup of a plugin that is gone is removed like any other.    *)
RecoverBackupRemoves(b) ==
  /\ daemon = "recovering"
  /\ backups' = backups \ {b}
  /\ UNCHANGED <<source, dir, entry, preview, holder, cmd, daemon, live, counts>>

RecoverBackup(b) ==
  /\ daemon = "recovering"
  /\ backups' = backups \ {b}
  /\ dir' = IF entry # Gone /\ dir = Gone THEN b.of ELSE dir
  /\ UNCHANGED <<source, entry, preview, holder, cmd, daemon, live, counts>>

Recovered ==
  /\ daemon = "recovering" /\ backups = {}
  /\ daemon' = "opening" /\ holder' = Nobody
  /\ faults' = 0 /\ crashed' = FALSE
  /\ UNCHANGED <<source, files, preview, cmd, live, ops, cut>>

Outdated == entry # Gone /\ source # entry.build

(* An update of its own is of the source as it is, and keeps links.        *)
AutoUpdate ==
  LET new == [build |-> source, linked |-> entry.linked] IN
  /\ daemon = "opening" /\ Automatic /\ Outdated /\ Free
  /\ holder' = Daemon /\ daemon' = "updating"
  /\ Put(Daemon, [Idle EXCEPT !.at = "aside", !.op = "auto", !.new = new, !.locked = new,
                             !.old = entry])
  /\ UNCHANGED <<source, files, preview, live, counts>>

(* An update of its own that fails, or finds the lock held, ends it.       *)
AutoFails ==
  /\ \/ daemon = "opening" /\ Automatic /\ Outdated /\ ~Free
     \/ daemon = "updating" /\ At(Daemon, "idle")
  /\ daemon' = "down"
  /\ UNCHANGED <<source, files, preview, holder, cmd, live, counts>>

LoadPlugins ==
  /\ \/ daemon = "opening" /\ ~(Automatic /\ Outdated)
     \/ daemon = "updating" /\ At(Daemon, "reload")
  /\ daemon' = "up" /\ live' = Loaded(0) /\ Put(Daemon, Idle)
  /\ UNCHANGED <<source, files, preview, holder, counts>>

(* A scheduled task loads the provider it needs.                           *)
LoadForTask ==
  /\ daemon = "up" /\ live = 0 /\ Verified(entry, dir)
  /\ live' = Loaded(0)
  /\ UNCHANGED <<source, files, preview, holder, cmd, daemon, counts>>

Stop ==
  /\ daemon = "up" /\ daemon' = "down" /\ live' = 0
  /\ UNCHANGED <<source, files, preview, holder, cmd, counts>>

Build ==
  /\ source < MaxBuild /\ source' = source + 1
  /\ UNCHANGED <<files, preview, holder, cmd, daemon, live, counts>>

Command(c) ==
  \/ \E linked \in Forms : Install(c, linked)
  \/ PreviewUpdate(c) \/ UseSavedPreview(c) \/ Decline(c) \/ TakeSnapshot(c)
  \/ Uninstall(c) \/ Unload(c) \/ UnloadFails(c) \/ Apply(c) \/ TakeOut(c) \/ LockHeld(c)
  \/ SetAside(c) \/ SetAsideFails(c) \/ Place(c) \/ PlaceFails(c) \/ Save(c) \/ SaveFails(c)
  \/ RestoreLock(c) \/ RestoreFiles(c) \/ Clean(c) \/ Reload(c) \/ Crash(c)

FilesNext ==
  \/ \E c \in Commands \cup {Daemon} : Command(c)
  \/ Open \/ (\E b \in backups : RecoverBackup(b)) \/ Recovered
  \/ AutoUpdate \/ AutoFails \/ LoadPlugins \/ LoadForTask \/ Stop \/ Build

FilesSpec == FilesInit /\ [][FilesNext]_plugin

-----------------------------------------------------------------------------
(* Properties.                                                             *)

FilesTypeOK ==
  /\ source \in 1..MaxBuild /\ dir \in Contents /\ entry \in Contents
  /\ backups \subseteq [of : Contents \ {Gone}, n : 0..MaxOps]
  /\ preview \in [saved : BOOLEAN, base : 0..MaxBuild, build : 0..MaxBuild]
  /\ holder \in Commands \cup {Daemon, Nobody}
  /\ cmd \in [Commands \cup {Daemon} -> Steps]
  /\ daemon \in {"down", "recovering", "opening", "updating", "up"} /\ live \in 0..MaxBuild
  /\ ops \in 0..MaxOps /\ faults \in 0..MaxFaults /\ crashed \in BOOLEAN /\ cut \in BOOLEAN

(* With no command at work, and the last crash repaired, the files that    *)
(* are installed are those of the build in the lock, after every failing   *)
(* call and every crash but one: between replacing the files and saving    *)
(* the lock, where recover_plugins drops the backup it would need.         *)
InstalledAsLocked == Free /\ ~crashed /\ ~cut => dir.build = entry.build

(* An update brings no older build than the one installed, however many    *)
(* commands installed, updated or previewed since it was asked for.        *)
NeverOlder ==
  [][\A c \in Commands \cup {Daemon} :
       cmd[c].op \in {"update", "auto"} /\ At(c, "save") => entry'.build >= entry.build]_plugin

(* A plugin whose installation or update has ended passes the check that   *)
(* the daemon makes before it starts it.  Not kept where installs link: an *)
(* update through a preview copies the new build and leaves the entry      *)
(* marked as linked.                                                       *)
Startable == Free /\ ~crashed /\ ~cut /\ entry # Gone => Verified(entry, dir)

(* The daemon runs the build that is installed.  Not kept: a scheduled     *)
(* task, a start of the daemon or another command may load the plugin      *)
(* between its unloading and the replacement of its files.                 *)
RunsInstalled == Free /\ (\A c \in Commands : At(c, "idle")) /\ live # 0 => live = entry.build
=============================================================================
