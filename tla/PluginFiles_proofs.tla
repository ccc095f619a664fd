-------------------------- MODULE PluginFiles_proofs --------------------------
(* Proofs about the installation of plugins: an update brings no older      *)
(* build than the one it replaces, and the files that are installed are     *)
(* those of the build in the lock.                                          *)
EXTENDS PluginFiles, TLAPS

Procs == Commands \cup {Daemon}

Holding == {"aside", "place", "save", "unlock", "restore", "clean"}

(* The directory has been set aside, and may be put back.                   *)
Replaced == {"place", "save", "unlock", "restore"}

Waiting == {"asking", "planned", "locking", "removing"}

(* Whoever replaces files holds the lock.                                   *)
Locked ==
  /\ \A c \in Procs : cmd[c].at \in Holding => holder = c
  /\ holder \in Commands => cmd[holder].at \in Holding
  /\ holder = Daemon => daemon = "recovering" \/ cmd[Daemon].at \in Holding
  /\ daemon = "recovering" => holder = Daemon
  /\ cmd[Daemon].at # "idle" =>
       daemon = "updating" /\ cmd[Daemon].op = "auto" /\ cmd[Daemon].at \in Holding \cup {"reload"}

(* A backup belongs to one command, and to none that has yet to make one.   *)
Numbered ==
  /\ \A b \in backups : b.n <= ops
  /\ \A a, b \in backups : a.n = b.n => a = b
  /\ \A c \in Commands : cmd[c].at # "idle" => cmd[c].n \in 1..ops
  /\ \A c, d \in Commands :
       cmd[c].at # "idle" /\ cmd[d].at # "idle" /\ c # d => cmd[c].n # cmd[d].n
  /\ \A c \in Commands : \A b \in backups :
       cmd[c].at \in Waiting \cup {"aside"} => b.n # cmd[c].n
  /\ cmd[Daemon].n = 0
  /\ daemon = "opening" \/ cmd[Daemon].at = "aside" => \A b \in backups : b.n # 0

(* What the holder of the lock has done so far.                             *)
Working(c) ==
  /\ cmd[c].at \in {"aside", "place", "save", "restore"} => cmd[c].old = entry
  /\ cmd[c].at = "unlock" => entry \in {cmd[c].old, cmd[c].locked}
  /\ cmd[c].at = "place" => dir = Gone /\ cmd[c].op # "remove"
  /\ cmd[c].at \in {"save", "unlock"} => dir.build = cmd[c].locked.build
  /\ cmd[c].at \in Holding /\ cmd[c].op = "remove" => cmd[c].locked = Gone
  /\ cmd[c].at \in Holding /\ cmd[c].op # "remove" => cmd[c].locked.build = cmd[c].new.build
  /\ cmd[c].at = "clean" => dir.build = entry.build
  /\ cmd[c].at \in Replaced /\ cmd[c].kept => \E b \in backups : b.n = cmd[c].n
  /\ cmd[c].at \in Replaced /\ ~cmd[c].kept => \A b \in backups : b.n # cmd[c].n

Replacing == \A c \in Procs : Working(c)

(* What a command is going to do, and that it brings no older build.        *)
Ordered(c) ==
  /\ cmd[c].at \in Waiting => cmd[c].locked = Gone
  /\ cmd[c].at \in {"asking", "locking"} => cmd[c].op = "update"
  /\ cmd[c].at = "planned" => cmd[c].op \in {"update", "remove"}
  /\ cmd[c].at = "removing" => cmd[c].op = "remove"
  /\ cmd[c].new.build <= source /\ cmd[c].locked.build <= source /\ cmd[c].old.build <= source
  /\ cmd[c].op = "update" /\ cmd[c].at \in Waiting \ {"asking"} =>
       cmd[c].base <= cmd[c].new.build
  /\ cmd[c].op \in {"update", "auto"} /\ cmd[c].at \in {"aside", "place", "save"} =>
       cmd[c].old.build <= cmd[c].locked.build

Newer ==
  /\ entry.build <= source
  /\ preview.build # 0 => preview.base <= preview.build /\ preview.build <= source
  /\ \A c \in Procs : Ordered(c)

Basis == FilesTypeOK /\ Locked /\ Numbered /\ Replacing /\ Newer

(* The files are those of the lock, or a backup of those is left.           *)
Settled == \A c \in Procs : cmd[c].at \notin Replaced \cup {"clean"}

Held(build) == \E b \in backups : b.of.build = build

Returnable(c) ==
  IF cmd[c].kept THEN \A b \in backups : b.n = cmd[c].n => b.of.build = cmd[c].old.build
  ELSE cmd[c].old.build = 0 \/ (crashed /\ Held(cmd[c].old.build))

Undisturbed ==
  /\ Settled => dir.build = entry.build \/ (crashed /\ dir = Gone /\ Held(entry.build))
  /\ \A c \in Procs : cmd[c].at \in Replaced => Returnable(c)

(* recover_plugins has no choice among the backups it may put back.         *)
OneToRestore ==
  daemon = "recovering" /\ dir = Gone /\ entry # Gone => \A a, b \in backups : a = b

(* With one fault between two recoveries.                                   *)
OneFault ==
  /\ crashed => faults # 0
  /\ faults = 0 => \A b \in backups : \E c \in Procs :
                     cmd[c].at \in {"place", "save", "clean"} /\ b.n = cmd[c].n
  /\ \A c \in Procs :
       /\ cmd[c].at \in {"unlock", "restore"} => faults # 0 /\ ~crashed
       /\ cmd[c].at \in Replaced /\ ~cmd[c].kept /\ cmd[c].old # Gone => crashed
  /\ Settled /\ dir = Gone /\ entry # Gone => crashed /\ \E b \in backups : backups = {b}

-----------------------------------------------------------------------------
(* What steps of a command leave of the invariants.                         *)

LEMMA Distinct ==
  /\ Daemon \notin Commands /\ Nobody \notin Procs /\ Nobody # Daemon
  /\ Daemon \in Procs /\ \A c \in Commands : c \in Procs /\ c # Daemon
BY FilesAssumption DEF Procs, Daemon, Nobody

LEMMA PutStep ==
  ASSUME cmd \in [Procs -> Steps], NEW c \in Procs, NEW r \in Steps, Put(c, r)
  PROVE  /\ cmd' \in [Procs -> Steps] /\ cmd'[c] = r
         /\ \A d \in Procs : d # c => cmd'[d] = cmd[d]
BY DEF Put

(* A step that changes command c only.                                      *)
Moves(c) ==
  /\ cmd' \in [Procs -> Steps]
  /\ \A d \in Procs : d # c => cmd'[d] = cmd[d]

(* How it comes by its number.                                              *)
Counts(c) ==
  \/ cmd'[c].at = "idle" /\ ops' = ops
  \/ /\ cmd[c].at # "idle" /\ cmd'[c].n = cmd[c].n /\ ops' = ops
     /\ cmd'[c].at \in Waiting \cup {"aside"} => cmd[c].at \in Waiting
  \/ cmd'[c].n = ops + 1 /\ ops' = ops + 1

LEMMA CountsKeeps ==
  ASSUME FilesTypeOK, Locked, Numbered, NEW c \in Commands, Moves(c), Counts(c),
         daemon' = daemon, backups' = backups, ops' \in Nat
  PROVE  Numbered'
<1> USE FilesAssumption DEF Procs
<1>1. Daemon \in Procs /\ c \in Procs /\ Daemon # c /\ cmd'[Daemon] = cmd[Daemon] /\ ops \in Nat /\ ops <= ops'
  BY DEF Moves, Counts, FilesTypeOK
<1>2. /\ \A b \in backups : b.n <= ops /\ b.n \in Nat
      /\ \A d \in Commands : cmd[d].at # "idle" => cmd[d].n \in 1..ops
      /\ \A d, e \in Commands :
           cmd[d].at # "idle" /\ cmd[e].at # "idle" /\ d # e => cmd[d].n # cmd[e].n
  BY DEF Numbered, FilesTypeOK
<1>3. (\A b \in backups : b.n <= ops)'
  BY <1>1, <1>2
<1>4. (\A d \in Commands : cmd[d].at # "idle" => cmd[d].n \in 1..ops)'
  BY <1>1, <1>2 DEF Moves, Counts
<1>5. (\A d, e \in Commands :
         cmd[d].at # "idle" /\ cmd[e].at # "idle" /\ d # e => cmd[d].n # cmd[e].n)'
  <2>1. \A d \in Commands : d # c /\ cmd[d].at # "idle" /\ cmd'[c].at # "idle" => cmd[d].n # cmd'[c].n
    BY <1>1, <1>2 DEF Counts
  <2> QED BY <1>2, <2>1 DEF Moves
<1>6. (\A d \in Commands : \A b \in backups : cmd[d].at \in Waiting \cup {"aside"} => b.n # cmd[d].n)'
  <2>1. \A d \in Commands : \A b \in backups : cmd[d].at \in Waiting \cup {"aside"} => b.n # cmd[d].n
    BY DEF Numbered
  <2>2. \A b \in backups : cmd'[c].at \in Waiting \cup {"aside"} => b.n # cmd'[c].n
    BY <1>1, <1>2, <2>1 DEF Counts, Waiting
  <2> QED BY <2>1, <2>2 DEF Moves
<1> QED BY <1>1, <1>3, <1>4, <1>5, <1>6 DEF Numbered

(* A step of a command that holds no lock.                                  *)
Outside(c) ==
  /\ Moves(c) /\ cmd[c].at \notin Holding /\ cmd'[c].at \notin Holding
  /\ UNCHANGED <<files, holder, daemon, crashed, cut>>

LEMMA OutsideKeeps ==
  ASSUME Basis, NEW c \in Commands, Outside(c), Counts(c), ops' \in Nat
  PROVE  Locked' /\ Numbered' /\ Replacing'
<1> USE FilesAssumption DEF Procs
<1>1. Locked'
  BY DEF Basis, Locked, Outside, Moves, Holding, FilesTypeOK, files
<1>2. Numbered'
  BY CountsKeeps DEF Basis, Outside, files
<1>3. Replacing'
  <2>1. \A d \in Procs : d # c => (cmd[d] = cmd'[d] /\ Working(d))
    BY DEF Outside, Moves, Basis, Replacing
  <2>2. \A d \in Procs : d # c => Working(d)'
    BY <2>1 DEF Working, Outside, files
  <2>3. Working(c)'
    BY DEF Working, Outside, Holding, Replaced
  <2> QED BY <2>2, <2>3 DEF Replacing
<1> QED BY <1>1, <1>2, <1>3

LEMMA OutsideReturns ==
  ASSUME Undisturbed, NEW c \in Commands, Outside(c)
  PROVE  Undisturbed'
<1> USE FilesAssumption DEF Procs
<1>1. Settled <=> Settled'
  BY DEF Settled, Outside, Moves, Holding, Replaced
<1>2. \A d \in Procs : cmd'[d].at \in Replaced => d # c /\ cmd[d] = cmd'[d]
  BY DEF Outside, Moves, Holding, Replaced
<1> QED BY <1>1, <1>2 DEF Undisturbed, Returnable, Held, Outside, files

(* A command that takes the lock.                                           *)
Takes(c) ==
  /\ Moves(c) /\ holder = Nobody /\ holder' = c
  /\ cmd[c].at \notin Holding /\ cmd'[c].at = "aside" /\ cmd'[c].old = entry
  /\ IF cmd'[c].op = "remove" THEN cmd'[c].locked = Gone
     ELSE cmd'[c].locked.build = cmd'[c].new.build
  /\ UNCHANGED <<files, crashed, cut, faults>>

LEMMA TakesKeeps ==
  ASSUME Basis, NEW c \in Commands, Takes(c), Counts(c), ops' \in Nat, daemon' = daemon
  PROVE  Locked' /\ Numbered' /\ Replacing'
<1> USE FilesAssumption DEF Procs
<1>1. \A d \in Procs : cmd[d].at \notin Holding
  BY Distinct DEF Basis, Locked, Takes
<1>2. Locked'
  BY <1>1, Distinct DEF Basis, Locked, Takes, Moves, Holding
<1>3. Numbered'
  BY CountsKeeps DEF Basis, Takes, files
<1>4. Replacing'
  <2>1. \A d \in Procs : d # c => Working(d)'
    BY <1>1 DEF Working, Takes, Moves, Holding, Replaced
  <2>2. Working(c)'
    BY DEF Working, Takes, Holding, Replaced, files
  <2> QED BY <2>1, <2>2 DEF Replacing
<1> QED BY <1>2, <1>3, <1>4

LEMMA TakesReturns ==
  ASSUME Basis, Undisturbed, NEW c \in Procs, Takes(c)
  PROVE  Undisturbed'
<1> USE FilesAssumption DEF Procs
<1>1. \A d \in Procs : cmd[d].at \notin Holding
  BY Distinct DEF Basis, Locked, Takes
<1>2. Settled /\ \A d \in Procs : cmd'[d].at \notin Replaced
  BY <1>1 DEF Settled, Takes, Moves, Holding, Replaced
<1> QED BY <1>2 DEF Undisturbed, Held, Takes, files

-----------------------------------------------------------------------------
(* Commands that do not hold the lock.                                      *)

(* Nothing but the command, and what a preview or the daemon has of it.     *)
Apart(c) ==
  /\ Outside(c) /\ Counts(c) /\ Ordered(c)'
  /\ source' = source /\ ops' \in 0..MaxOps /\ faults' \in 0..MaxFaults
  /\ live' \in 0..MaxBuild
  /\ preview' \in [saved : BOOLEAN, base : 0..MaxBuild, build : 0..MaxBuild]
  /\ preview'.build # 0 => preview'.base <= preview'.build /\ preview'.build <= source

LEMMA NewerMoves ==
  ASSUME Newer, NEW c \in Procs, Moves(c), Ordered(c)', source' = source, entry' = entry,
         preview'.build # 0 => preview'.base <= preview'.build /\ preview'.build <= source
  PROVE  Newer'
<1>1. \A d \in Procs : d # c => Ordered(d)'
  BY DEF Newer, Moves, Ordered
<1> QED BY <1>1 DEF Newer

LEMMA ApartKeeps ==
  ASSUME Basis, NEW c \in Commands, Apart(c)
  PROVE  Basis'
<1> USE FilesAssumption
<1>1. ops' \in Nat /\ c \in Procs
  BY Distinct DEF Apart
<1>2. Locked' /\ Numbered' /\ Replacing'
  BY <1>1, OutsideKeeps DEF Apart
<1>3. Newer'
  BY <1>1, NewerMoves DEF Apart, Outside, files, Basis
<1>4. FilesTypeOK'
  BY DEF Apart, Outside, Moves, files, Basis, FilesTypeOK, Procs
<1> QED BY <1>2, <1>3, <1>4 DEF Basis

LEMMA IdleStep ==
  /\ Idle \in Steps /\ Gone \in Contents
  /\ Idle.at = "idle" /\ Idle.op = "none" /\ Idle.new = Gone /\ Idle.locked = Gone /\ Idle.old = Gone
  /\ Idle.base = 0 /\ Idle.n = 0 /\ ~Idle.kept /\ ~Idle.reload
  /\ Gone.build = 0
<1> USE FilesAssumption
<1>1. Gone \in Contents /\ Gone.build = 0
  BY DEF Gone, Contents
<1> HIDE DEF Gone
<1> QED BY <1>1 DEF Idle, Steps, Ops, Points

LEMMA StepTypes ==
  ASSUME FilesTypeOK, NEW c \in Procs
  PROVE  /\ cmd[c] \in Steps /\ cmd \in [Procs -> Steps]
         /\ source \in Nat /\ source <= MaxBuild /\ source >= 1 /\ ops \in Nat
         /\ entry.build \in Nat /\ dir.build \in Nat
         /\ cmd[c].new.build \in Nat /\ cmd[c].locked.build \in Nat /\ cmd[c].old.build \in Nat
<1> USE FilesAssumption
<1>1. \A d \in Contents : d.build \in Nat
  BY DEF Contents, Gone
<1> QED BY <1>1 DEF FilesTypeOK, Procs, Steps

(* A command that ends, or has the plugin loaded again.                     *)
Ends(c) == Put(c, Idle) \/ Put(c, [cmd[c] EXCEPT !.at = "reload"])

LEMMA EndsStep ==
  ASSUME FilesTypeOK, Newer, NEW c \in Procs, Ends(c), source' = source
  PROVE  /\ Moves(c) /\ cmd'[c].at \in {"idle", "reload"} /\ Ordered(c)'
         /\ cmd'[c].at = "reload" => cmd'[c].n = cmd[c].n /\ cmd'[c].op = cmd[c].op
         /\ cmd'[c].at = "idle" => cmd'[c].n = 0
<1> USE FilesAssumption
<1>1. CASE Put(c, Idle)
  BY <1>1, PutStep, IdleStep, StepTypes DEF Moves, Ordered
<1>2. CASE Put(c, [cmd[c] EXCEPT !.at = "reload"])
  <2> DEFINE r == [cmd[c] EXCEPT !.at = "reload"]
  <2>1. cmd[c] \in Steps
    BY StepTypes
  <2>2. r \in Steps
    BY <2>1 DEF Steps, Points
  <2>3. /\ r.at = "reload" /\ r.n = cmd[c].n /\ r.op = cmd[c].op
        /\ r.new = cmd[c].new /\ r.locked = cmd[c].locked /\ r.old = cmd[c].old
    BY <2>1 DEF Steps
  <2> HIDE DEF r
  <2>4. /\ cmd' \in [Procs -> Steps] /\ cmd'[c] = r
        /\ \A d \in Procs : d # c => cmd'[d] = cmd[d]
    BY <1>2, <2>2, PutStep, StepTypes DEF r
  <2> QED BY <2>3, <2>4, StepTypes DEF Moves, Ordered, Newer, Waiting
<1> QED BY <1>1, <1>2 DEF Ends

LEMMA EndsApart ==
  ASSUME Basis, NEW c \in Commands, Ends(c), cmd[c].at \notin Holding \cup {"idle"},
         live' \in 0..MaxBuild, faults' \in 0..MaxFaults,
         UNCHANGED <<source, files, preview, holder, daemon, ops, crashed, cut>>
  PROVE  Apart(c)
<1> USE FilesAssumption
<1>1. /\ Moves(c) /\ cmd'[c].at \in {"idle", "reload"} /\ Ordered(c)'
      /\ cmd'[c].at = "reload" => cmd'[c].n = cmd[c].n
  BY EndsStep, Distinct DEF Basis
<1>2. Outside(c) /\ Counts(c)
  BY <1>1 DEF Outside, Counts, Holding, Waiting
<1> QED BY <1>1, <1>2 DEF Apart, Basis, Newer, FilesTypeOK

(* A command that begins.                                                   *)
LEMMA BeginStep ==
  ASSUME FilesTypeOK, NEW c \in Commands, NEW r \in Steps, Begin(c, r), r.at # "idle"
  PROVE  /\ Moves(c) /\ Counts(c) /\ cmd[c].at = "idle" /\ cmd'[c] \in Steps
         /\ ops' \in 0..MaxOps
         /\ cmd'[c].at = r.at /\ cmd'[c].op = r.op /\ cmd'[c].new = r.new
         /\ cmd'[c].locked = r.locked /\ cmd'[c].old = r.old /\ cmd'[c].base = r.base
<1> USE FilesAssumption
<1> DEFINE s == [r EXCEPT !.n = ops + 1]
<1>1. ops + 1 \in 0..MaxOps /\ ops' = ops + 1 /\ cmd[c].at = "idle" /\ ops \in Nat
  BY DEF Begin, At, FilesTypeOK
<1>2. s \in Steps /\ s.n = ops + 1
  BY <1>1 DEF Steps
<1>3. /\ s.at = r.at /\ s.op = r.op /\ s.new = r.new
      /\ s.locked = r.locked /\ s.old = r.old /\ s.base = r.base
  BY DEF Steps
<1>4. Put(c, s)
  BY DEF Begin
<1> HIDE DEF s
<1>5. /\ cmd' \in [Procs -> Steps] /\ cmd'[c] = s
      /\ \A d \in Procs : d # c => cmd'[d] = cmd[d]
  BY <1>2, <1>4, PutStep, StepTypes, Distinct
<1> QED BY <1>1, <1>2, <1>3, <1>5 DEF Moves, Counts

LEMMA BeginApart ==
  ASSUME Basis, NEW c \in Commands, NEW op \in {"update", "remove"},
         NEW at \in {"asking", "planned"}, op = "update" <=> at = "asking",
         Begin(c, [Idle EXCEPT !.at = at, !.op = op]),
         UNCHANGED <<source, files, holder, daemon, live, faults, crashed, cut>>,
         preview' \in [saved : BOOLEAN, base : 0..MaxBuild, build : 0..MaxBuild],
         preview'.build # 0 => preview'.base <= preview'.build /\ preview'.build <= source
  PROVE  Apart(c)
<1> USE FilesAssumption
<1> DEFINE r == [Idle EXCEPT !.at = at, !.op = op]
<1>1. r \in Steps
  BY IdleStep DEF Steps, Points, Ops
<1>2. /\ r.at = at /\ r.op = op /\ r.new = Gone /\ r.locked = Gone /\ r.old = Gone
  BY IdleStep DEF Steps
<1>3. Begin(c, r)
  OBVIOUS
<1> HIDE DEF r
<1>4. /\ Moves(c) /\ Counts(c) /\ cmd[c].at = "idle" /\ ops' \in 0..MaxOps
      /\ cmd'[c].at = at /\ cmd'[c].op = op /\ cmd'[c].new = Gone
      /\ cmd'[c].locked = Gone /\ cmd'[c].old = Gone
  BY <1>1, <1>2, <1>3, BeginStep DEF Basis
<1>5. Outside(c)
  BY <1>4 DEF Outside, Holding
<1>6. Ordered(c)'
  BY <1>4, IdleStep, StepTypes, Distinct DEF Ordered, Waiting, Basis
<1> QED BY <1>4, <1>5, <1>6 DEF Apart, Basis, FilesTypeOK

LEMMA PreviewUpdateApart ==
  ASSUME Basis, NEW c \in Commands, PreviewUpdate(c) \/ UseSavedPreview(c) \/ Uninstall(c)
  PROVE  Apart(c)
<1> USE FilesAssumption
<1>1. preview \in [saved : BOOLEAN, base : 0..MaxBuild, build : 0..MaxBuild]
  BY DEF Basis, FilesTypeOK
<1>2. preview.build # 0 => preview.base <= preview.build /\ preview.build <= source
  BY DEF Basis, Newer
<1>3. CASE PreviewUpdate(c)
  <2>1. /\ Candidate \in [saved : BOOLEAN, base : 0..MaxBuild, build : 0..MaxBuild]
        /\ Candidate.build # 0 => Candidate.base <= Candidate.build /\ Candidate.build <= source
    <3>1. entry.build \in 0..MaxBuild /\ source \in 0..MaxBuild
      BY DEF Basis, FilesTypeOK, Contents, Gone
    <3>2. entry.build <= source
      BY DEF Basis, Newer
    <3>3. CASE entry = Gone \/ entry.build = source
      <4>1. Candidate = [saved |-> TRUE, base |-> 0, build |-> 0]
        BY <3>3 DEF Candidate, NoPreview
      <4> QED BY <4>1
    <3>4. CASE ~(entry = Gone \/ entry.build = source)
      <4>1. Candidate = [saved |-> TRUE, base |-> entry.build, build |-> source]
        BY <3>4 DEF Candidate
      <4> QED BY <3>1, <3>2, <4>1
    <3> QED BY <3>3, <3>4
  <2>2. Begin(c, Asking) /\ preview' = Candidate
    BY <1>3 DEF PreviewUpdate
  <2> QED BY <1>3, <2>1, <2>2, BeginApart DEF PreviewUpdate, Asking
<1>4. CASE UseSavedPreview(c)
  BY <1>1, <1>2, <1>4, BeginApart DEF UseSavedPreview, Asking
<1>5. CASE Uninstall(c)
  BY <1>1, <1>2, <1>5, BeginApart DEF Uninstall
<1> QED BY <1>3, <1>4, <1>5

LEMMA GivesUp ==
  ASSUME NEW c \in Procs, Put(c, GiveUp(c)) \/ Put(c, Failed(c)) \/ Put(c, Done(c))
  PROVE  Ends(c)
BY DEF Ends, GiveUp, Failed, Done

LEMMA LiveTypes ==
  ASSUME FilesTypeOK
  PROVE  /\ Loaded(0) \in 0..MaxBuild /\ Loaded(live) \in 0..MaxBuild /\ live \in 0..MaxBuild
<1> USE FilesAssumption
<1>1. source \in 0..MaxBuild /\ dir.build \in 0..MaxBuild /\ live \in 0..MaxBuild
  BY DEF FilesTypeOK, Contents, Gone
<1> QED BY <1>1 DEF Loaded, Content

LEMMA DeclineApart ==
  ASSUME Basis, NEW c \in Commands,
         Decline(c) \/ UnloadFails(c) \/ LockHeld(c) \/ Reload(c)
  PROVE  Apart(c)
<1> USE FilesAssumption
<1>1. /\ live \in 0..MaxBuild /\ Loaded(live) \in 0..MaxBuild
      /\ faults \in 0..MaxFaults
  BY LiveTypes DEF Basis, FilesTypeOK
<1>2. CASE Decline(c)
  <2>1. Ends(c) /\ cmd[c].at = "asking"
    BY <1>2 DEF Decline, Ends, At
  <2> QED BY <1>1, <1>2, <2>1, EndsApart DEF Decline, Holding, counts
<1>3. CASE UnloadFails(c)
  <2>1. Ends(c) /\ cmd[c].at = "planned"
    BY <1>3 DEF UnloadFails, Ends, At
  <2>2. faults' \in 0..MaxFaults /\ live' \in 0..MaxBuild
    BY <1>1, <1>3 DEF UnloadFails, Fault
  <2> QED BY <1>3, <2>1, <2>2, EndsApart DEF UnloadFails, Holding
<1>4. CASE LockHeld(c)
  BY <1>1, <1>4, EndsApart, GivesUp, Distinct DEF LockHeld, At, Holding, counts
<1>5. CASE Reload(c)
  <2>1. Ends(c) /\ cmd[c].at = "reload"
    BY <1>5 DEF Reload, Ends, At
  <2>2. live' \in 0..MaxBuild
    BY <1>1, <1>5 DEF Reload
  <2> QED BY <1>1, <1>5, <2>1, <2>2, EndsApart DEF Reload, Holding, counts
<1> QED BY <1>2, <1>3, <1>4, <1>5

(* A command goes to another point outside the lock.                        *)
LEMMA GoesApart ==
  ASSUME Basis, NEW c \in Commands, NEW r \in Steps, Put(c, r),
         cmd[c].at \in Waiting, r.at \in Waiting, r.n = cmd[c].n,
         r.new.build <= source, r.locked = cmd[c].locked, r.old = cmd[c].old,
         r.at \in {"asking", "locking"} => r.op = "update",
         r.at = "planned" => r.op \in {"update", "remove"},
         r.at = "removing" => r.op = "remove",
         r.op = "update" /\ r.at # "asking" => r.base <= r.new.build,
         live' \in 0..MaxBuild, UNCHANGED <<source, files, preview, holder, daemon, counts>>
  PROVE  Apart(c)
<1> USE FilesAssumption
<1>1. /\ Moves(c) /\ cmd'[c] = r
  BY PutStep, StepTypes, Distinct DEF Moves, Basis
<1>2. Outside(c) /\ Counts(c)
  BY <1>1 DEF Outside, Counts, Holding, Waiting, counts
<1>3. Ordered(c)'
  BY <1>1, Distinct DEF Ordered, Waiting, Basis, Newer
<1> QED BY <1>1, <1>2, <1>3 DEF Apart, Basis, Newer, FilesTypeOK, counts

LEMMA TakeSnapshotApart ==
  ASSUME Basis, NEW c \in Commands, TakeSnapshot(c)
  PROVE  Apart(c)
<1> USE FilesAssumption
<1>1. cmd[c] \in Steps /\ live \in 0..MaxBuild
  BY StepTypes, LiveTypes, Distinct DEF Basis
<1>2. CASE Stale \/ preview.build = 0 \/ entry = Gone
  BY <1>1, <1>2, EndsApart DEF TakeSnapshot, Ends, At, Holding, counts, Basis, FilesTypeOK
<1>3. CASE ~(Stale \/ preview.build = 0 \/ entry = Gone)
  <2> DEFINE new == [build |-> preview.build, linked |-> FALSE]
             r == [cmd[c] EXCEPT !.at = "planned", !.base = preview.base, !.new = new]
  <2>1. /\ new \in Contents /\ new.build = preview.build /\ preview.base \in 0..MaxBuild
        /\ preview.base <= preview.build /\ preview.build <= source
    BY <1>3 DEF Basis, FilesTypeOK, Newer, Contents
  <2>2. Put(c, r) /\ cmd[c].at = "asking"
    BY <1>3 DEF TakeSnapshot, At
  <2>0. cmd[c].op = "update"
    BY <2>2, Distinct DEF Basis, Newer, Ordered
  <2> HIDE DEF new
  <2>3. r \in Steps
    BY <1>1, <2>1 DEF Steps, Points
  <2>4. /\ r.at = "planned" /\ r.base = preview.base /\ r.new = new /\ r.n = cmd[c].n
        /\ r.locked = cmd[c].locked /\ r.old = cmd[c].old /\ r.op = cmd[c].op
    BY <1>1 DEF Steps
  <2> HIDE DEF r
  <2> QED BY <1>1, <2>0, <2>1, <2>2, <2>3, <2>4, GoesApart DEF TakeSnapshot, Waiting
<1> QED BY <1>2, <1>3

LEMMA UnloadApart ==
  ASSUME Basis, NEW c \in Commands, Unload(c)
  PROVE  Apart(c)
<1> USE FilesAssumption
<1>1. cmd[c] \in Steps /\ live \in 0..MaxBuild /\ cmd[c].at = "planned"
  BY StepTypes, LiveTypes, Distinct DEF Basis, Unload, At
<1>2. /\ cmd[c].new.build <= source
      /\ cmd[c].op = "update" => cmd[c].base <= cmd[c].new.build
      /\ cmd[c].op \in {"update", "remove"}
  BY <1>1, Distinct DEF Basis, Newer, Ordered, Waiting
<1>3. PICK at \in {"removing", "locking"}, reload \in BOOLEAN :
        /\ Put(c, [cmd[c] EXCEPT !.at = at, !.reload = reload])
        /\ at = "removing" <=> cmd[c].op = "remove"
  BY DEF Unload
<1> DEFINE r == [cmd[c] EXCEPT !.at = at, !.reload = reload]
<1>4. r \in Steps
  BY <1>1 DEF Steps, Points
<1>5. /\ r.at = at /\ r.base = cmd[c].base /\ r.new = cmd[c].new /\ r.n = cmd[c].n
      /\ r.locked = cmd[c].locked /\ r.old = cmd[c].old /\ r.op = cmd[c].op
  BY <1>1 DEF Steps
<1>6. Put(c, r)
  BY <1>3
<1>7. live' \in 0..MaxBuild
  BY <1>1 DEF Unload
<1> HIDE DEF r
<1>8. /\ r.at \in Waiting /\ cmd[c].at \in Waiting /\ r.at \notin {"asking", "planned"}
      /\ r.at = "locking" => r.op = "update"
      /\ r.at = "removing" => r.op = "remove"
      /\ r.op = "update" => r.base <= r.new.build
  BY <1>1, <1>2, <1>3, <1>5 DEF Waiting
<1> QED BY <1>1, <1>2, <1>4, <1>5, <1>6, <1>7, <1>8, GoesApart DEF Unload

-----------------------------------------------------------------------------
(* Commands that take the lock.                                             *)

LEMMA TakingKeeps ==
  ASSUME Basis, NEW c \in Commands, Takes(c), Counts(c), Ordered(c)',
         ops' \in 0..MaxOps, UNCHANGED <<source, preview, daemon, live>>
  PROVE  Basis'
<1> USE FilesAssumption
<1>1. ops' \in Nat /\ c \in Procs
  BY Distinct
<1>2. Locked' /\ Numbered' /\ Replacing'
  BY <1>1, TakesKeeps
<1>3. Newer'
  <2>1. Moves(c) /\ entry' = entry
    BY DEF Takes, files
  <2>2. preview'.build # 0 => preview'.base <= preview'.build /\ preview'.build <= source
    BY DEF Basis, Newer
  <2> QED BY <1>1, <2>1, <2>2, NewerMoves DEF Basis
<1>4. FilesTypeOK'
  BY DEF Takes, Moves, files, Basis, FilesTypeOK, Procs
<1> QED BY <1>2, <1>3, <1>4 DEF Basis

(* Either the command takes the lock, or it ends.                           *)
Tries(c) == Takes(c) \/ Outside(c)

LEMMA InstallTakes ==
  ASSUME Basis, NEW c \in Commands, NEW linked \in Forms, Install(c, linked)
  PROVE  Takes(c) /\ Basis'
<1> USE FilesAssumption
<1> DEFINE new == [build |-> source, linked |-> linked]
           r == [Idle EXCEPT !.at = "aside", !.op = "install", !.new = new, !.locked = new,
                             !.old = entry, !.reload = TRUE]
<1>1. new \in Contents /\ new.build = source /\ entry \in Contents
  BY DEF Contents, Basis, FilesTypeOK
<1>2. Begin(c, r) /\ holder = Nobody
  BY DEF Install, Free
<1> HIDE DEF new
<1>3. r \in Steps
  BY <1>1, IdleStep DEF Steps, Points, Ops
<1>4. /\ r.at = "aside" /\ r.op = "install" /\ r.new = new /\ r.locked = new /\ r.old = entry
  BY <1>1, IdleStep DEF Steps
<1> HIDE DEF r
<1>5. /\ Moves(c) /\ Counts(c) /\ cmd[c].at = "idle" /\ ops' \in 0..MaxOps
      /\ cmd'[c].at = "aside" /\ cmd'[c].op = "install" /\ cmd'[c].new = new
      /\ cmd'[c].locked = new /\ cmd'[c].old = entry
  BY <1>2, <1>3, <1>4, BeginStep DEF Basis
<1>6. Takes(c)
  BY <1>2, <1>5 DEF Takes, Install, Holding
<1>7. Ordered(c)'
  <2>1. source' = source /\ source \in Nat /\ entry.build <= source
    BY StepTypes, Distinct DEF Install, Basis, Newer
  <2> QED BY <1>1, <1>5, <2>1 DEF Ordered, Waiting
<1> QED BY <1>5, <1>6, <1>7, TakingKeeps DEF Install

LEMMA ApplyTries ==
  ASSUME Basis, NEW c \in Commands, Apply(c)
  PROVE  Tries(c) /\ Basis'
<1> USE FilesAssumption
<1>1. /\ cmd[c] \in Steps /\ cmd[c].at = "locking" /\ holder = Nobody /\ live \in 0..MaxBuild
      /\ faults \in 0..MaxFaults /\ c \in Procs /\ ops \in 0..MaxOps
  BY StepTypes, LiveTypes, Distinct DEF Basis, Apply, At, Free, FilesTypeOK
<1>2. CASE entry.build = cmd[c].base
  <2> DEFINE new == [build |-> cmd[c].new.build, linked |-> entry.linked]
             r == [cmd[c] EXCEPT !.at = "aside", !.old = entry, !.locked = new]
  <2>1. /\ cmd[c].op = "update" /\ entry.build <= cmd[c].new.build /\ cmd[c].new.build <= source
    BY <1>1, <1>2 DEF Basis, Newer, Ordered, Waiting
  <2>2. new \in Contents /\ new.build = cmd[c].new.build /\ entry \in Contents
    <3>0. \A d \in Contents : d.linked \in BOOLEAN
      <4>1. Gone.linked \in BOOLEAN
        BY DEF Gone
      <4> QED BY <4>1 DEF Contents
    <3>1. entry \in Contents /\ entry.linked \in BOOLEAN /\ cmd[c].new \in Contents
      BY <1>1, <3>0 DEF Basis, FilesTypeOK, Steps
    <3>2. entry.build = 0 => entry = Gone
      BY <3>1 DEF Contents, Gone
    <3>3. CASE cmd[c].new = Gone
      <4>1. entry.build = 0
        BY <2>1, <3>1, <3>3 DEF Gone, Contents
      <4> QED BY <3>1, <3>2, <3>3, <4>1 DEF Gone, Contents
    <3> QED BY <3>1, <3>3 DEF Contents
  <2>3. Put(c, r) /\ holder' = c
    BY <1>2 DEF Apply
  <2> HIDE DEF new
  <2>4. r \in Steps
    BY <1>1, <2>2 DEF Steps, Points
  <2>5. /\ r.at = "aside" /\ r.op = cmd[c].op /\ r.new = cmd[c].new /\ r.locked = new
        /\ r.old = entry /\ r.n = cmd[c].n
    BY <1>1 DEF Steps
  <2> HIDE DEF r
  <2>6. Moves(c) /\ cmd'[c] = r
    BY <2>3, <2>4, PutStep, StepTypes, <1>1 DEF Moves, Basis
  <2>7. Takes(c) /\ Counts(c)
    BY <1>1, <2>1, <2>2, <2>3, <2>5, <2>6 DEF Takes, Counts, Apply, Holding, Waiting, counts
  <2>8. Ordered(c)'
    <3>1. source' = source /\ source \in Nat /\ entry.build <= source
      BY <1>1, StepTypes DEF Apply, Basis, Newer
    <3> QED BY <2>1, <2>2, <2>5, <2>6, <3>1 DEF Ordered, Waiting
  <2> QED BY <1>1, <2>7, <2>8, TakingKeeps DEF Apply, Tries, counts
<1>3. CASE entry.build # cmd[c].base
  <2>1. Ends(c)
    BY <1>1, <1>3, GivesUp DEF Apply
  <2>2. Apart(c)
    BY <1>1, <1>3, <2>1, EndsApart DEF Apply, Holding, counts
  <2> QED BY <2>2, ApartKeeps DEF Apart, Tries
<1> QED BY <1>2, <1>3

LEMMA TakeOutTries ==
  ASSUME Basis, NEW c \in Commands, TakeOut(c)
  PROVE  Tries(c) /\ Basis'
<1> USE FilesAssumption
<1>1. /\ cmd[c] \in Steps /\ cmd[c].at = "removing" /\ holder = Nobody /\ live \in 0..MaxBuild
      /\ faults \in 0..MaxFaults /\ c \in Procs /\ ops \in 0..MaxOps
  BY StepTypes, LiveTypes, Distinct DEF Basis, TakeOut, At, Free, FilesTypeOK
<1>2. CASE entry # Gone \/ dir # Gone
  <2> DEFINE r == [cmd[c] EXCEPT !.at = "aside", !.old = entry]
  <2>1. cmd[c].op = "remove" /\ cmd[c].locked = Gone /\ entry \in Contents
    BY <1>1 DEF Basis, Newer, Ordered, Waiting, FilesTypeOK
  <2>3. Put(c, r) /\ holder' = c
    BY <1>2 DEF TakeOut
  <2>4. r \in Steps
    BY <1>1, <2>1 DEF Steps, Points
  <2>5. /\ r.at = "aside" /\ r.op = cmd[c].op /\ r.new = cmd[c].new /\ r.locked = Gone
        /\ r.old = entry /\ r.n = cmd[c].n
    BY <1>1, <2>1 DEF Steps
  <2> HIDE DEF r
  <2>6. Moves(c) /\ cmd'[c] = r
    BY <2>3, <2>4, PutStep, StepTypes, <1>1 DEF Moves, Basis
  <2>7. Takes(c) /\ Counts(c)
    BY <1>1, <2>1, <2>3, <2>5, <2>6 DEF Takes, Counts, TakeOut, Holding, Waiting, counts
  <2>8. Ordered(c)'
    <3>1. /\ source' = source /\ source \in Nat /\ entry.build <= source
          /\ cmd[c].new.build <= source
      BY <1>1, StepTypes DEF TakeOut, Basis, Newer, Ordered
    <3> QED BY <2>1, <2>5, <2>6, <3>1, IdleStep DEF Ordered, Waiting
  <2> QED BY <1>1, <2>7, <2>8, TakingKeeps DEF TakeOut, Tries, counts
<1>3. CASE ~(entry # Gone \/ dir # Gone)
  <2>1. Ends(c)
    BY <1>1, <1>3, GivesUp DEF TakeOut
  <2>2. Apart(c)
    BY <1>1, <1>3, <2>1, EndsApart DEF TakeOut, Holding, counts
  <2> QED BY <2>2, ApartKeeps DEF Apart, Tries
<1> QED BY <1>2, <1>3

-----------------------------------------------------------------------------
(* The command that holds the lock.                                         *)

LEMMA HolderAlone ==
  ASSUME Locked, NEW c \in Procs, cmd[c].at \in Holding
  PROVE  /\ holder = c /\ holder # Nobody /\ daemon # "recovering"
         /\ \A d \in Procs : d # c => cmd[d].at \notin Holding
BY Distinct DEF Locked, Holding

(* It goes on, or lets the lock go.                                         *)
Proceeds(c) ==
  /\ Moves(c) /\ cmd[c].at \in Holding
  /\ \/ /\ holder' = c /\ cmd'[c].at \in Holding \ {"aside"}
        /\ cmd'[c].op = cmd[c].op /\ cmd'[c].n = cmd[c].n
     \/ /\ holder' = Nobody /\ cmd'[c].at \in {"idle", "reload"}
        /\ cmd'[c].at = "reload" => cmd'[c].n = cmd[c].n /\ cmd'[c].op = cmd[c].op
        /\ cmd'[c].at = "idle" => cmd'[c].n = 0
  /\ UNCHANGED <<source, preview, daemon, live, ops, crashed>>

SetsAside(c) ==
  /\ cmd[c].at = "aside" /\ dir # Gone
  /\ backups' = backups \cup {[of |-> dir, n |-> cmd[c].n]}

LEMMA ProceedsLocked ==
  ASSUME Locked, NEW c \in Procs, Proceeds(c)
  PROVE  Locked'
<1>1. /\ holder = c /\ daemon # "recovering"
      /\ \A d \in Procs : d # c => cmd'[d].at \notin Holding /\ cmd'[d] = cmd[d]
  BY HolderAlone DEF Proceeds, Moves
<1>2. daemon' = daemon
  BY DEF Proceeds
<1>3. (\A d \in Procs : cmd[d].at \in Holding => holder = d)'
  BY <1>1 DEF Proceeds, Holding
<1>4. (holder \in Commands => cmd[holder].at \in Holding)'
  BY <1>1, Distinct DEF Proceeds, Holding, Procs
<1>5. (holder = Daemon => daemon = "recovering" \/ cmd[Daemon].at \in Holding)'
  BY <1>1, Distinct DEF Proceeds
<1>6. (cmd[Daemon].at # "idle" =>
         daemon = "updating" /\ cmd[Daemon].op = "auto" /\ cmd[Daemon].at \in Holding \cup {"reload"})'
  <2>1. cmd[Daemon].at # "idle" =>
          daemon = "updating" /\ cmd[Daemon].op = "auto" /\ cmd[Daemon].at \in Holding \cup {"reload"}
    BY DEF Locked
  <2>2. CASE c = Daemon
    BY <1>2, <2>1, <2>2 DEF Proceeds, Holding
  <2>3. CASE c # Daemon
    BY <1>1, <1>2, <2>1, <2>3, Distinct
  <2> QED BY <2>2, <2>3
<1> QED BY <1>1, <1>2, <1>3, <1>4, <1>5, <1>6 DEF Locked

LEMMA ProceedsNumbered ==
  ASSUME FilesTypeOK, Locked, Numbered, NEW c \in Procs, Proceeds(c),
         backups' \subseteq backups \/ SetsAside(c)
  PROVE  Numbered'
<1> USE FilesAssumption
<1>1. /\ holder = c
      /\ \A d \in Procs : d # c => cmd'[d].at \notin Holding /\ cmd'[d] = cmd[d]
  BY HolderAlone DEF Proceeds, Moves
<1>2. ops' = ops /\ daemon' = daemon /\ ops \in Nat /\ c \in Procs /\ Daemon \in Procs
  BY Distinct DEF Proceeds, FilesTypeOK
<1>3. /\ \A b \in backups : b.n <= ops
      /\ \A a, b \in backups : a.n = b.n => a = b
      /\ \A d \in Commands : cmd[d].at # "idle" => cmd[d].n \in 1..ops
      /\ \A d, e \in Commands :
           cmd[d].at # "idle" /\ cmd[e].at # "idle" /\ d # e => cmd[d].n # cmd[e].n
      /\ \A d \in Commands : \A b \in backups :
           cmd[d].at \in Waiting \cup {"aside"} => b.n # cmd[d].n
      /\ cmd[Daemon].n = 0
      /\ daemon = "opening" \/ cmd[Daemon].at = "aside" => \A b \in backups : b.n # 0
  BY DEF Numbered
<1>4. c = Daemon => daemon # "opening" /\ cmd[c].n = 0
  BY <1>3 DEF Locked, Proceeds, Holding
<1>5. c # Daemon => c \in Commands /\ cmd[c].n \in 1..ops
  BY <1>3 DEF Procs, Proceeds, Holding
<1>6. cmd[c].n \in 0..ops
  BY <1>2, <1>4, <1>5
(* A new backup has a number of its own.                                    *)
<1>7. SetsAside(c) => \A b \in backups : b.n # cmd[c].n
  BY <1>3, <1>4, <1>5 DEF SetsAside
<1>8. \A b \in backups' : b \in backups \/ (SetsAside(c) /\ b.n = cmd[c].n /\ b.of = dir)
  BY DEF SetsAside
<1>9. (\A b \in backups : b.n <= ops)'
  BY <1>2, <1>3, <1>6, <1>8
<1>10. (\A a, b \in backups : a.n = b.n => a = b)'
  BY <1>3, <1>7 DEF SetsAside
<1>11. (\A d \in Commands : cmd[d].at # "idle" => cmd[d].n \in 1..ops)'
  <2>1. c \in Commands /\ cmd'[c].at # "idle" => cmd'[c].n \in 1..ops
    BY <1>5, Distinct DEF Proceeds
  <2> QED BY <1>1, <1>2, <1>3, <2>1, Distinct
<1>12. (\A d, e \in Commands :
          cmd[d].at # "idle" /\ cmd[e].at # "idle" /\ d # e => cmd[d].n # cmd[e].n)'
  <2>1. c \in Commands /\ cmd'[c].at # "idle" => cmd'[c].n = cmd[c].n /\ cmd[c].at # "idle"
    BY DEF Proceeds, Holding
  <2> QED BY <1>1, <1>3, <2>1, Distinct
<1>13. (\A d \in Commands : \A b \in backups :
          cmd[d].at \in Waiting \cup {"aside"} => b.n # cmd[d].n)'
  <2>1. cmd'[c].at \notin Waiting \cup {"aside"}
    BY DEF Proceeds, Holding, Waiting
  <2> SUFFICES ASSUME NEW d \in Commands, NEW b \in backups', cmd'[d].at \in Waiting \cup {"aside"}
               PROVE  b.n # cmd'[d].n
    OBVIOUS
  <2>2. d # c /\ d \in Procs /\ cmd'[d] = cmd[d]
    BY <1>1, <2>1, Distinct
  <2>3. CASE b \in backups
    BY <1>3, <2>2, <2>3
  <2>4. CASE SetsAside(c) /\ b.n = cmd[c].n
    <3>1. cmd[d].at # "idle" /\ cmd[c].at # "idle"
      BY <2>2 DEF Waiting, Proceeds, Holding
    <3>2. CASE c = Daemon
      BY <1>2, <1>3, <1>4, <2>2, <2>4, <3>1, <3>2
    <3>3. CASE c # Daemon
      BY <1>3, <1>5, <2>2, <2>4, <3>1, <3>3
    <3> QED BY <3>2, <3>3
  <2> QED BY <1>8, <2>3, <2>4
<1>14. (cmd[Daemon].n = 0)'
  <2>1. cmd'[c].n \in {0, cmd[c].n}
    BY DEF Proceeds, Holding
  <2> QED BY <1>1, <1>2, <1>3, <2>1
<1>15. (daemon = "opening" \/ cmd[Daemon].at = "aside" => \A b \in backups : b.n # 0)'
  <2>1. CASE c = Daemon
    BY <1>2, <1>4, <2>1 DEF Proceeds, Holding
  <2>2. CASE c # Daemon
    BY <1>1, <1>2, <1>3, <1>5, <1>8, <2>2
  <2> QED BY <2>1, <2>2
<1> QED BY <1>9, <1>10, <1>11, <1>12, <1>13, <1>14, <1>15 DEF Numbered

LEMMA ProceedsKeeps ==
  ASSUME Basis, NEW c \in Procs, Proceeds(c), backups' \subseteq backups \/ SetsAside(c),
         dir' \in Contents, entry' \in Contents, entry'.build <= source,
         faults' \in 0..MaxFaults, cut' \in BOOLEAN, Working(c)', Ordered(c)'
  PROVE  Basis'
<1> USE FilesAssumption
<1>1. Locked'
  BY ProceedsLocked DEF Basis
<1>2. Numbered'
  BY ProceedsNumbered DEF Basis
<1>3. \A d \in Procs : d # c => cmd'[d].at \notin Holding /\ cmd'[d] = cmd[d]
  BY HolderAlone DEF Proceeds, Moves, Basis
<1>4. Replacing'
  <2>1. \A d \in Procs : d # c => Working(d)'
    BY <1>3 DEF Working, Holding, Replaced
  <2> QED BY <2>1 DEF Replacing
<1>5. Newer'
  <2>1. \A d \in Procs : d # c => Ordered(d)'
    BY <1>3 DEF Basis, Newer, Ordered, Proceeds
  <2>2. source' = source /\ preview' = preview
    BY DEF Proceeds
  <2> QED BY <2>1, <2>2 DEF Basis, Newer
<1>6. FilesTypeOK'
  <2>1. backups' \subseteq [of : Contents \ {Gone}, n : 0..MaxOps]
    <3>1. CASE backups' \subseteq backups
      BY <3>1 DEF Basis, FilesTypeOK
    <3>2. CASE SetsAside(c)
      <4>1. cmd[c].n \in 0..MaxOps /\ dir \in Contents
        BY StepTypes DEF Basis, FilesTypeOK, Steps
      <4> QED BY <3>2, <4>1 DEF SetsAside, Basis, FilesTypeOK
    <3> QED BY <3>1, <3>2
  <2>2. holder' \in Commands \cup {Daemon, Nobody}
    BY DEF Proceeds, Procs
  <2> QED BY <2>1, <2>2 DEF Basis, FilesTypeOK, Proceeds, Moves, Procs
<1> QED BY <1>1, <1>2, <1>4, <1>5, <1>6 DEF Basis

(* The fields that a step of the holder leaves alone.                       *)
SameTask(c) ==
  /\ cmd'[c].op = cmd[c].op /\ cmd'[c].n = cmd[c].n /\ cmd'[c].base = cmd[c].base
  /\ cmd'[c].new = cmd[c].new /\ cmd'[c].locked = cmd[c].locked /\ cmd'[c].old = cmd[c].old

LEMMA GotoStep ==
  ASSUME FilesTypeOK, NEW c \in Procs, NEW point \in Points, Goto(c, point)
  PROVE  Moves(c) /\ cmd'[c].at = point /\ SameTask(c) /\ cmd'[c].kept = cmd[c].kept
<1> DEFINE r == [cmd[c] EXCEPT !.at = point]
<1>1. cmd[c] \in Steps
  BY StepTypes
<1>2. r \in Steps
  BY <1>1 DEF Steps
<1>3. /\ r.at = point /\ r.op = cmd[c].op /\ r.n = cmd[c].n /\ r.base = cmd[c].base
      /\ r.new = cmd[c].new /\ r.locked = cmd[c].locked /\ r.old = cmd[c].old
      /\ r.kept = cmd[c].kept
  BY <1>1 DEF Steps
<1>4. Put(c, r)
  BY DEF Goto
<1> HIDE DEF r
<1>5. Moves(c) /\ cmd'[c] = r
  BY <1>2, <1>4, PutStep, StepTypes DEF Moves
<1> QED BY <1>3, <1>5 DEF SameTask

(* What is known of the holder, with the types of what it works on.         *)
LEMMA AtWork ==
  ASSUME Basis, NEW c \in Procs
  PROVE  /\ dir \in Contents /\ entry \in Contents /\ source \in Nat
         /\ entry.build <= source /\ faults \in 0..MaxFaults /\ cut \in BOOLEAN
         /\ crashed \in BOOLEAN
         /\ cmd[c].new \in Contents /\ cmd[c].locked \in Contents /\ cmd[c].old \in Contents
         /\ cmd[c].kept \in BOOLEAN /\ cmd[c].op \in Ops
         /\ cmd[c].locked.build <= source /\ cmd[c].old.build <= source
         /\ Working(c) /\ Ordered(c) /\ FilesTypeOK
BY StepTypes DEF Basis, FilesTypeOK, Steps, Newer, Replacing, Ordered

LEMMA SetAsideProceeds ==
  ASSUME Basis, NEW c \in Procs, SetAside(c)
  PROVE  /\ Proceeds(c) /\ SameTask(c)
         /\ cmd'[c].at \in {"place", "save"} /\ cmd'[c].kept = (dir # Gone)
         /\ Basis'
<1> USE FilesAssumption
<1> DEFINE at == IF cmd[c].op = "remove" THEN "save" ELSE "place"
           kept == dir # Gone
           r == [cmd[c] EXCEPT !.at = at, !.kept = kept]
<1>1. cmd[c] \in Steps /\ cmd[c].at = "aside" /\ Put(c, r)
  BY StepTypes DEF SetAside, At, Basis
<1>2. at \in {"place", "save"} /\ (at = "save" <=> cmd[c].op = "remove") /\ kept \in BOOLEAN
  OBVIOUS
<1> HIDE DEF at, kept
<1>3. r \in Steps
  BY <1>1, <1>2 DEF Steps, Points
<1>4. /\ r.at = at /\ r.op = cmd[c].op /\ r.n = cmd[c].n /\ r.base = cmd[c].base
      /\ r.new = cmd[c].new /\ r.locked = cmd[c].locked /\ r.old = cmd[c].old
      /\ r.kept = kept
  BY <1>1 DEF Steps
<1> HIDE DEF r
<1>5. Moves(c) /\ cmd'[c] = r
  BY <1>1, <1>3, PutStep, StepTypes DEF Moves, Basis
<1>6. SameTask(c)
  BY <1>4, <1>5 DEF SameTask
<1>7. Proceeds(c)
  BY <1>1, <1>2, <1>4, <1>5, HolderAlone DEF Proceeds, Holding, SetAside, counts, Basis
<1>8. backups' \subseteq backups \/ SetsAside(c)
  BY <1>1 DEF SetAside, SetsAside
<1>9. Working(c)'
  <2>1. \A b \in backups : b.n # cmd[c].n
    <3>1. CASE c = Daemon
      BY <1>1, <3>1 DEF Basis, Numbered
    <3>2. CASE c # Daemon
      BY <1>1, <3>2 DEF Basis, Numbered, Procs
    <3> QED BY <3>1, <3>2
  <2>2. kept => \E b \in backups' : b.n = cmd[c].n
    <3> DEFINE b == [of |-> dir, n |-> cmd[c].n]
    <3>1. kept => b \in backups' /\ b.n = cmd[c].n
      BY DEF kept, SetAside
    <3> HIDE DEF b
    <3> QED BY <3>1
  <2>3. ~kept => \A b \in backups' : b.n # cmd[c].n
    BY <2>1 DEF kept, SetAside
  <2>4. dir' = Gone /\ entry' = entry
    BY DEF SetAside
  <2> QED BY <1>1, <1>2, <1>4, <1>5, <2>2, <2>3, <2>4, AtWork, IdleStep DEF Working, Replaced, Holding
<1>10. Ordered(c)'
  BY <1>1, <1>2, <1>4, <1>5, AtWork DEF Ordered, Waiting, SetAside
<1>11. Basis'
  BY <1>7, <1>8, <1>9, <1>10, AtWork, ProceedsKeeps, IdleStep DEF SetAside, counts
<1> QED BY <1>2, <1>4, <1>5, <1>6, <1>7, <1>11 DEF kept

LEMMA PlaceProceeds ==
  ASSUME Basis, NEW c \in Procs, Place(c)
  PROVE  /\ Proceeds(c) /\ SameTask(c) /\ cmd'[c].at = "save" /\ cmd'[c].kept = cmd[c].kept
         /\ Basis'
<1> USE FilesAssumption
<1>1. Moves(c) /\ cmd'[c].at = "save" /\ SameTask(c) /\ cmd'[c].kept = cmd[c].kept
  BY GotoStep DEF Place, Basis, Points
<1>2. Proceeds(c)
  BY <1>1, HolderAlone DEF Proceeds, Holding, Place, At, SameTask, counts, Basis
<1>3. Working(c)'
  BY <1>1, AtWork DEF Working, Replaced, Holding, SameTask, Place, At
<1>4. Ordered(c)'
  BY <1>1, AtWork DEF Ordered, Waiting, SameTask, Place, At
<1>5. Basis'
  BY <1>2, <1>3, <1>4, AtWork, ProceedsKeeps DEF Place, counts
<1> QED BY <1>1, <1>2, <1>5

LEMMA SaveProceeds ==
  ASSUME Basis, NEW c \in Procs, Save(c)
  PROVE  /\ Proceeds(c) /\ SameTask(c) /\ cmd'[c].at = "clean" /\ cmd'[c].kept = cmd[c].kept
         /\ Basis'
<1> USE FilesAssumption
<1>1. Moves(c) /\ cmd'[c].at = "clean" /\ SameTask(c) /\ cmd'[c].kept = cmd[c].kept
  BY GotoStep DEF Save, Basis, Points
<1>2. Proceeds(c)
  BY <1>1, HolderAlone DEF Proceeds, Holding, Save, At, SameTask, Basis
<1>3. Working(c)'
  BY <1>1, AtWork DEF Working, Replaced, Holding, SameTask, Save, At
<1>4. Ordered(c)'
  BY <1>1, AtWork DEF Ordered, Waiting, SameTask, Save, At
<1>5. Basis'
  BY <1>2, <1>3, <1>4, AtWork, ProceedsKeeps DEF Save
<1> QED BY <1>1, <1>2, <1>5

LEMMA SaveFailsProceeds ==
  ASSUME Basis, NEW c \in Procs, SaveFails(c)
  PROVE  /\ Proceeds(c) /\ SameTask(c) /\ cmd'[c].at = "unlock" /\ cmd'[c].kept = cmd[c].kept
         /\ Basis'
<1> USE FilesAssumption
<1>1. Moves(c) /\ cmd'[c].at = "unlock" /\ SameTask(c) /\ cmd'[c].kept = cmd[c].kept
  BY GotoStep DEF SaveFails, Basis, Points
<1>2. Proceeds(c)
  BY <1>1, HolderAlone DEF Proceeds, Holding, SaveFails, At, SameTask, Basis
<1>3. Working(c)'
  BY <1>1, AtWork DEF Working, Replaced, Holding, SameTask, SaveFails, At
<1>4. Ordered(c)'
  BY <1>1, AtWork DEF Ordered, Waiting, SameTask, SaveFails, At
<1>5. faults' \in 0..MaxFaults
  BY AtWork DEF SaveFails, Fault
<1>6. Basis'
  BY <1>2, <1>3, <1>4, <1>5, AtWork, ProceedsKeeps DEF SaveFails
<1> QED BY <1>1, <1>2, <1>6

LEMMA RestoreLockProceeds ==
  ASSUME Basis, NEW c \in Procs, RestoreLock(c)
  PROVE  /\ Proceeds(c) /\ SameTask(c) /\ cmd'[c].at = "restore" /\ cmd'[c].kept = cmd[c].kept
         /\ Basis'
<1> USE FilesAssumption
<1>1. Moves(c) /\ cmd'[c].at = "restore" /\ SameTask(c) /\ cmd'[c].kept = cmd[c].kept
  BY GotoStep DEF RestoreLock, Basis, Points
<1>2. Proceeds(c)
  BY <1>1, HolderAlone DEF Proceeds, Holding, RestoreLock, At, SameTask, Basis, counts
<1>3. Working(c)'
  BY <1>1, AtWork DEF Working, Replaced, Holding, SameTask, RestoreLock, At
<1>4. Ordered(c)'
  BY <1>1, AtWork DEF Ordered, Waiting, SameTask, RestoreLock, At
<1>5. Basis'
  BY <1>2, <1>3, <1>4, AtWork, ProceedsKeeps DEF RestoreLock, counts
<1> QED BY <1>1, <1>2, <1>5

(* It lets the lock go, in whatever way.                                    *)
Releases(c) ==
  /\ Ends(c) /\ holder' = Nobody /\ cmd[c].at \in Holding
  /\ backups' \subseteq backups /\ dir' \in Contents /\ faults' \in 0..MaxFaults
  /\ UNCHANGED <<source, entry, preview, daemon, live, ops, crashed, cut>>

LEMMA ReleasesProceeds ==
  ASSUME Basis, NEW c \in Procs, Releases(c)
  PROVE  /\ Proceeds(c) /\ cmd'[c].at \in {"idle", "reload"} /\ Basis'
<1> USE FilesAssumption
<1>1. /\ Moves(c) /\ cmd'[c].at \in {"idle", "reload"} /\ Ordered(c)'
      /\ cmd'[c].at = "reload" => cmd'[c].n = cmd[c].n /\ cmd'[c].op = cmd[c].op
      /\ cmd'[c].at = "idle" => cmd'[c].n = 0
  BY EndsStep DEF Releases, Basis
<1>2. Proceeds(c)
  BY <1>1 DEF Proceeds, Releases
<1>3. Working(c)'
  BY <1>1 DEF Working, Replaced, Holding
<1>4. Basis'
  BY <1>1, <1>2, <1>3, AtWork, ProceedsKeeps DEF Releases
<1> QED BY <1>1, <1>2, <1>4

(* The backup that is put back is the command's own.                        *)
LEMMA RestoredOwn ==
  ASSUME Basis, NEW c \in Procs, cmd[c].at \in Replaced
  PROVE  /\ cmd[c].kept => \E b \in backups : b.n = cmd[c].n /\ Restored(c) = b.of
         /\ ~cmd[c].kept => Restored(c) = dir /\ Own(c) = {}
         /\ Restored(c) \in Contents
<1>1. CASE cmd[c].kept
  <2>1. Own(c) # {}
    BY <1>1 DEF Own, Basis, Replacing, Working
  <2>2. PICK b \in Own(c) : Restored(c) = b.of
    BY <1>1, <2>1 DEF Restored
  <2> QED BY <1>1, <2>2 DEF Own, Basis, FilesTypeOK
<1>2. CASE ~cmd[c].kept
  <2>1. Own(c) = {}
    BY <1>2 DEF Own, Basis, Replacing, Working
  <2> QED BY <1>2, <2>1 DEF Restored, Basis, FilesTypeOK
<1> QED BY <1>1, <1>2

LEMMA ReleaseSteps ==
  ASSUME Basis, NEW c \in Procs,
         SetAsideFails(c) \/ PlaceFails(c) \/ RestoreFiles(c) \/ Clean(c)
  PROVE  Releases(c)
<1> USE FilesAssumption
<1>1. /\ dir \in Contents /\ faults \in 0..MaxFaults /\ backups \ Own(c) \subseteq backups
      /\ Gone \in Contents
  BY AtWork, IdleStep
<1>2. CASE SetAsideFails(c)
  <2>1. Ends(c) /\ cmd[c].at = "aside" /\ faults' \in 0..MaxFaults
    BY <1>1, <1>2, GivesUp DEF SetAsideFails, Release, At, Fault
  <2> QED BY <1>1, <1>2, <2>1 DEF SetAsideFails, Release, Releases, Holding, files
<1>3. CASE PlaceFails(c)
  <2>1. Ends(c) /\ cmd[c].at = "place" /\ faults' \in 0..MaxFaults
    BY <1>1, <1>3, GivesUp DEF PlaceFails, Release, At, Fault
  <2> QED BY <1>1, <1>3, <2>1, RestoredOwn DEF PlaceFails, Release, Releases, Holding, Replaced
<1>4. CASE RestoreFiles(c)
  <2>1. Ends(c) /\ cmd[c].at = "restore"
    BY <1>4, GivesUp DEF RestoreFiles, Release, At
  <2> QED BY <1>1, <1>4, <2>1, RestoredOwn DEF RestoreFiles, Release, Releases, Holding, Replaced, counts
<1>5. CASE Clean(c)
  <2>1. Ends(c) /\ cmd[c].at = "clean" /\ faults' \in 0..MaxFaults
    BY <1>1, <1>5, GivesUp DEF Clean, Release, At, Fault
  <2> QED BY <1>1, <1>5, <2>1 DEF Clean, Release, Releases, Holding
<1> QED BY <1>2, <1>3, <1>4, <1>5

-----------------------------------------------------------------------------
(* Crashes, the daemon, and builds.                                         *)

LEMMA CrashKeeps ==
  ASSUME Basis, NEW c \in Procs, Crash(c)
  PROVE  /\ Basis' /\ Moves(c) /\ cmd'[c].at = "idle"
         /\ holder # Nobody /\ holder' # holder => holder = c
<1> USE FilesAssumption
<1>1. Moves(c) /\ cmd'[c].at = "idle" /\ cmd'[c].n = 0 /\ Ordered(c)'
  BY PutStep, IdleStep, StepTypes DEF Crash, Moves, Ordered, Basis, Waiting
<1>2. \A d \in Procs : d # c => cmd'[d] = cmd[d]
  BY <1>1 DEF Moves
<1>3. /\ holder' = IF holder = c THEN Nobody ELSE holder
      /\ daemon' = IF c = Daemon THEN "down" ELSE daemon
      /\ UNCHANGED <<source, files, preview, live, ops>>
  BY DEF Crash
<1>4. Locked'
  <2>1. (\A d \in Procs : cmd[d].at \in Holding => holder = d)'
    <3>1. \A d \in Procs : cmd[d].at \in Holding => holder = d
      BY DEF Basis, Locked
    <3>2. cmd'[c].at \notin Holding
      BY <1>1 DEF Holding
    <3> QED BY <1>2, <1>3, <3>1, <3>2
  <2>2. (holder \in Commands => cmd[holder].at \in Holding)'
    BY <1>2, <1>3, Distinct DEF Basis, Locked
  <2>3. (holder = Daemon => daemon = "recovering" \/ cmd[Daemon].at \in Holding)'
    BY <1>2, <1>3, Distinct DEF Basis, Locked
  <2>4. (daemon = "recovering" => holder = Daemon)'
    BY <1>3 DEF Basis, Locked
  <2>5. (cmd[Daemon].at # "idle" =>
           daemon = "updating" /\ cmd[Daemon].op = "auto" /\ cmd[Daemon].at \in Holding \cup {"reload"})'
    BY <1>1, <1>2, <1>3, Distinct DEF Basis, Locked
  <2> QED BY <2>1, <2>2, <2>3, <2>4, <2>5 DEF Locked
<1>5. Numbered'
  <2>1. backups' = backups /\ ops' = ops
    BY <1>3 DEF files
  <2>2. (\A d \in Commands : cmd[d].at # "idle" => cmd[d].n \in 1..ops)'
    BY <1>1, <1>2, <2>1, Distinct DEF Basis, Numbered
  <2>3. (\A d, e \in Commands :
           cmd[d].at # "idle" /\ cmd[e].at # "idle" /\ d # e => cmd[d].n # cmd[e].n)'
    BY <1>1, <1>2, <2>1, Distinct DEF Basis, Numbered
  <2>4. (\A d \in Commands : \A b \in backups :
           cmd[d].at \in Waiting \cup {"aside"} => b.n # cmd[d].n)'
    BY <1>1, <1>2, <2>1, Distinct DEF Basis, Numbered, Waiting
  <2>5. (cmd[Daemon].n = 0)'
    BY <1>1, <1>2, Distinct DEF Basis, Numbered
  <2>6. (daemon = "opening" \/ cmd[Daemon].at = "aside" => \A b \in backups : b.n # 0)'
    BY <1>1, <1>2, <1>3, <2>1, Distinct DEF Basis, Numbered
  <2>7. (\A b \in backups : b.n <= ops)' /\ (\A a, b \in backups : a.n = b.n => a = b)'
    BY <2>1 DEF Basis, Numbered
  <2> QED BY <2>2, <2>3, <2>4, <2>5, <2>6, <2>7 DEF Numbered
<1>6. Replacing'
  <2>1. \A d \in Procs : d # c => Working(d)'
    BY <1>2, <1>3 DEF Basis, Replacing, Working, files
  <2>2. Working(c)'
    BY <1>1 DEF Working, Replaced, Holding
  <2> QED BY <2>1, <2>2 DEF Replacing
<1>7. Newer'
  BY <1>1, <1>3, NewerMoves DEF files, Basis, Newer
<1>8. FilesTypeOK'
  <2>1. /\ holder' \in Commands \cup {Daemon, Nobody}
        /\ daemon' \in {"down", "recovering", "opening", "updating", "up"}
    BY <1>3 DEF Basis, FilesTypeOK
  <2>2. faults' \in 0..MaxFaults /\ crashed' \in BOOLEAN /\ cut' \in BOOLEAN
    BY AtWork DEF Crash, Fault
  <2> QED BY <1>1, <1>3, <2>1, <2>2 DEF Basis, FilesTypeOK, Moves, Procs, files
<1> QED BY <1>1, <1>3, <1>4, <1>5, <1>6, <1>7, <1>8 DEF Basis

(* A step of the daemon that leaves commands and files as they are.         *)
Rests ==
  /\ UNCHANGED <<source, files, preview, cmd, ops>>
  /\ live' \in 0..MaxBuild /\ faults' \in 0..MaxFaults /\ crashed' \in BOOLEAN /\ cut' = cut
  /\ daemon' \in {"down", "recovering", "opening", "updating", "up"}
  /\ holder' \in Commands \cup {Daemon, Nobody}
  /\ daemon' # daemon => daemon # "updating" \/ cmd[Daemon].at = "idle"
  /\ \/ holder' = holder /\ daemon' # "recovering" /\ daemon # "recovering"
     \/ holder = Nobody /\ holder' = Daemon /\ daemon' = "recovering"
     \/ holder = Daemon /\ daemon = "recovering" /\ holder' = Nobody /\ daemon' # "recovering"
  /\ daemon' = "opening" => daemon = "opening" \/ backups = {}

LEMMA RestsKeeps ==
  ASSUME Basis, Rests
  PROVE  Basis'
<1> USE FilesAssumption
<1>1. Locked'
  BY Distinct DEF Basis, Locked, Rests, Holding
<1>2. Numbered'
  BY DEF Basis, Numbered, Rests, files
<1>3. Replacing'
  BY DEF Basis, Replacing, Working, Rests, files
<1>4. Newer'
  BY DEF Basis, Newer, Ordered, Rests, files
<1>5. FilesTypeOK'
  BY DEF Basis, FilesTypeOK, Rests, files
<1> QED BY <1>1, <1>2, <1>3, <1>4, <1>5 DEF Basis

LEMMA DaemonRests ==
  ASSUME Basis, Open \/ Recovered \/ AutoFails \/ LoadForTask \/ Stop
  PROVE  Rests
<1> USE FilesAssumption
<1>1. /\ Loaded(0) \in 0..MaxBuild /\ live \in 0..MaxBuild /\ 0 \in 0..MaxBuild
      /\ faults \in 0..MaxFaults /\ crashed \in BOOLEAN
      /\ holder \in Commands \cup {Daemon, Nobody}
      /\ 0 \in 0..MaxFaults
  BY LiveTypes DEF Basis, FilesTypeOK
<1>2. daemon = "recovering" <=> holder = Daemon /\ daemon # "updating"
  BY DEF Basis, Locked, Holding
<1>3. CASE Open
  BY <1>1, <1>3 DEF Open, Rests, Free, counts
<1>4. CASE Recovered
  BY <1>1, <1>2, <1>4 DEF Recovered, Rests
<1>5. CASE AutoFails
  BY <1>1, <1>5 DEF AutoFails, Rests, At, counts
<1>6. CASE LoadForTask
  BY <1>1, <1>6 DEF LoadForTask, Rests, counts
<1>7. CASE Stop
  BY <1>1, <1>7 DEF Stop, Rests, counts
<1> QED BY <1>3, <1>4, <1>5, <1>6, <1>7

LEMMA RecoverBackupKeeps ==
  ASSUME Basis, NEW b \in backups, RecoverBackup(b)
  PROVE  Basis'
<1> USE FilesAssumption
<1>1. /\ \A c \in Procs : cmd[c].at \notin Holding
      /\ b.of \in Contents
  <2>1. holder = Daemon /\ cmd[Daemon].at \notin Holding
    BY DEF RecoverBackup, Basis, Locked, Holding
  <2> QED BY <2>1, Distinct DEF Basis, Locked, FilesTypeOK
<1>2. /\ backups' \subseteq backups /\ dir' \in {dir, b.of}
      /\ UNCHANGED <<source, entry, preview, holder, cmd, daemon, live, counts>>
  BY DEF RecoverBackup
<1>3. Locked'
  BY <1>2 DEF Basis, Locked
<1>4. Numbered'
  BY <1>2 DEF Basis, Numbered, counts
<1>5. Replacing'
  BY <1>1, <1>2 DEF Replacing, Working, Holding, Replaced
<1>6. Newer'
  BY <1>2 DEF Basis, Newer, Ordered
<1>7. FilesTypeOK'
  BY <1>1, <1>2 DEF Basis, FilesTypeOK, counts
<1> QED BY <1>3, <1>4, <1>5, <1>6, <1>7 DEF Basis

LEMMA AutoUpdateTakes ==
  ASSUME Basis, AutoUpdate
  PROVE  Takes(Daemon) /\ Basis'
<1> USE FilesAssumption
<1> DEFINE new == [build |-> source, linked |-> entry.linked]
           r == [Idle EXCEPT !.at = "aside", !.op = "auto", !.new = new, !.locked = new,
                             !.old = entry]
<1>1. /\ daemon = "opening" /\ holder = Nobody /\ holder' = Daemon /\ daemon' = "updating"
      /\ Put(Daemon, r) /\ entry # Gone
      /\ UNCHANGED <<source, files, preview, live, counts>>
  BY DEF AutoUpdate, Free, Outdated
<1>2. new \in Contents /\ new.build = source /\ entry \in Contents
  BY <1>1 DEF Contents, Basis, FilesTypeOK
<1> HIDE DEF new
<1>3. r \in Steps
  BY <1>2, IdleStep DEF Steps, Points, Ops
<1>4. /\ r.at = "aside" /\ r.op = "auto" /\ r.new = new /\ r.locked = new /\ r.old = entry
      /\ r.n = 0
  BY <1>2, IdleStep DEF Steps
<1> HIDE DEF r
<1>5. Moves(Daemon) /\ cmd'[Daemon] = r
  BY <1>1, <1>3, PutStep, StepTypes, Distinct DEF Moves, Basis
<1>6. \A c \in Procs : cmd[c].at \notin Holding
  BY <1>1, Distinct DEF Basis, Locked
<1>7. Takes(Daemon)
  BY <1>1, <1>4, <1>5, <1>6, Distinct DEF Takes, counts
<1>8. \A c \in Procs : c # Daemon => cmd'[c] = cmd[c]
  BY <1>5 DEF Moves
<1>9. Locked'
  BY <1>1, <1>4, <1>5, <1>6, <1>8, Distinct DEF Locked, Holding
<1>10. Numbered'
  <2>1. \A c \in Commands : cmd'[c] = cmd[c]
    BY <1>8, Distinct
  <2> QED BY <1>1, <1>4, <1>5, <2>1 DEF Basis, Numbered, files, counts
<1>11. Replacing'
  <2>1. \A c \in Procs : c # Daemon => Working(c)'
    BY <1>6, <1>8 DEF Working, Replaced, Holding
  <2>2. Working(Daemon)'
    BY <1>1, <1>4, <1>5 DEF Working, Replaced, Holding, files
  <2> QED BY <2>1, <2>2 DEF Replacing
<1>12. Newer'
  <2>1. source \in Nat /\ entry.build <= source
    BY StepTypes, Distinct DEF Basis, Newer
  <2>2. Ordered(Daemon)'
    BY <1>1, <1>2, <1>4, <1>5, <2>1 DEF Ordered, Waiting
  <2> QED BY <1>1, <1>5, <2>2, NewerMoves, Distinct DEF files, Basis, Newer
<1>13. FilesTypeOK'
  BY <1>1, <1>5 DEF Moves, Basis, FilesTypeOK, Procs, files, counts
<1> QED BY <1>7, <1>9, <1>10, <1>11, <1>12, <1>13 DEF Basis

LEMMA LoadPluginsKeeps ==
  ASSUME Basis, LoadPlugins
  PROVE  /\ Basis' /\ Moves(Daemon) /\ cmd[Daemon].at \in {"idle", "reload"} /\ cmd'[Daemon].at = "idle"
         /\ UNCHANGED <<source, files, preview, holder, counts>>
<1> USE FilesAssumption
<1>1. /\ Moves(Daemon) /\ cmd'[Daemon] = Idle
  BY PutStep, IdleStep, StepTypes, Distinct DEF LoadPlugins, Moves, Basis
<1>2. \A c \in Procs : c # Daemon => cmd'[c] = cmd[c]
  BY <1>1 DEF Moves
<1>3. /\ daemon \in {"opening", "updating"} /\ daemon' = "up"
      /\ UNCHANGED <<source, files, preview, holder, counts>> /\ live' = Loaded(0)
  BY DEF LoadPlugins
<1>4. cmd[Daemon].at \in {"idle", "reload"}
  BY DEF LoadPlugins, At, Basis, Locked
<1>5. Locked'
  BY <1>1, <1>2, <1>3, <1>4, IdleStep, Distinct DEF Basis, Locked, Holding
<1>6. Numbered'
  <2>1. \A c \in Commands : cmd'[c] = cmd[c]
    BY <1>2, Distinct
  <2> QED BY <1>1, <1>3, IdleStep, <2>1 DEF Basis, Numbered, files, counts
<1>7. Replacing'
  <2>1. \A c \in Procs : c # Daemon => Working(c)'
    BY <1>2, <1>3 DEF Basis, Replacing, Working, files
  <2>2. Working(Daemon)'
    BY <1>1, IdleStep DEF Working, Replaced, Holding
  <2> QED BY <2>1, <2>2 DEF Replacing
<1>8. Newer'
  <2>1. Ordered(Daemon)'
    BY <1>1, <1>3, IdleStep, StepTypes, Distinct DEF Ordered, Waiting, Basis
  <2> QED BY <1>1, <1>3, <2>1, NewerMoves, Distinct DEF files, Basis, Newer
<1>9. FilesTypeOK'
  BY <1>1, <1>3, LiveTypes DEF Moves, Basis, FilesTypeOK, Procs, files, counts
<1> QED BY <1>1, <1>3, <1>4, <1>5, <1>6, <1>7, <1>8, <1>9, IdleStep DEF Basis

LEMMA BuildKeeps ==
  ASSUME Basis, Build
  PROVE  Basis'
<1> USE FilesAssumption
<1>1. /\ source \in Nat /\ source' = source + 1 /\ source' \in 1..MaxBuild
      /\ UNCHANGED <<files, preview, holder, cmd, daemon, live, counts>>
  BY StepTypes, Distinct DEF Build, Basis, FilesTypeOK
<1>2. Locked' /\ Numbered'
  BY <1>1 DEF Basis, Locked, Numbered, files, counts
<1>3. Replacing'
  BY <1>1 DEF Basis, Replacing, Working, files
<1>4. Newer'
  <2>1. \A c \in Procs : /\ cmd[c].new.build \in Nat /\ cmd[c].locked.build \in Nat
                         /\ cmd[c].old.build \in Nat
    BY StepTypes DEF Basis
  <2>2. \A c \in Procs : Ordered(c)'
    BY <1>1, <2>1 DEF Basis, Newer, Ordered
  <2>3. entry.build \in Nat /\ preview.build \in Nat /\ preview.base \in Nat
    BY StepTypes, Distinct DEF Basis, FilesTypeOK
  <2> QED BY <1>1, <2>2, <2>3 DEF Basis, Newer, files
<1>5. FilesTypeOK'
  BY <1>1 DEF Basis, FilesTypeOK, files, counts
<1> QED BY <1>2, <1>3, <1>4, <1>5 DEF Basis

LEMMA InitBasis ==
  ASSUME FilesInit
  PROVE  Basis
<1> USE FilesAssumption
<1>1. /\ \A c \in Procs : cmd[c] = Idle
      /\ cmd \in [Procs -> Steps]
  BY IdleStep DEF FilesInit, Procs
<1>2. dir \in Contents /\ entry = dir /\ entry.build <= source /\ source = 1
  BY IdleStep DEF FilesInit, Contents
<1>3. FilesTypeOK
  <2>1. preview \in [saved : BOOLEAN, base : 0..MaxBuild, build : 0..MaxBuild]
    BY DEF FilesInit, NoPreview
  <2>2. /\ source \in 1..MaxBuild /\ backups = {} /\ holder = Nobody /\ daemon = "down"
        /\ live \in 0..MaxBuild /\ ops \in 0..MaxOps /\ faults \in 0..MaxFaults
        /\ crashed = FALSE /\ cut = FALSE
    BY DEF FilesInit
  <2>3. dir \in Contents /\ entry \in Contents
    BY <1>2
  <2> HIDE DEF FilesInit
  <2> QED BY <1>1, <2>1, <2>2, <2>3 DEF FilesTypeOK, Procs
<1>4. Locked /\ Numbered
  BY <1>1, IdleStep, Distinct DEF FilesInit, Locked, Numbered, Holding, Waiting
<1>5. Replacing
  BY <1>1, IdleStep DEF Replacing, Working, Replaced, Holding
<1>6. Newer
  BY <1>1, <1>2, IdleStep DEF FilesInit, Newer, Ordered, NoPreview, Waiting
<1> QED BY <1>3, <1>4, <1>5, <1>6 DEF Basis

-----------------------------------------------------------------------------
(* All steps, and the theorems that hold whatever fails.                    *)

LEMMA DaemonCommands ==
  ASSUME Basis, NEW c \in Procs,
         c \notin Commands
  PROVE  /\ c = Daemon /\ cmd[c].at \notin Waiting
         /\ ~PreviewUpdate(c) /\ ~UseSavedPreview(c) /\ ~Uninstall(c) /\ ~Reload(c)
         /\ ~(\E linked \in Forms : Install(c, linked))
BY DEF Procs, Basis, Locked, Waiting, Holding, PreviewUpdate, UseSavedPreview, Uninstall, Reload,
       Install, Begin

(* What a step is to the invariants.                                        *)
Kinds ==
  \/ \E c \in Commands : Outside(c) /\ faults' >= faults /\ source' = source
  \/ \E c \in Commands : Takes(c) /\ source' = source
  \/ AutoUpdate
  \/ \E c \in Procs :
       \/ SetAside(c) \/ SetAsideFails(c) \/ Place(c) \/ PlaceFails(c) \/ Save(c) \/ SaveFails(c)
       \/ RestoreLock(c) \/ RestoreFiles(c) \/ Clean(c) \/ Crash(c)
  \/ Open \/ (\E b \in backups : RecoverBackup(b)) \/ Recovered
  \/ AutoFails \/ LoadPlugins \/ LoadForTask \/ Stop \/ Build
  \/ UNCHANGED plugin

LEMMA StepKinds ==
  ASSUME Basis, [FilesNext]_plugin
  PROVE  Basis' /\ Kinds
<1> USE FilesAssumption
<1>0. faults \in Nat
  BY AtWork, Distinct
<1>1. CASE UNCHANGED plugin
  <2>1. UNCHANGED <<source, dir, backups, entry, preview, holder, cmd, daemon, live,
                    ops, faults, crashed, cut>>
    BY <1>1 DEF plugin, files, counts
  <2> QED BY <1>1, <2>1 DEF Kinds, Basis, FilesTypeOK, Locked, Numbered, Replacing, Working,
                            Newer, Ordered
<1>2. ASSUME NEW c \in Procs, Command(c) PROVE Basis' /\ Kinds
  <2>1. CASE c \in Commands /\ \/ PreviewUpdate(c) \/ UseSavedPreview(c) \/ Uninstall(c)
                               \/ Decline(c) \/ UnloadFails(c) \/ LockHeld(c) \/ Reload(c)
                               \/ TakeSnapshot(c) \/ Unload(c)
    <3>1. Apart(c)
      BY <2>1, PreviewUpdateApart, DeclineApart, TakeSnapshotApart, UnloadApart
    <3>2. faults' >= faults
      BY <1>0, <2>1 DEF PreviewUpdate, UseSavedPreview, Uninstall, Decline, UnloadFails, LockHeld,
                        Reload, TakeSnapshot, Unload, counts, Fault
    <3> QED BY <2>1, <3>1, <3>2, ApartKeeps DEF Apart, Kinds
  <2>2. CASE c \in Commands /\ \E linked \in Forms : Install(c, linked)
    <3>1. PICK linked \in Forms : Install(c, linked)
      BY <2>2
    <3> QED BY <2>2, <3>1, InstallTakes DEF Kinds, Install
  <2>3. CASE c \in Commands /\ Apply(c)
    <3>1. (Takes(c) \/ Outside(c)) /\ Basis'
      BY <2>3, ApplyTries DEF Tries
    <3>2. source' = source /\ faults' >= faults
      BY <1>0, <2>3 DEF Apply, counts
    <3> QED BY <2>3, <3>1, <3>2 DEF Kinds
  <2>4. CASE c \in Commands /\ TakeOut(c)
    <3>1. (Takes(c) \/ Outside(c)) /\ Basis'
      BY <2>4, TakeOutTries DEF Tries
    <3>2. source' = source /\ faults' >= faults
      BY <1>0, <2>4 DEF TakeOut, counts
    <3> QED BY <2>4, <3>1, <3>2 DEF Kinds
  <2>5. CASE SetAside(c)
    BY <1>2, <2>5, SetAsideProceeds DEF Kinds
  <2>6. CASE Place(c)
    BY <1>2, <2>6, PlaceProceeds DEF Kinds
  <2>7. CASE Save(c)
    BY <1>2, <2>7, SaveProceeds DEF Kinds
  <2>8. CASE SaveFails(c)
    BY <1>2, <2>8, SaveFailsProceeds DEF Kinds
  <2>9. CASE RestoreLock(c)
    BY <1>2, <2>9, RestoreLockProceeds DEF Kinds
  <2>10. CASE SetAsideFails(c) \/ PlaceFails(c) \/ RestoreFiles(c) \/ Clean(c)
    <3>1. Basis'
      BY <1>2, <2>10, ReleaseSteps, ReleasesProceeds
    <3> QED BY <1>2, <2>10, <3>1 DEF Kinds
  <2>11. CASE Crash(c)
    BY <1>2, <2>11, CrashKeeps DEF Kinds
  <2>12. c \notin Commands => ~(\/ PreviewUpdate(c) \/ UseSavedPreview(c) \/ Uninstall(c)
                                \/ Decline(c) \/ UnloadFails(c) \/ LockHeld(c) \/ Reload(c)
                                \/ TakeSnapshot(c) \/ Unload(c) \/ Apply(c) \/ TakeOut(c)
                                \/ \E linked \in Forms : Install(c, linked))
    <3> SUFFICES ASSUME c \notin Commands
                 PROVE  ~(\/ PreviewUpdate(c) \/ UseSavedPreview(c) \/ Uninstall(c)
                          \/ Decline(c) \/ UnloadFails(c) \/ LockHeld(c) \/ Reload(c)
                          \/ TakeSnapshot(c) \/ Unload(c) \/ Apply(c) \/ TakeOut(c)
                          \/ \E linked \in Forms : Install(c, linked))
      OBVIOUS
    <3>1. /\ cmd[c].at \notin Waiting
          /\ ~PreviewUpdate(c) /\ ~UseSavedPreview(c) /\ ~Uninstall(c) /\ ~Reload(c)
          /\ ~(\E linked \in Forms : Install(c, linked))
      BY <1>2, DaemonCommands
    <3>2. ~Decline(c) /\ ~UnloadFails(c) /\ ~LockHeld(c) /\ ~TakeSnapshot(c) /\ ~Unload(c)
      BY <3>1 DEF Decline, UnloadFails, LockHeld, TakeSnapshot, Unload, At, Waiting
    <3>3. ~Apply(c) /\ ~TakeOut(c)
      BY <3>1 DEF Apply, TakeOut, At, Waiting
    <3> QED BY <3>1, <3>2, <3>3
  <2> QED BY <1>2, <2>1, <2>2, <2>3, <2>4, <2>5, <2>6, <2>7, <2>8, <2>9, <2>10, <2>11, <2>12
          DEF Command
<1>3. CASE Open \/ Recovered \/ AutoFails \/ LoadForTask \/ Stop
  BY <1>3, DaemonRests, RestsKeeps DEF Kinds
<1>4. CASE \E b \in backups : RecoverBackup(b)
  BY <1>4, RecoverBackupKeeps DEF Kinds
<1>5. CASE AutoUpdate
  BY <1>5, AutoUpdateTakes DEF Kinds
<1>6. CASE LoadPlugins
  BY <1>6, LoadPluginsKeeps DEF Kinds
<1>7. CASE Build
  BY <1>7, BuildKeeps DEF Kinds
<1> QED BY <1>1, <1>2, <1>3, <1>4, <1>5, <1>6, <1>7 DEF FilesNext, Procs

LEMMA BasisHolds == FilesSpec => []Basis
<1>1. FilesInit => Basis
  BY InitBasis
<1>2. Basis /\ [FilesNext]_plugin => Basis'
  BY StepKinds
<1> QED BY <1>1, <1>2, PTL DEF FilesSpec

(* An update brings no older build than the one installed, however many     *)
(* commands install, update, preview and remove beside it, and whatever     *)
(* fails or dies: what it is about to save was compared with the lock under *)
(* .plugins.lock, which it has held since.                                  *)
THEOREM UpdatesNeverOlder == FilesSpec => NeverOlder
<1>1. Basis /\ [FilesNext]_plugin =>
        [\A c \in Commands \cup {Daemon} :
           cmd[c].op \in {"update", "auto"} /\ At(c, "save") => entry'.build >= entry.build]_plugin
  <2> SUFFICES ASSUME Basis, [FilesNext]_plugin, NEW c \in Procs,
                      cmd[c].op \in {"update", "auto"}, cmd[c].at = "save"
               PROVE  entry'.build >= entry.build
    BY DEF Procs, At
  <2>1. Kinds
    BY StepKinds
  <2>2. /\ cmd[c].at \in Holding /\ cmd[c].old = entry /\ cmd[c].old.build <= cmd[c].locked.build
        /\ entry.build \in Nat /\ cmd[c].locked.build \in Nat
    BY StepTypes DEF Holding, Basis, Replacing, Working, Newer, Ordered
  <2>3. /\ holder = c /\ holder # Nobody
        /\ \A d \in Procs : d # c => cmd[d].at \notin Holding
    BY <2>2, HolderAlone DEF Basis
  <2>4. CASE \E d \in Procs : Save(d) \/ SaveFails(d) \/ RestoreLock(d)
    <3>1. PICK d \in Procs : Save(d) \/ SaveFails(d) \/ RestoreLock(d)
      BY <2>4
    <3>2. d = c
      BY <2>3, <3>1 DEF Save, SaveFails, RestoreLock, At, Holding
    <3>3. entry' \in {entry, cmd[c].locked}
      BY <3>1, <3>2 DEF Save, SaveFails, RestoreLock, At
    <3> QED BY <2>2, <3>3
  <2>5. CASE ~\E d \in Procs : Save(d) \/ SaveFails(d) \/ RestoreLock(d)
    <3>1. entry' = entry
      <4>1. CASE \E d \in Procs : \/ SetAside(d) \/ SetAsideFails(d) \/ Place(d) \/ PlaceFails(d)
                                  \/ RestoreFiles(d) \/ Clean(d) \/ Crash(d)
        BY <4>1 DEF SetAside, SetAsideFails, Place, PlaceFails, RestoreFiles, Clean, Crash, files
      <4>2. CASE (\E d \in Commands : Outside(d) \/ Takes(d)) \/ UNCHANGED plugin
        BY <4>2 DEF Outside, Takes, plugin, files
      <4>3. CASE \/ AutoUpdate \/ Open \/ (\E b \in backups : RecoverBackup(b)) \/ Recovered
                 \/ AutoFails \/ LoadPlugins \/ LoadForTask \/ Stop \/ Build
        BY <4>3 DEF AutoUpdate, Open, RecoverBackup, Recovered, AutoFails, LoadPlugins,
                    LoadForTask, Stop, Build, files
      <4> QED BY <2>1, <2>5, <4>1, <4>2, <4>3 DEF Kinds
    <3> QED BY <2>2, <3>1
  <2> QED BY <2>4, <2>5
<1> QED BY <1>1, BasisHolds, PTL DEF FilesSpec, NeverOlder

-----------------------------------------------------------------------------
(* The files of the lock.                                                   *)

LEMMA BackupBuilds ==
  ASSUME FilesTypeOK
  PROVE  /\ \A b \in backups : b.of \in Contents /\ b.of.build # 0 /\ b.of # Gone
         /\ \A d \in Contents : d.build = 0 <=> d = Gone
<1> USE FilesAssumption
<1>1. \A d \in Contents : d.build = 0 <=> d = Gone
  BY DEF Contents, Gone
<1> QED BY <1>1 DEF FilesTypeOK

(* Nobody but the holder has replaced anything.                             *)
LEMMA HolderReturns ==
  ASSUME Basis, NEW c \in Procs, Proceeds(c),
         cmd'[c].at \in Replaced => Returnable(c)',
         cmd'[c].at \notin Replaced \cup {"clean"} =>
           (dir.build = entry.build \/ (crashed /\ dir = Gone /\ Held(entry.build)))'
  PROVE  Undisturbed'
<1>1. \A d \in Procs : d # c => cmd'[d].at \notin Replaced
  BY HolderAlone DEF Proceeds, Moves, Basis, Holding, Replaced
<1> QED BY <1>1 DEF Undisturbed, Settled

LEMMA AsideSettled ==
  ASSUME Basis, NEW c \in Procs, cmd[c].at = "aside"
  PROVE  Settled
BY HolderAlone DEF Basis, Settled, Holding, Replaced

LEMMA SetAsideReturns ==
  ASSUME Basis, Undisturbed, NEW c \in Procs, SetAside(c)
  PROVE  Undisturbed'
<1>1. /\ Proceeds(c) /\ SameTask(c)
      /\ cmd'[c].at \in {"place", "save"} /\ cmd'[c].kept = (dir # Gone)
  BY SetAsideProceeds
<1>2. cmd[c].at = "aside" /\ cmd[c].old = entry
  BY AtWork DEF SetAside, At, Working
<1>3. dir.build = entry.build \/ (crashed /\ dir = Gone /\ Held(entry.build))
  BY <1>2, AsideSettled DEF Undisturbed
<1>4. \A b \in backups : b.n # cmd[c].n
  BY <1>2 DEF Basis, Numbered, Procs
<1>5. Returnable(c)'
  <2>1. CASE dir # Gone
    <3>1. \A b \in backups' : b.n = cmd[c].n => b.of = dir
      BY <1>4, <2>1 DEF SetAside
    <3> QED BY <1>1, <1>2, <1>3, <2>1, <3>1 DEF Returnable, SameTask
  <2>2. CASE dir = Gone
    <3>1. backups' = backups /\ crashed' = crashed
      BY <2>2 DEF SetAside, counts
    <3>2. entry.build = 0 \/ (crashed /\ Held(entry.build))
      BY <1>3, <2>2, IdleStep
    <3> QED BY <1>1, <1>2, <2>2, <3>1, <3>2 DEF Returnable, SameTask, Held
  <2> QED BY <2>1, <2>2
<1> QED BY <1>1, <1>5, HolderReturns DEF Replaced

LEMMA KeepsReturnable ==
  ASSUME Basis, Undisturbed, NEW c \in Procs, Place(c) \/ SaveFails(c) \/ RestoreLock(c)
  PROVE  Undisturbed'
<1>1. /\ Proceeds(c) /\ SameTask(c) /\ cmd'[c].kept = cmd[c].kept
      /\ cmd'[c].at \in Replaced /\ cmd[c].at \in Replaced
  BY PlaceProceeds, SaveFailsProceeds, RestoreLockProceeds
     DEF Replaced, Place, SaveFails, RestoreLock, At
<1>2. backups' = backups /\ crashed' = crashed
  BY DEF Place, SaveFails, RestoreLock, counts
<1>3. Returnable(c)
  BY <1>1 DEF Undisturbed
<1>4. Returnable(c)'
  BY <1>1, <1>2, <1>3 DEF Returnable, SameTask, Held
<1> QED BY <1>1, <1>4, HolderReturns DEF Replaced

LEMMA SaveReturns ==
  ASSUME Basis, NEW c \in Procs, Save(c)
  PROVE  Undisturbed'
BY SaveProceeds, HolderReturns DEF Replaced

LEMMA ReleaseReturns ==
  ASSUME Basis, Undisturbed, NEW c \in Procs,
         SetAsideFails(c) \/ PlaceFails(c) \/ RestoreFiles(c) \/ Clean(c)
  PROVE  Undisturbed'
<1>1. Releases(c) /\ Proceeds(c) /\ cmd'[c].at \in {"idle", "reload"}
  BY ReleaseSteps, ReleasesProceeds
<1>2. entry' = entry /\ crashed' = crashed
  BY <1>1 DEF Releases
<1>3. (dir.build = entry.build \/ (crashed /\ dir = Gone /\ Held(entry.build)))'
  <2>1. CASE SetAsideFails(c)
    <3>1. Settled
      BY <2>1, AsideSettled DEF SetAsideFails, At
    <3> QED BY <1>2, <2>1, <3>1 DEF SetAsideFails, files, Undisturbed, Held
  <2>2. CASE Clean(c)
    <3>1. dir.build = entry.build
      BY <2>2, AtWork DEF Clean, At, Working
    <3> QED BY <1>2, <2>2, <3>1 DEF Clean
  <2>3. CASE PlaceFails(c) \/ RestoreFiles(c)
    <3>1. /\ cmd[c].at \in Replaced /\ cmd[c].old = entry /\ Returnable(c)
          /\ cmd[c].at = "place" => dir = Gone
      BY <2>3, AtWork DEF PlaceFails, RestoreFiles, At, Working, Undisturbed, Replaced
    <3>2. CASE cmd[c].kept
      <4>1. dir' = Restored(c)
        BY <2>3, <3>2 DEF PlaceFails, RestoreFiles
      <4>2. Restored(c).build = entry.build
        BY <3>1, <3>2, RestoredOwn DEF Returnable
      <4> QED BY <1>2, <4>1, <4>2
    <3>3. CASE ~cmd[c].kept
      <4>1. dir' = Gone /\ backups' = backups
        BY <2>3, <3>1, <3>3, RestoredOwn DEF PlaceFails, RestoreFiles, At
      <4> QED BY <1>2, <3>1, <3>3, <4>1, IdleStep DEF Returnable, Held
    <3> QED BY <3>2, <3>3
  <2> QED BY <2>1, <2>2, <2>3
<1> QED BY <1>1, <1>3, HolderReturns DEF Replaced

LEMMA CrashReturns ==
  ASSUME Basis, Undisturbed, NEW c \in Procs, Crash(c), ~cut'
  PROVE  Undisturbed'
<1>1. Moves(c) /\ cmd'[c].at = "idle"
  BY CrashKeeps
<1>2. /\ UNCHANGED <<dir, backups, entry>> /\ crashed' = (crashed \/ holder = c)
      /\ cmd[c].at \in {"save", "unlock", "restore"} => dir = Gone
  BY DEF Crash, files
<1>3. \A d \in Procs : cmd'[d].at \in Replaced => d # c /\ cmd'[d] = cmd[d]
  BY <1>1 DEF Moves, Replaced
<1>4. \A d \in Procs : cmd'[d].at \in Replaced => Returnable(d)'
  <2> SUFFICES ASSUME NEW d \in Procs, cmd'[d].at \in Replaced
               PROVE  Returnable(d)'
    OBVIOUS
  <2>1. cmd'[d] = cmd[d] /\ Returnable(d)
    BY <1>3 DEF Undisturbed
  <2> QED BY <1>2, <2>1 DEF Returnable, Held
<1>5. CASE cmd[c].at \notin Replaced \cup {"clean"}
  <2>1. Settled' => Settled
    BY <1>1, <1>5 DEF Settled, Moves
  <2> QED BY <1>2, <1>4, <2>1 DEF Undisturbed, Held
<1>6. CASE cmd[c].at = "clean"
  <2>1. dir.build = entry.build
    BY <1>6, AtWork DEF Working
  <2> QED BY <1>2, <1>4, <2>1 DEF Undisturbed
<1>7. CASE cmd[c].at \in Replaced
  <2>1. /\ dir = Gone /\ crashed' /\ Returnable(c)
        /\ entry = cmd[c].old \/ (cmd[c].at = "unlock" /\ entry = cmd[c].locked)
        /\ cmd[c].at = "unlock" => dir.build = cmd[c].locked.build
    BY <1>2, <1>7, AtWork, HolderAlone DEF Working, Undisturbed, Replaced, Holding, Basis
  <2>2. CASE entry = cmd[c].locked /\ cmd[c].at = "unlock"
    BY <1>2, <1>4, <2>1, <2>2 DEF Undisturbed
  <2>3. CASE entry = cmd[c].old
    <3>1. cmd[c].kept => Held(entry.build)
      BY <1>7, <2>1, <2>3, AtWork DEF Returnable, Held, Working
    <3>2. ~cmd[c].kept => entry.build = 0 \/ Held(entry.build)
      BY <2>1, <2>3 DEF Returnable
    <3>3. dir.build = entry.build \/ Held(entry.build)
      BY <2>1, <3>1, <3>2, IdleStep, AtWork
    <3> QED BY <1>2, <1>4, <2>1, <3>3 DEF Undisturbed, Held
  <2> QED BY <2>1, <2>2, <2>3
<1> QED BY <1>5, <1>6, <1>7

LEMMA RecoverReturns ==
  ASSUME Basis, Undisturbed, OneToRestore, NEW b \in backups, RecoverBackup(b)
  PROVE  Undisturbed'
<1>1. /\ daemon = "recovering" /\ backups' = backups \ {b}
      /\ dir' = IF entry # Gone /\ dir = Gone THEN b.of ELSE dir
      /\ UNCHANGED <<entry, cmd, crashed>>
  BY DEF RecoverBackup, counts
<1>2. \A c \in Procs : cmd[c].at \notin Holding
  <2>1. holder = Daemon /\ cmd[Daemon].at \notin Holding
    BY <1>1 DEF Basis, Locked, Holding
  <2> QED BY <2>1, Distinct DEF Basis, Locked
<1>3. Settled /\ \A c \in Procs : cmd'[c].at \notin Replaced
  BY <1>1, <1>2 DEF Settled, Holding, Replaced
<1>4. dir.build = entry.build \/ (crashed /\ dir = Gone /\ Held(entry.build))
  BY <1>3 DEF Undisturbed
<1>5. dir'.build = entry.build
  <2>1. /\ dir \in Contents /\ entry \in Contents
        /\ \A d \in Contents : d.build = 0 <=> d = Gone
        /\ \A a \in backups : a.of.build # 0
    BY AtWork, BackupBuilds, Distinct
  <2>2. CASE entry # Gone /\ dir = Gone
    <3>1. Held(entry.build)
      BY <1>4, <2>1, <2>2
    <3>2. \A a \in backups : a = b
      BY <1>1, <2>2 DEF OneToRestore
    <3> QED BY <1>1, <2>2, <3>1, <3>2 DEF Held
  <2>3. CASE ~(entry # Gone /\ dir = Gone)
    BY <1>1, <1>4, <2>1, <2>3 DEF Held
  <2> QED BY <2>2, <2>3
<1> QED BY <1>1, <1>3, <1>5 DEF Undisturbed

LEMMA DaemonReturns ==
  ASSUME Basis, Undisturbed,
         \/ Open \/ Recovered \/ AutoFails \/ LoadPlugins \/ LoadForTask \/ Stop \/ Build
         \/ UNCHANGED plugin
  PROVE  Undisturbed'
<1>1. CASE LoadPlugins
  <2>1. /\ Moves(Daemon) /\ cmd[Daemon].at \in {"idle", "reload"} /\ cmd'[Daemon].at = "idle"
        /\ UNCHANGED <<dir, backups, entry, crashed>>
    BY <1>1, LoadPluginsKeeps DEF files, counts
  <2>2. Settled <=> Settled'
    BY <2>1 DEF Settled, Moves, Replaced
  <2>3. \A d \in Procs : cmd'[d].at \in Replaced => cmd[d] = cmd'[d]
    BY <2>1 DEF Moves, Replaced
  <2> QED BY <2>1, <2>2, <2>3 DEF Undisturbed, Returnable, Held
<1>2. CASE Recovered
  <2>1. backups = {} /\ UNCHANGED <<dir, entry, cmd>> /\ daemon = "recovering"
    BY <1>2 DEF Recovered, files
  <2>2. \A c \in Procs : cmd[c].at \notin Holding
    <3>1. holder = Daemon /\ cmd[Daemon].at \notin Holding
      BY <2>1 DEF Basis, Locked, Holding
    <3> QED BY <3>1, Distinct DEF Basis, Locked
  <2>3. Settled /\ \A c \in Procs : cmd'[c].at \notin Replaced
    BY <2>1, <2>2 DEF Settled, Holding, Replaced
  <2> QED BY <2>1, <2>3 DEF Undisturbed, Held
<1>3. CASE Open \/ AutoFails \/ LoadForTask \/ Stop \/ Build \/ UNCHANGED plugin
  <2>1. UNCHANGED <<dir, backups, entry, cmd, crashed>>
    BY <1>3 DEF Open, AutoFails, LoadForTask, Stop, Build, plugin, files, counts
  <2> QED BY <2>1 DEF Undisturbed, Settled, Returnable, Held
<1> QED BY <1>1, <1>2, <1>3

LEMMA StepReturns ==
  ASSUME Basis, OneToRestore, ~cut => Undisturbed, [FilesNext]_plugin, ~cut'
  PROVE  Undisturbed'
<1>1. Kinds
  BY StepKinds
<1>2. CASE \E c \in Procs : Save(c)
  BY <1>2, SaveReturns
<1>3. CASE ~\E c \in Procs : Save(c)
  <2>1. ~cut
    BY <1>1, <1>3 DEF Kinds, Outside, Takes, AutoUpdate, SetAside, SetAsideFails, Place,
       PlaceFails, SaveFails, RestoreLock, RestoreFiles, Clean, Crash, Open, RecoverBackup,
       Recovered, AutoFails, LoadPlugins, LoadForTask, Stop, Build, plugin, counts
  <2>2. Undisturbed
    BY <2>1
  <2>3. CASE \E c \in Commands : Outside(c)
    BY <2>2, <2>3, OutsideReturns
  <2>4. CASE (\E c \in Commands : Takes(c)) \/ AutoUpdate
    BY <2>2, <2>4, TakesReturns, AutoUpdateTakes, Distinct
  <2>5. CASE \E c \in Procs :
               \/ SetAside(c) \/ SetAsideFails(c) \/ Place(c) \/ PlaceFails(c) \/ SaveFails(c)
               \/ RestoreLock(c) \/ RestoreFiles(c) \/ Clean(c) \/ Crash(c)
    BY <2>2, <2>5, SetAsideReturns, ReleaseReturns, KeepsReturnable, CrashReturns
  <2>6. CASE \E b \in backups : RecoverBackup(b)
    BY <2>2, <2>6, RecoverReturns
  <2>7. CASE \/ Open \/ Recovered \/ AutoFails \/ LoadPlugins \/ LoadForTask \/ Stop \/ Build
             \/ UNCHANGED plugin
    BY <2>2, <2>7, DaemonReturns
  <2> QED BY <1>1, <1>3, <2>3, <2>4, <2>5, <2>6, <2>7 DEF Kinds
<1> QED BY <1>2, <1>3

LEMMA Installed ==
  ASSUME Basis, ~cut => Undisturbed
  PROVE  InstalledAsLocked
<1> SUFFICES ASSUME holder = Nobody, ~crashed, ~cut PROVE dir.build = entry.build
  BY DEF InstalledAsLocked, Free
<1>1. \A c \in Procs : cmd[c].at \notin Holding
  BY Distinct DEF Basis, Locked
<1>2. Settled
  BY <1>1 DEF Settled, Replaced, Holding
<1> QED BY <1>2 DEF Undisturbed

(* With no command at work and the last crash repaired, the files that are  *)
(* installed are those of the build in the lock, except after the one crash *)
(* that the run excludes too, for any number of commands, builds, failing   *)
(* calls and crashes, as long as recover_plugins never finds two backups of *)
(* a plugin whose directory is missing: with two it puts back the one that  *)
(* read_dir names first.                                                    *)
THEOREM InstalledWhereOneIsLeft ==
  FilesSpec /\ []OneToRestore => []InstalledAsLocked
<1> DEFINE Good == ~cut => Undisturbed
<1>1. FilesInit => Good
  BY IdleStep DEF FilesInit, Undisturbed, Settled, Procs, Replaced
<1>2. Basis /\ OneToRestore /\ Good /\ [FilesNext]_plugin => Good'
  BY StepReturns
<1>3. Basis /\ Good => InstalledAsLocked
  BY Installed
<1> HIDE DEF Good
<1> QED BY <1>1, <1>2, <1>3, BasisHolds, PTL DEF FilesSpec

-----------------------------------------------------------------------------
(* One fault between two recoveries leaves one backup at most.              *)

LEMMA NobodyAtWork ==
  ASSUME Basis, OneFault, faults = 0, \A c \in Procs : cmd[c].at \notin {"place", "save", "clean"}
  PROVE  backups = {}
BY DEF OneFault

(* A backup that is there before the first fault is the holder's.           *)
LEMMA HoldersBackup ==
  ASSUME Basis, OneFault, faults = 0, NEW c \in Procs, cmd[c].at \in Holding
  PROVE  \A b \in backups : b.n = cmd[c].n /\ backups = {b}
<1>1. \A b \in backups : b.n = cmd[c].n
  BY HolderAlone DEF OneFault, Basis, Holding
<1> QED BY <1>1 DEF Basis, Numbered

LEMMA HolderOneFault ==
  ASSUME Basis, OneFault, NEW c \in Procs, Proceeds(c),
         faults' # 0 \/ (\A b \in backups' : cmd'[c].at \in {"place", "save", "clean"} /\ b.n = cmd'[c].n),
         faults' \in Nat, faults = 0 \/ faults' # 0,
         cmd'[c].at \in {"unlock", "restore"} => faults' # 0 /\ ~crashed',
         cmd'[c].at \in Replaced /\ ~cmd'[c].kept /\ cmd'[c].old # Gone => crashed',
         cmd'[c].at \notin Replaced \cup {"clean"} => dir' # Gone \/ entry' = Gone \/
           (crashed' /\ \E b \in backups' : backups' = {b})
  PROVE  OneFault'
<1>1. \A d \in Procs : d # c => cmd'[d].at \notin Holding
  BY HolderAlone DEF Proceeds, Moves, Basis
<1>2. crashed' = crashed
  BY DEF Proceeds
<1>3. crashed' => faults' # 0
  BY <1>2 DEF OneFault
<1> QED BY <1>1, <1>3 DEF OneFault, Settled, Replaced, Holding

LEMMA AsideOneFault ==
  ASSUME Basis, OneFault, NEW c \in Procs, SetAside(c)
  PROVE  OneFault'
<1>1. /\ Proceeds(c) /\ SameTask(c)
      /\ cmd'[c].at \in {"place", "save"} /\ cmd'[c].kept = (dir # Gone)
  BY SetAsideProceeds
<1>2. cmd[c].at = "aside" /\ cmd[c].old = entry /\ faults' = faults /\ faults \in Nat
  BY AtWork DEF SetAside, At, Working, counts
<1>3. faults = 0 => backups = {}
  <2>1. \A d \in Procs : cmd[d].at \notin {"place", "save", "clean"}
    BY <1>2, HolderAlone DEF Basis, Holding
  <2> QED BY <2>1, NobodyAtWork
<1>4. faults' # 0 \/ (\A b \in backups' : cmd'[c].at \in {"place", "save", "clean"} /\ b.n = cmd'[c].n)
  BY <1>1, <1>2, <1>3 DEF SetAside, SameTask
<1>5. cmd'[c].at \in Replaced /\ ~cmd'[c].kept /\ cmd'[c].old # Gone => crashed'
  BY <1>1, <1>2, AsideSettled DEF OneFault, SameTask, Proceeds
<1> QED BY <1>1, <1>2, <1>4, <1>5, HolderOneFault DEF Replaced

LEMMA ReplacingOneFault ==
  ASSUME Basis, OneFault, NEW c \in Procs,
         Place(c) \/ Save(c) \/ SaveFails(c) \/ RestoreLock(c), MaxFaults <= 1
  PROVE  OneFault'
<1>1. /\ Proceeds(c) /\ SameTask(c) /\ cmd'[c].kept = cmd[c].kept
      /\ cmd'[c].at \in {"save", "clean", "unlock", "restore"}
      /\ cmd[c].at \in Replaced /\ cmd[c].at \in Holding
  BY PlaceProceeds, SaveProceeds, SaveFailsProceeds, RestoreLockProceeds
     DEF Replaced, Holding, Place, Save, SaveFails, RestoreLock, At
<1>2. /\ backups' = backups /\ crashed' = crashed /\ faults \in Nat /\ faults' \in Nat
      /\ faults' = faults \/ faults' # 0
  BY AtWork, FilesAssumption DEF Place, Save, SaveFails, RestoreLock, Fault, counts
<1>3. cmd[c].at \in Replaced /\ ~cmd[c].kept /\ cmd[c].old # Gone => crashed
  BY DEF OneFault
<1>6. cmd'[c].at \in Replaced \cup {"clean"}
  BY <1>1 DEF Replaced
<1>7. ~cmd'[c].kept /\ cmd'[c].old # Gone => crashed'
  BY <1>1, <1>2, <1>3 DEF SameTask
<1>4. CASE Place(c) \/ Save(c)
  <2>1. faults' = faults /\ cmd'[c].at \in {"save", "clean"}
    BY <1>4, PlaceProceeds, SaveProceeds DEF Place, Save, counts
  <2>2. faults' # 0 \/ (\A b \in backups' : cmd'[c].at \in {"place", "save", "clean"} /\ b.n = cmd'[c].n)
    BY <1>1, <1>2, <2>1, HoldersBackup DEF SameTask
  <2>3. cmd'[c].at \notin {"unlock", "restore"}
    BY <2>1
  <2> QED BY <1>1, <1>2, <1>6, <1>7, <2>1, <2>2, <2>3, HolderOneFault
<1>5. CASE SaveFails(c) \/ RestoreLock(c)
  <2>1. faults' # 0 /\ ~crashed /\ cmd'[c].at \in {"unlock", "restore"}
    <3>1. CASE SaveFails(c)
      BY <1>2, <3>1, SaveFailsProceeds, AtWork, FilesAssumption DEF SaveFails, Fault, OneFault
    <3>2. CASE RestoreLock(c)
      BY <3>2, RestoreLockProceeds DEF RestoreLock, At, OneFault, counts
    <3> QED BY <1>5, <3>1, <3>2
  <2> QED BY <1>1, <1>2, <1>6, <1>7, <2>1, HolderOneFault
<1> QED BY <1>4, <1>5

LEMMA ReleaseOneFault ==
  ASSUME Basis, OneFault, NEW c \in Procs, MaxFaults <= 1,
         SetAsideFails(c) \/ PlaceFails(c) \/ RestoreFiles(c) \/ Clean(c)
  PROVE  OneFault'
<1> USE FilesAssumption
<1>1. Releases(c) /\ Proceeds(c) /\ cmd'[c].at \in {"idle", "reload"}
  BY ReleaseSteps, ReleasesProceeds
<1>2. /\ entry' = entry /\ crashed' = crashed /\ faults \in Nat /\ faults' \in Nat
      /\ cmd[c].at \in Holding
  BY <1>1, AtWork DEF Releases
<1>3. faults = 0 \/ faults' # 0
  BY <1>2 DEF SetAsideFails, PlaceFails, RestoreFiles, Clean, Fault, counts
<1>4. faults' # 0 \/ (\A b \in backups' : cmd'[c].at \in {"place", "save", "clean"} /\ b.n = cmd'[c].n)
  <2>1. CASE RestoreFiles(c)
    BY <2>1 DEF RestoreFiles, At, OneFault, counts
  <2>2. CASE SetAsideFails(c) \/ PlaceFails(c)
    BY <1>2, <2>2 DEF SetAsideFails, PlaceFails, Fault
  <2>3. CASE Clean(c)
    <3>1. CASE faults' = faults /\ backups' = backups \ Own(c)
      <4>1. faults = 0 => backups' = {}
        BY <1>2, <3>1, HoldersBackup DEF Own
      <4> QED BY <3>1, <4>1
    <3>2. CASE Fault
      BY <1>2, <3>2 DEF Fault
    <3> QED BY <2>3, <3>1, <3>2 DEF Clean
  <2> QED BY <2>1, <2>2, <2>3
<1>5. dir' # Gone \/ entry' = Gone \/ (crashed' /\ \E b \in backups' : backups' = {b})
  <2>1. CASE SetAsideFails(c)
    <3>1. Settled
      BY <2>1, AsideSettled DEF SetAsideFails, At
    <3> QED BY <1>2, <2>1, <3>1 DEF SetAsideFails, files, OneFault
  <2>2. CASE Clean(c)
    <3>1. dir.build = entry.build
      BY <2>2, AtWork DEF Clean, At, Working
    <3> QED BY <1>2, <2>2, <3>1, AtWork, BackupBuilds DEF Clean
  <2>3. CASE PlaceFails(c) \/ RestoreFiles(c)
    <3>1. /\ cmd[c].at \in Replaced /\ cmd[c].old = entry /\ ~crashed
          /\ cmd[c].at = "place" => dir = Gone
      <4>1. CASE PlaceFails(c)
        BY <1>2, <4>1, AtWork DEF PlaceFails, Fault, At, Working, Replaced, OneFault
      <4>2. CASE RestoreFiles(c)
        BY <4>2, AtWork DEF RestoreFiles, At, Working, Replaced, OneFault
      <4> QED BY <2>3, <4>1, <4>2
    <3>2. CASE cmd[c].kept
      <4>1. dir' = Restored(c)
        BY <2>3, <3>2 DEF PlaceFails, RestoreFiles
      <4>2. Restored(c) # Gone
        BY <3>1, <3>2, RestoredOwn, BackupBuilds, AtWork
      <4> QED BY <4>1, <4>2
    <3>3. CASE ~cmd[c].kept
      BY <1>2, <3>1, <3>3 DEF OneFault
    <3> QED BY <3>2, <3>3
  <2> QED BY <2>1, <2>2, <2>3
<1> QED BY <1>1, <1>2, <1>3, <1>4, <1>5, HolderOneFault DEF Replaced

LEMMA CrashOneFault ==
  ASSUME Basis, OneFault, NEW c \in Procs, Crash(c), MaxFaults <= 1
  PROVE  OneFault'
<1> USE FilesAssumption
<1>1. Moves(c) /\ cmd'[c].at = "idle"
  BY CrashKeeps
<1>2. /\ UNCHANGED <<dir, backups, entry>> /\ crashed' = (crashed \/ holder = c)
      /\ faults = 0 /\ faults' = 1 /\ ~crashed
  BY AtWork DEF Crash, Fault, files, OneFault
<1>3. \A d \in Procs : cmd'[d].at # "idle" => d # c /\ cmd'[d] = cmd[d]
  BY <1>1 DEF Moves
<1>4. \A d \in Procs : cmd[d].at \notin {"unlock", "restore"}
  BY <1>2 DEF OneFault
<1>5. \A d \in Procs : cmd[d].at \in Replaced /\ ~cmd[d].kept => cmd[d].old = Gone
  BY <1>2 DEF OneFault
<1>6. (\A d \in Procs :
         /\ cmd[d].at \in {"unlock", "restore"} => faults # 0 /\ ~crashed
         /\ cmd[d].at \in Replaced /\ ~cmd[d].kept /\ cmd[d].old # Gone => crashed)'
  BY <1>3, <1>4, <1>5 DEF Replaced
<1>7. (Settled /\ dir = Gone /\ entry # Gone => crashed /\ \E b \in backups : backups = {b})'
  <2> SUFFICES ASSUME Settled', dir = Gone, entry # Gone
               PROVE  holder = c /\ \E b \in backups : backups = {b}
    BY <1>2
  <2>1. ~Settled
    BY <1>2 DEF OneFault
  <2>2. cmd[c].at \in Replaced \cup {"clean"}
    BY <1>1, <2>1 DEF Settled, Moves
  <2>3. cmd[c].at # "clean"
    BY AtWork, BackupBuilds DEF Working
  <2>4. cmd[c].at \in {"place", "save"} /\ cmd[c].old = entry
    BY <1>4, <2>2, <2>3, AtWork DEF Replaced, Working
  <2>5. cmd[c].kept /\ \E b \in backups : b.n = cmd[c].n
    BY <1>5, <2>4, AtWork DEF Replaced, Working
  <2>6. cmd[c].at \in Holding
    BY <2>4 DEF Holding
  <2> QED BY <1>2, <2>5, <2>6, HoldersBackup, HolderAlone DEF Basis
<1> QED BY <1>2, <1>6, <1>7 DEF OneFault

LEMMA ApartOneFault ==
  ASSUME Basis, OneFault, NEW c \in Commands, Outside(c), faults' >= faults, faults' \in Nat
  PROVE  OneFault'
<1>1. /\ UNCHANGED <<dir, backups, entry, crashed>> /\ c \in Procs /\ faults \in Nat
      /\ faults' = 0 => faults = 0
  BY AtWork, Distinct DEF Outside, files
<1>2. \A d \in Procs : cmd'[d].at \in Holding \/ cmd[d].at \in Holding => d # c /\ cmd'[d] = cmd[d]
  BY DEF Outside, Moves
<1>3. Settled' => Settled
  BY <1>2 DEF Settled, Holding, Replaced
<1>4. (faults = 0 => \A b \in backups : \E d \in Procs :
                      cmd[d].at \in {"place", "save", "clean"} /\ b.n = cmd[d].n)'
  BY <1>1, <1>2 DEF OneFault, Holding
<1>5. (\A d \in Procs :
         /\ cmd[d].at \in {"unlock", "restore"} => faults # 0 /\ ~crashed
         /\ cmd[d].at \in Replaced /\ ~cmd[d].kept /\ cmd[d].old # Gone => crashed)'
  BY <1>1, <1>2 DEF OneFault, Holding, Replaced
<1> QED BY <1>1, <1>3, <1>4, <1>5 DEF OneFault

LEMMA TakesOneFault ==
  ASSUME Basis, OneFault, NEW c \in Procs, Takes(c)
  PROVE  OneFault'
<1>1. \A d \in Procs : cmd[d].at \notin Holding
  BY Distinct DEF Basis, Locked, Takes
<1>2. Settled /\ \A d \in Procs : cmd'[d].at \notin Replaced
  BY <1>1 DEF Settled, Takes, Moves, Holding, Replaced
<1>3. faults = 0 => backups = {}
  BY <1>1, NobodyAtWork DEF Holding
<1>4. UNCHANGED <<dir, backups, entry, crashed, faults>>
  BY DEF Takes, files
<1> QED BY <1>2, <1>3, <1>4 DEF OneFault, Replaced

LEMMA DaemonOneFault ==
  ASSUME Basis, OneFault,
         \/ Open \/ (\E b \in backups : RecoverBackup(b)) \/ Recovered \/ AutoFails
         \/ LoadPlugins \/ LoadForTask \/ Stop \/ Build \/ UNCHANGED plugin
  PROVE  OneFault'
<1>1. CASE LoadPlugins
  <2>1. /\ Moves(Daemon) /\ cmd[Daemon].at \in {"idle", "reload"} /\ cmd'[Daemon].at = "idle"
        /\ UNCHANGED <<dir, backups, entry, crashed, faults>>
    BY <1>1, LoadPluginsKeeps DEF files, counts
  <2>2. Settled <=> Settled'
    BY <2>1 DEF Settled, Moves, Replaced
  <2>3. \A d \in Procs : cmd'[d].at \in Holding \/ cmd[d].at \in Holding => cmd[d] = cmd'[d]
    BY <2>1 DEF Moves, Holding
  <2>4. (faults = 0 => \A b \in backups : \E d \in Procs :
                        cmd[d].at \in {"place", "save", "clean"} /\ b.n = cmd[d].n)'
    BY <2>1, <2>3 DEF OneFault, Holding
  <2>5. (\A d \in Procs :
           /\ cmd[d].at \in {"unlock", "restore"} => faults # 0 /\ ~crashed
           /\ cmd[d].at \in Replaced /\ ~cmd[d].kept /\ cmd[d].old # Gone => crashed)'
    BY <2>1, <2>3 DEF OneFault, Holding, Replaced
  <2> QED BY <2>1, <2>2, <2>4, <2>5 DEF OneFault
<1>2. CASE Recovered \/ \E b \in backups : RecoverBackup(b)
  <2>1. cmd' = cmd /\ daemon = "recovering" /\ entry' = entry
    BY <1>2 DEF Recovered, RecoverBackup, files
  <2>2. \A c \in Procs : cmd[c].at \notin Holding
    <3>1. holder = Daemon /\ cmd[Daemon].at \notin Holding
      BY <2>1 DEF Basis, Locked, Holding
    <3> QED BY <3>1, Distinct DEF Basis, Locked
  <2>3. Settled /\ \A c \in Procs : cmd'[c].at \notin Replaced
    BY <2>1, <2>2 DEF Settled, Holding, Replaced
  <2>4. faults = 0 => backups = {}
    BY <2>2, NobodyAtWork DEF Holding
  <2>5. CASE Recovered
    <3>1. backups = {} /\ dir' = dir /\ backups' = {} /\ ~crashed'
      BY <2>5 DEF Recovered, files
    <3>2. dir # Gone \/ entry = Gone
      BY <2>3, <3>1 DEF OneFault
    <3> QED BY <2>1, <2>3, <3>1, <3>2 DEF OneFault, Replaced
  <2>6. ASSUME NEW b \in backups, RecoverBackup(b) PROVE OneFault'
    <3>1. /\ crashed' = crashed /\ faults' = faults
          /\ dir' = IF entry # Gone /\ dir = Gone THEN b.of ELSE dir
      BY <2>6 DEF RecoverBackup, counts
    <3>2. faults' # 0 /\ b.of # Gone
      BY <2>4, <2>6, <3>1, BackupBuilds DEF Basis
    <3> QED BY <2>1, <2>3, <3>1, <3>2 DEF OneFault, Replaced
  <2> QED BY <1>2, <2>5, <2>6
<1>3. CASE Open \/ AutoFails \/ LoadForTask \/ Stop \/ Build \/ UNCHANGED plugin
  <2>1. UNCHANGED <<dir, backups, entry, cmd, crashed, faults>>
    BY <1>3 DEF Open, AutoFails, LoadForTask, Stop, Build, plugin, files, counts
  <2> QED BY <2>1 DEF OneFault, Settled
<1> QED BY <1>1, <1>2, <1>3

LEMMA StepOneFault ==
  ASSUME Basis, OneFault, MaxFaults <= 1, [FilesNext]_plugin
  PROVE  OneFault'
<1>1. Kinds /\ faults' \in Nat
  BY StepKinds DEF Basis, FilesTypeOK
<1>2. CASE \E c \in Commands : Outside(c) /\ faults' >= faults
  BY <1>1, <1>2, ApartOneFault
<1>3. CASE (\E c \in Commands : Takes(c)) \/ AutoUpdate
  BY <1>3, TakesOneFault, AutoUpdateTakes, Distinct
<1>4. CASE \E c \in Procs :
             \/ SetAside(c) \/ SetAsideFails(c) \/ Place(c) \/ PlaceFails(c) \/ Save(c) \/ SaveFails(c)
             \/ RestoreLock(c) \/ RestoreFiles(c) \/ Clean(c) \/ Crash(c)
  BY <1>4, AsideOneFault, ReplacingOneFault, ReleaseOneFault, CrashOneFault
<1>5. CASE \/ Open \/ (\E b \in backups : RecoverBackup(b)) \/ Recovered
           \/ AutoFails \/ LoadPlugins \/ LoadForTask \/ Stop \/ Build
           \/ UNCHANGED plugin
  BY <1>5, DaemonOneFault
<1> QED BY <1>1, <1>2, <1>3, <1>4, <1>5 DEF Kinds

(* With one failing call or crash between two recoveries, there never are   *)
(* two, and the files are those of the build in the lock.                   *)
THEOREM InstalledAfterOneFault ==
  ASSUME MaxFaults <= 1
  PROVE  FilesSpec => []InstalledAsLocked
<1>1. FilesInit => OneFault
  BY IdleStep DEF FilesInit, OneFault, Procs, Replaced
<1>2. Basis /\ OneFault /\ [FilesNext]_plugin => OneFault'
  BY StepOneFault
<1>3. Basis /\ OneFault => OneToRestore
  <2> SUFFICES ASSUME Basis, OneFault, daemon = "recovering", dir = Gone, entry # Gone
               PROVE  \A a, b \in backups : a = b
    BY DEF OneToRestore
  <2>1. holder = Daemon /\ cmd[Daemon].at \notin Holding
    BY DEF Basis, Locked, Holding
  <2>2. Settled
    BY <2>1, Distinct DEF Basis, Locked, Settled, Replaced, Holding
  <2> QED BY <2>2 DEF OneFault
<1>4. FilesSpec => []OneToRestore
  BY <1>1, <1>2, <1>3, BasisHolds, PTL DEF FilesSpec
<1> QED BY <1>4, InstalledWhereOneIsLeft, PTL
=============================================================================
