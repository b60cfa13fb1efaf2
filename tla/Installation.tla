---------------------------- MODULE Installation ----------------------------
(***************************************************************************)
(* Installing, updating and uninstalling in src/install.sh, one operator   *)
(* at one terminal.  The script runs under set -e: a command that fails    *)
(* ends it where it is, as a kill does, and what it has done so far stays, *)
(* a half-written file included.  A marker file lets the installation be   *)
(* repeated from there.                                                    *)
(***************************************************************************)
EXTENDS Bootstrap, Integers

CONSTANTS
  Releases,      \* number of stable releases
  MaxRemovals    \* bound: how often the operator uninstalls

\* There is a release to install.
ASSUME InstallationAssumption == Releases \in Nat \ {0} /\ MaxRemovals \in Nat

VARIABLES
  dirs,       \* the directories there are: configuration ("etc"), state ("var")
  file,       \* what there is of each file of the installation
  binary, manager,          \* the two programs: a release, Cut, or 0: missing
  oldBinary, oldManager,    \* their .previous copies
  timer,      \* the hourly timer is enabled
  removals,
  torn        \* history: replacing or removing the programs was cut short

\* A program that is there, but only in part.
Cut == -1

Secrets == {"id", "key"}                     \* of EdgeAPI's REST interface
EtcFiles == {"marker", "conf"} \cup Secrets  \* below the configuration
Files == EtcFiles \cup {"units"}             \* the units of systemd count as one

disk == <<dirs, file>>
programs == <<binary, manager, oldBinary, oldManager>>
vars == <<bootVars, pc, faults, disk, programs, timer, removals, torn>>

Replacing == {"binary", "manager", "u_binary", "u_manager",
              "u_back_binary", "u_back_manager"}

UpdateSteps == {"u_save_binary", "u_save_manager", "u_binary", "u_manager",
                "u_back_binary", "u_back_manager", "u_clean"}

BootSteps == {"boot", "boot_existing", "boot_existing_name", "boot_count",
              "boot_create", "boot_grant", "boot_write", "boot_verify",
              "boot_name", "boot_remove", "boot_drop"}

InstallSteps == {"dirs", "marker", "var", "secrets", "id", "key", "discover",
                 "binary", "manager", "conf", "units", "enable", "unmark"}

RemoveSteps == {"n_disable", "n_files", "n_ask", "n_etc", "n_var"}

Steps == {"idle"} \cup BootSteps \cup InstallSteps \cup UpdateSteps \cup RemoveSteps

Init ==
  /\ account = NoAccount /\ credential = 0 /\ dbname = FALSE
  /\ password = 0 /\ npasswords = 0 /\ kept = FALSE
  /\ pc = "idle" /\ faults = 0
  /\ dirs = {} /\ file = [f \in Files |-> "none"]
  /\ binary = 0 /\ manager = 0 /\ oldBinary = 0 /\ oldManager = 0
  /\ timer = FALSE /\ removals = 0 /\ torn = FALSE

-----------------------------------------------------------------------------
(* install_initialize                                                      *)

\* Mutant: the marker is not looked at.
RefusedAlways == binary # 0 \/ manager # 0 \/ dirs # {}

\* prepare_install_state.
Refused ==
  /\ file["marker"] = "none"
  /\ (binary # 0 \/ manager # 0 \/ dirs # {})

\* A step that touches neither account, disk nor programs.
Pass(step, next) ==
  /\ At(step) /\ GoTo(next)
  /\ UNCHANGED <<bootVars, faults, disk, programs, timer, removals, torn>>

\* The checks before, and the downloads.
StartInstall == ~Refused /\ Pass("idle", "dirs")

MakeDir(step, dir, next) ==
  /\ At(step) /\ GoTo(next)
  /\ dirs' = dirs \cup {dir}
  /\ UNCHANGED <<bootVars, faults, file, programs, timer, removals, torn>>

\* A file that is written to its end.
Write(step, name, next) ==
  /\ At(step) /\ GoTo(next)
  /\ file' = [file EXCEPT ![name] = "whole"]
  /\ UNCHANGED <<bootVars, faults, dirs, programs, timer, removals, torn>>

MakeConfigDirs == MakeDir("dirs", "etc", "marker")
WriteMarker == Write("marker", "marker", "var")
MakeStateDirs == MakeDir("var", "var", "secrets")

\* [ -f ] is content with a file that is there.
AskSecrets ==
  Pass("secrets",
       IF \E f \in Secrets : file[f] = "none" THEN "id" ELSE "discover")

WriteId == Write("id", "id", "key")
WriteKey == Write("key", "key", "discover")

\* Mutant: the units are installed before the database has been set up.
DiscoverEnables ==
  /\ At("discover") /\ GoTo("boot")
  /\ timer' = TRUE /\ file' = [file EXCEPT !["units"] = "whole"]
  /\ UNCHANGED <<bootVars, faults, dirs, programs, removals, torn>>

\* EdgeAPI refuses the list of websites to half a secret.
Discover ==
  Pass("discover",
       IF \A f \in Secrets : file[f] = "whole" THEN "boot" ELSE "idle")

BootstrapDatabase ==
  /\ Bootstrap
  /\ UNCHANGED <<disk, programs, timer, removals, torn>>

InstallBinary ==
  /\ At("binary") /\ GoTo("manager")
  /\ binary' = 1
  /\ UNCHANGED <<bootVars, faults, disk, manager, oldBinary, oldManager, timer,
                 removals, torn>>

InstallManager ==
  /\ At("manager") /\ GoTo("conf")
  /\ manager' = 1 /\ torn' = FALSE
  /\ UNCHANGED <<bootVars, faults, disk, binary, oldBinary, oldManager, timer,
                 removals>>

WriteConf == dbname /\ Write("conf", "conf", "units")
InstallUnits == Write("units", "units", "enable")

EnableTimer ==
  /\ At("enable") /\ GoTo("unmark")
  /\ timer' = TRUE
  /\ UNCHANGED <<bootVars, faults, disk, programs, removals, torn>>

RemoveMarker ==
  /\ At("unmark") /\ GoTo("idle")
  /\ file' = [file EXCEPT !["marker"] = "none"]
  /\ UNCHANGED <<bootVars, faults, dirs, programs, timer, removals, torn>>

-----------------------------------------------------------------------------
(* update_program                                                          *)

StartUpdate == "var" \in dirs /\ Pass("idle", "u_save_binary")

\* cp -p copies what is there, and fails when nothing is: the script ends.
SaveBinary ==
  /\ At("u_save_binary") /\ binary # 0
  /\ GoTo("u_save_manager")
  /\ oldBinary' = binary
  /\ UNCHANGED <<bootVars, faults, disk, binary, manager, oldManager, timer,
                 removals, torn>>

\* Mutant: the copies are deleted before the programs are replaced.
SaveManagerKeepsNone ==
  /\ At("u_save_manager") /\ manager # 0
  /\ GoTo("u_binary")
  /\ oldManager' = 0 /\ oldBinary' = 0
  /\ UNCHANGED <<bootVars, faults, disk, binary, manager, timer, removals, torn>>

SaveManager ==
  /\ At("u_save_manager") /\ manager # 0
  /\ GoTo("u_binary")
  /\ oldManager' = manager
  /\ UNCHANGED <<bootVars, faults, disk, binary, manager, oldBinary, timer,
                 removals, torn>>

SaveFails ==
  \/ binary = 0 /\ Pass("u_save_binary", "idle")
  \/ manager = 0 /\ Pass("u_save_manager", "idle")

\* install(1) unlinks the program and then writes it.
ReplaceBinary ==
  /\ At("u_binary")
  /\ \/ GoTo("u_manager") /\ binary' \in 1..Releases /\ UNCHANGED faults
     \/ Fault("disk") /\ GoTo("u_back_binary") /\ binary' \in {binary, 0, Cut}
  /\ UNCHANGED <<bootVars, disk, manager, oldBinary, oldManager, timer,
                 removals, torn>>

\* Mutant: when the second program fails, only the second is put back.
ReplaceManagerAlone ==
  /\ At("u_manager")
  /\ \/ GoTo("u_clean") /\ manager' = binary /\ torn' = FALSE /\ UNCHANGED faults
     \/ /\ Fault("disk") /\ GoTo("u_back_manager")
        /\ manager' \in {manager, 0, Cut} /\ UNCHANGED torn
  /\ UNCHANGED <<bootVars, disk, binary, oldBinary, oldManager, timer, removals>>

ReplaceManager ==
  /\ At("u_manager")
  /\ \/ GoTo("u_clean") /\ manager' = binary /\ torn' = FALSE /\ UNCHANGED faults
     \/ /\ Fault("disk") /\ GoTo("u_back_binary")
        /\ manager' \in {manager, 0, Cut} /\ UNCHANGED torn
  /\ UNCHANGED <<bootVars, disk, binary, oldBinary, oldManager, timer, removals>>

PutBackBinary ==
  /\ At("u_back_binary") /\ GoTo("u_back_manager")
  /\ binary' = oldBinary /\ oldBinary' = 0
  /\ UNCHANGED <<bootVars, faults, disk, manager, oldManager, timer, removals,
                 torn>>

PutBackManager ==
  /\ At("u_back_manager") /\ GoTo("idle")
  /\ manager' = oldManager /\ oldManager' = 0
  /\ UNCHANGED <<bootVars, faults, disk, binary, oldBinary, timer, removals,
                 torn>>

DropCopies ==
  /\ At("u_clean") /\ GoTo("idle")
  /\ oldBinary' = 0 /\ oldManager' = 0
  /\ UNCHANGED <<bootVars, faults, disk, binary, manager, timer, removals, torn>>

-----------------------------------------------------------------------------
(* uninstall_program                                                       *)

\* The answer YES; the state directory holds the lock.
StartUninstall ==
  /\ At("idle") /\ "var" \in dirs /\ removals < MaxRemovals
  /\ GoTo("n_disable") /\ removals' = removals + 1
  /\ UNCHANGED <<bootVars, faults, disk, programs, timer, torn>>

\* systemctl disable --now; its failure is ignored.
DisableTimer ==
  /\ At("n_disable") /\ GoTo("n_files")
  /\ \/ timer' = FALSE /\ UNCHANGED faults
     \/ Fault("command") /\ UNCHANGED timer
  /\ UNCHANGED <<bootVars, disk, programs, removals, torn>>

RemoveFiles ==
  /\ At("n_files") /\ GoTo("n_ask")
  /\ file' = [file EXCEPT !["units"] = "none"]
  /\ binary' = 0 /\ manager' = 0 /\ torn' = FALSE
  /\ UNCHANGED <<bootVars, faults, dirs, oldBinary, oldManager, timer, removals>>

\* The answer DELETE, or any other.
AnswerDelete == Pass("n_ask", "n_etc")
AnswerKeep == Pass("n_ask", "idle")

\* rm -rf of the two directories, one after the other.
RemoveConfig ==
  /\ At("n_etc") /\ GoTo("n_var")
  /\ dirs' = dirs \ {"etc"}
  /\ file' = [f \in Files |-> IF f \in EtcFiles THEN "none" ELSE file[f]]
  /\ credential' = 0 /\ kept' = FALSE /\ dbname' = FALSE
  /\ UNCHANGED <<account, password, npasswords, faults, programs, timer,
                 removals, torn>>

RemoveState ==
  /\ At("n_var") /\ GoTo("idle")
  /\ dirs' = dirs \ {"var"}
  /\ UNCHANGED <<bootVars, faults, file, programs, timer, removals, torn>>

-----------------------------------------------------------------------------
(* Stopping at a step leaves some outcome of it on the disk: install(1)     *)
(* unlinks and writes, cat and cp truncate and write, and rm -f and rm -rf  *)
(* go on after a file they cannot remove.  mv and rename(2) are atomic.     *)

FileLeft(f) ==
  {file[f]} \cup
  {part \in {"none", "cut"} :
     \/ f \in Secrets /\ At(f)
     \/ f \in {"conf", "units"} /\ At(f) /\ part = "cut"
     \/ f = "units" /\ At("n_files") /\ file[f] # "none"
     \/ f \in EtcFiles /\ At("n_etc") /\ part = "none"}

CredentialLeft ==
  /\ credential' \in IF At("n_etc") THEN {credential, 0} ELSE {credential}
  /\ kept' = (kept /\ credential' # 0)
  /\ dbname' \in IF At("n_etc") THEN {dbname, FALSE} ELSE {dbname}
  /\ dirs' \in IF At("n_etc") THEN {dirs, dirs \ {"var"}} ELSE {dirs}

\* A program of whose replacement, or removal, or copying, one of these is left.
Unfinished(steps) == IF pc \in steps THEN {0, Cut} ELSE {}
Removed(step) == IF At(step) THEN {0} ELSE {}
Copied(step, program) == IF At(step) /\ program # 0 THEN {Cut} ELSE {}

ProgramsLeft ==
  /\ binary' \in {binary} \cup Unfinished({"binary", "u_binary"}) \cup Removed("n_files")
  /\ manager' \in {manager} \cup Unfinished({"manager", "u_manager"}) \cup Removed("n_files")
  /\ oldBinary' \in {oldBinary} \cup Copied("u_save_binary", binary) \cup Removed("u_clean")
  /\ oldManager' \in {oldManager} \cup Copied("u_save_manager", manager) \cup Removed("u_clean")

\* The process is killed, or a command of the script fails: outside the
\* database's initialisation, and outside the two conditions of an if.
Stop ==
  /\ ~At("idle")
  /\ \/ Fault("crash")
     \/ pc \notin BootSteps \cup {"u_binary", "u_manager"} /\ Fault("command")
  /\ GoTo("idle")
  /\ file' \in [Files -> {"none", "cut", "whole"}]
  /\ \A f \in Files : file'[f] \in FileLeft(f)
  /\ CredentialLeft
  /\ ProgramsLeft
  /\ torn' = (torn \/ pc \in Replacing \cup {"n_files"})
  /\ UNCHANGED <<account, password, npasswords, timer, removals>>

\* The database administrator removes an account nobody has the password of.
DropStranded ==
  /\ At("idle") /\ Stranded
  /\ account' = NoAccount
  /\ UNCHANGED <<credential, dbname, password, npasswords, kept, pc, faults,
                 disk, programs, timer, removals, torn>>

\* The operator deletes a credential file that does not work, or half a secret.
RemoveSpoiled ==
  /\ At("idle")
  /\ \/ Spoiled /\ credential' = 0 /\ kept' = FALSE /\ UNCHANGED file
     \/ /\ \E f \in Secrets : file[f] = "cut" /\ file' = [file EXCEPT ![f] = "none"]
        /\ UNCHANGED <<credential, kept>>
  /\ UNCHANGED <<account, dbname, password, npasswords, pc, faults, dirs,
                 programs, timer, removals, torn>>

Install ==
  \/ StartInstall \/ MakeConfigDirs \/ WriteMarker \/ MakeStateDirs
  \/ AskSecrets \/ WriteId \/ WriteKey \/ Discover \/ BootstrapDatabase
  \/ InstallBinary \/ InstallManager \/ WriteConf \/ InstallUnits
  \/ EnableTimer \/ RemoveMarker

Update ==
  \/ StartUpdate \/ SaveBinary \/ SaveManager \/ SaveFails \/ ReplaceBinary
  \/ ReplaceManager \/ PutBackBinary \/ PutBackManager \/ DropCopies

Uninstall ==
  \/ StartUninstall \/ DisableTimer \/ RemoveFiles \/ AnswerKeep
  \/ AnswerDelete \/ RemoveConfig \/ RemoveState

Next == Install \/ Update \/ Uninstall \/ Stop \/ DropStranded \/ RemoveSpoiled

Spec == Init /\ [][Next]_vars

\* A script that has been started goes on, and the operator repeats the
\* installation while its marker is there.
FairSpec ==
  /\ Spec
  /\ WF_vars(~At("idle") /\ (Install \/ Update \/ Uninstall))
  /\ SF_vars(file["marker"] # "none" /\ StartInstall)

-----------------------------------------------------------------------------
Versions == {Cut} \cup 0..Releases

TypeOK ==
  /\ pc \in Steps
  /\ account \in {NoAccount} \cup [password: 1..MaxPasswords, granted: BOOLEAN]
  /\ {credential, password, npasswords} \subseteq 0..MaxPasswords
  /\ faults \in 0..MaxFaults
  /\ dirs \subseteq {"etc", "var"}
  /\ file \in [Files -> {"none", "cut", "whole"}]
  /\ {binary, manager, oldBinary, oldManager} \subseteq Versions
  /\ removals \in 0..MaxRemovals
  /\ dbname \in BOOLEAN /\ timer \in BOOLEAN /\ torn \in BOOLEAN
  /\ kept \in BOOLEAN

\* A credential file holds the password of an account that exists and has its
\* privileges, at every step of an attempt and of its undoing: it is written
\* last and removed first.  Only an os.Remove that fails can leave one whose
\* account is dropped (database.go, InitializeDatabase).
CredentialWorks == credential # 0 => CredentialAccepted \/ kept

\* Once there is anything of the units and the timer is enabled, what run-all
\* reads is there and whole: both secrets, the credential of the database and
\* the directories, through repeated installations and until the uninstallation
\* has removed the units.  The manager's configuration is, too, but for a
\* repetition that was stopped while writing it, and has its marker still
\* (install.sh, install_initialize, write_manager_config, uninstall_program).
TimerFindsInstallation ==
  timer /\ file["units"] # "none" =>
    /\ dirs = {"etc", "var"}
    /\ \A f \in Secrets : file[f] = "whole"
    /\ CredentialAccepted /\ dbname
    /\ \/ file["conf"] = "whole"
       \/ file["conf"] = "cut" /\ file["marker"] = "whole"

\* "Any failing replacement restores the old binary and manager": when nothing
\* runs, the two programs are of one release and whole, unless the process was
\* killed or the undoing failed while they were being replaced or removed
\* (update_program).
UpdateAllOrNothing == At("idle") /\ ~torn => binary = manager /\ binary # Cut

\* A damaged copy is made of the program, or put back.
Damages(step, source) == At(step) /\ source = Cut

KeepsPrograms ==
  /\ binary > 0 \/ oldBinary > 0 =>
       \/ binary' > 0 \/ oldBinary' > 0
       \/ Damages("u_save_binary", binary) \/ Damages("u_back_binary", oldBinary)
  /\ manager > 0 \/ oldManager > 0 =>
       \/ manager' > 0 \/ oldManager' > 0
       \/ Damages("u_save_manager", manager) \/ Damages("u_back_manager", oldManager)

\* No step of an update, stopped or not, loses the last whole copy of a
\* program, however many updates were cut short before it.  The exception is
\* one that found a program cut short: it copies that over the good copy of the
\* earlier update, and puts it back when it fails itself (update_program).
ProgramsNeverLost == [][(pc \in UpdateSteps) => KeepsPrograms]_vars

\* The installer drops an account only when this attempt has created it and
\* its file is gone, or could not be removed, and never changes the password of
\* one: apart from the administrator, an account with a file lives on
\* (database.go:85, 100-105, 118-122).
AccountNeverReset ==
  [][account # NoAccount /\ account'.password # account.password =>
       /\ account' = NoAccount
       /\ credential = 0 \/ (kept /\ credential = account.password)
       /\ At("idle") \/ account.password = password]_vars

\* Half a secret is there, and none is missing.
SecretSpoiled ==
  /\ \A f \in Secrets : file[f] # "none"
  /\ \E f \in Secrets : file[f] = "cut"

\* An installation that was stopped after its marker was written can be
\* repeated until it completes, unless a person has to help first: the database
\* account was stranded, its file was, or a secret was cut short.
InterruptedInstallCompletes ==
  file["marker"] = "whole" ~>
    file["marker"] = "none" \/ Stranded \/ Spoiled \/ SecretSpoiled
=============================================================================
