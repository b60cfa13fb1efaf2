------------------------------- MODULE Manager -------------------------------
(***************************************************************************)
(* The manager script src/install.sh once it is installed: menu sessions   *)
(* of the administrator and the hourly service share the global lock       *)
(* manager.lock, run the core program on one target at a time, and back    *)
(* up, restore and remove what all of them work on.                        *)
(*                                                                         *)
(* flock belongs to the open file, and the core inherits that file: the    *)
(* lock is held until the last process that has it is gone.                *)
(***************************************************************************)
EXTENDS Naturals, FiniteSets

CONSTANTS
  Sessions,      \* terminals the administrator opens the menu in
  Targets,       \* addresses, in the order of the names of their files
  MaxOps,        \* bound: operations started from a menu or by hand
  MaxInodes,     \* bound: lock files that are created
  MaxFaults,     \* bound: faults in one behaviour
  Faults         \* kinds of fault that can happen

FaultKinds == {"kill",      \* a menu session is killed, its core perhaps not
               "timeout",   \* systemd ends a service that takes too long
               "resume"}    \* an installation cut short at its end is repeated

ASSUME ManagerAssumption ==
  /\ Targets \subseteq Nat
  /\ {MaxOps, MaxInodes, MaxFaults} \subseteq Nat /\ MaxInodes > 0
  /\ Faults \subseteq FaultKinds
  /\ {"timer", "nobody"} \cap Sessions = {}

VARIABLES
  lockFile,    \* the file manager.lock: its inode, or 0
  ninodes,
  proc,        \* menu sessions and run-all
  cores,       \* running core processes
  configs,     \* targets.d/<address>.yaml
  pending,     \* targets.d/.pending-<address>
  backup,      \* the two sets of configurations in the backup archive
  installed,   \* programs and units are there
  ran,         \* targets this hour's run-all is done with
  confirmed,   \* history: targets an administrator said yes to
  replaced,    \* history: manager.lock was removed while somebody had it open
  nops, faults

vars == <<lockFile, ninodes, proc, cores, configs, pending, backup, installed,
          ran, confirmed, replaced, nops, faults>>

Timer == "timer"
Procs == Sessions \cup {Timer}

Idle == [pc |-> "idle", fd |-> 0, target |-> 0, new |-> FALSE, todo |-> {}]

Operations == {"new_website", "backup", "restore", "uninstall"}

Unlocked == {"idle", "run_all"} \cup Operations

\* Steps that read or write the files of all targets.
Sections == {"tar", "r_etc", "r_var", "n_ask"}

Holds(p, inode) == proc[p].fd = inode /\ proc[p].pc \notin Unlocked

Free(inode) ==
  /\ \A p \in Procs : ~Holds(p, inode)
  /\ \A c \in cores : c.fd # inode

At(p, step) == proc[p].pc = step

GoTo(p, step) == proc' = [proc EXCEPT ![p].pc = step]

\* release_global_lock, or the end of the shell; either closes the file.
Leave(p) == proc' = [proc EXCEPT ![p] = Idle]

Fault(kind) == kind \in Faults /\ faults < MaxFaults /\ faults' = faults + 1

Init ==
  /\ lockFile = 1 /\ ninodes = 1
  /\ proc = [p \in Procs |-> Idle]
  /\ cores = {} /\ configs = {} /\ pending = {}
  /\ backup = [configs |-> {}, pending |-> {}]
  /\ installed = TRUE /\ ran = {} /\ confirmed = {} /\ replaced = FALSE
  /\ nops = 0 /\ faults = 0

-----------------------------------------------------------------------------
(* Starting, and the lock                                                  *)

\* A choice in the menu.
StartOperation(p) ==
  /\ p \in Sessions /\ At(p, "idle")
  /\ installed /\ nops < MaxOps
  /\ nops' = nops + 1
  /\ \E op \in Operations : GoTo(p, op)
  /\ UNCHANGED <<lockFile, ninodes, cores, configs, pending, backup, installed,
                 ran, confirmed, replaced, faults>>

\* The timer starts the service, one at a time.
StartService ==
  /\ At(Timer, "idle") /\ installed
  /\ GoTo(Timer, "run_all")
  /\ ran' = {}
  /\ UNCHANGED <<lockFile, ninodes, cores, configs, pending, backup, installed,
                 confirmed, replaced, nops, faults>>

\* exec 8>manager.lock; without its directory the script ends.
OpenLock(p) ==
  /\ proc[p].pc \in Operations \cup {"run_all"} /\ proc[p].fd = 0
  /\ IF lockFile # 0
     THEN proc' = [proc EXCEPT ![p].fd = lockFile]
     ELSE Leave(p)
  /\ UNCHANGED <<lockFile, ninodes, cores, configs, pending, backup, installed,
                 ran, confirmed, replaced, nops, faults>>

AfterLock == [run_all |-> "loop", new_website |-> "select", backup |-> "tar",
              restore |-> "r_etc", uninstall |-> "n_disable"]

\* flock -n: whoever does not get the lock gives up.  run_all lists the
\* configurations once it has it.
TryLock(p) ==
  /\ proc[p].pc \in Operations \cup {"run_all"} /\ proc[p].fd # 0
  /\ IF Free(proc[p].fd)
     THEN proc' = [proc EXCEPT ![p].pc = AfterLock[proc[p].pc],
                               ![p].todo = IF p = Timer THEN configs ELSE {}]
     ELSE Leave(p)
  /\ UNCHANGED <<lockFile, ninodes, cores, configs, pending, backup, installed,
                 ran, confirmed, replaced, nops, faults>>

-----------------------------------------------------------------------------
(* The core program: one run-once per target, under the target's own lock  *)

TargetFree(t) == \A c \in cores : c.target # t

\* Mutant: the core does not inherit the lock.
CoreDetached(p, mode) == [target |-> proc[p].target, fd |-> 0, of |-> p, mode |-> mode]

Core(p, mode) == [target |-> proc[p].target, fd |-> proc[p].fd, of |-> p, mode |-> mode]

\* Runs the core in the foreground, or finds the target locked.
RunCore(p, step, mode, wait, refused) ==
  /\ At(p, step)
  /\ IF TargetFree(proc[p].target)
     THEN GoTo(p, wait) /\ cores' = cores \cup {Core(p, mode)}
     ELSE refused /\ UNCHANGED cores
  /\ UNCHANGED <<lockFile, ninodes, configs, pending, backup, installed, ran,
                 confirmed, replaced, nops, faults>>

\* The core p waits for has ended.
CoreDone(p, step) ==
  /\ At(p, step)
  /\ cores' = {c \in cores : c.of # p}
  /\ UNCHANGED <<lockFile, ninodes, configs, pending, backup, installed,
                 confirmed, replaced, nops, faults>>

\* A core that lost its session, or was started by hand, ends.
CoreEnds(c) ==
  /\ c.of = "nobody"
  /\ cores' = cores \ {c}
  /\ UNCHANGED <<lockFile, ninodes, proc, configs, pending, backup, installed,
                 ran, confirmed, replaced, nops, faults>>

\* run-once --apply by hand: the target's lock only.
RunByHand(t) ==
  /\ installed /\ nops < MaxOps /\ t \in configs /\ TargetFree(t)
  /\ nops' = nops + 1
  /\ cores' = cores \cup {[target |-> t, fd |-> 0, of |-> "nobody", mode |-> "manual"]}
  /\ UNCHANGED <<lockFile, ninodes, proc, configs, pending, backup, installed,
                 ran, confirmed, replaced, faults>>

-----------------------------------------------------------------------------
(* run_all                                                                 *)

\* In the order of the names.
NextTarget ==
  /\ At(Timer, "loop")
  /\ \E t \in proc[Timer].todo :
       /\ \A u \in proc[Timer].todo : t <= u
       /\ proc' = [proc EXCEPT ![Timer].target = t, ![Timer].todo = @ \ {t},
                               ![Timer].pc = "loop_run"]
  /\ UNCHANGED <<lockFile, ninodes, cores, configs, pending, backup, installed,
                 ran, confirmed, replaced, nops, faults>>

RunTarget == RunCore(Timer, "loop_run", "timer", "loop_wait", GoTo(Timer, "loop_wait"))

\* Mutant: the first target that fails ends the loop.
TargetDoneOrFails ==
  /\ CoreDone(Timer, "loop_wait")
  /\ GoTo(Timer, "loop") \/ Leave(Timer)
  /\ ran' = ran \cup {proc[Timer].target}

\* A core that fails only sets the result.
TargetDone ==
  /\ CoreDone(Timer, "loop_wait")
  /\ GoTo(Timer, "loop")
  /\ ran' = ran \cup {proc[Timer].target}

AllDone ==
  /\ At(Timer, "loop") /\ proc[Timer].todo = {}
  /\ Leave(Timer)
  /\ UNCHANGED <<lockFile, ninodes, cores, configs, pending, backup, installed,
                 ran, confirmed, replaced, nops, faults>>

-----------------------------------------------------------------------------
(* apply_new_website                                                       *)

\* Mutant: a new target is configured before it is confirmed.
SelectConfigures(p) ==
  /\ At(p, "select")
  /\ \E t \in Targets :
       /\ proc' = [proc EXCEPT ![p].pc = "dry", ![p].target = t,
                               ![p].new = t \notin configs]
       /\ configs' = configs \cup {t}
  /\ UNCHANGED <<lockFile, ninodes, cores, pending, backup, installed, ran,
                 confirmed, replaced, nops, faults>>

\* The administrator picks a website of the list; a new one gets a
\* configuration run_all does not see, unless one was left by an earlier try.
\* The script ends when the list or the configuration fails.
Select(p) ==
  /\ At(p, "select")
  /\ \/ Leave(p) /\ UNCHANGED pending
     \/ \E t \in Targets :
       /\ lockFile # 0
       /\ proc' = [proc EXCEPT ![p].pc = "dry", ![p].target = t,
                               ![p].new = t \notin configs]
       /\ pending' = IF t \in configs THEN pending ELSE pending \cup {t}
  /\ UNCHANGED <<lockFile, ninodes, cores, configs, backup, installed, ran,
                 confirmed, replaced, nops, faults>>

DryRun(p) == RunCore(p, "dry", "dry", "dry_wait", Leave(p))

\* It fails or names another website than the list: the script ends.
DryRunDone(p) ==
  /\ CoreDone(p, "dry_wait")
  /\ GoTo(p, "confirm") \/ Leave(p)
  /\ UNCHANGED ran

AnswerNo(p) ==
  /\ At(p, "confirm")
  /\ Leave(p)
  /\ pending' = IF proc[p].new THEN pending \ {proc[p].target} ELSE pending
  /\ UNCHANGED <<lockFile, ninodes, cores, configs, backup, installed, ran,
                 confirmed, replaced, nops, faults>>

\* mv fails when the directory has been deleted.
AnswerYes(p) ==
  /\ At(p, "confirm") /\ lockFile # 0
  /\ GoTo(p, "order")
  /\ confirmed' = confirmed \cup {proc[p].target}
  /\ IF proc[p].new
     THEN /\ configs' = configs \cup {proc[p].target}
          /\ pending' = pending \ {proc[p].target}
     ELSE UNCHANGED <<configs, pending>>
  /\ UNCHANGED <<lockFile, ninodes, cores, backup, installed, ran, replaced,
                 nops, faults>>

\* A core that is refused goes on like one that failed.
Order(p) == RunCore(p, "order", "apply", "order_wait", GoTo(p, "order_wait"))

\* Success; or a failure, with a certificate on record that is to be bound; or one
\* without.
OrderDone(p) ==
  /\ CoreDone(p, "order_wait")
  /\ GoTo(p, "bind") \/ Leave(p)
  /\ UNCHANGED ran

\* Enter runs the core again, q leaves.
AnswerBound(p) ==
  /\ At(p, "bind")
  /\ GoTo(p, "again") \/ Leave(p)
  /\ UNCHANGED <<lockFile, ninodes, cores, configs, pending, backup, installed,
                 ran, confirmed, replaced, nops, faults>>

OrderAgain(p) == RunCore(p, "again", "apply", "again_wait", Leave(p))

AgainDone(p) ==
  /\ CoreDone(p, "again_wait")
  /\ Leave(p)
  /\ UNCHANGED ran

NewWebsite(p) ==
  \/ Select(p) \/ DryRun(p) \/ DryRunDone(p) \/ AnswerNo(p) \/ AnswerYes(p)
  \/ Order(p) \/ OrderDone(p) \/ AnswerBound(p) \/ OrderAgain(p) \/ AgainDone(p)

-----------------------------------------------------------------------------
(* create_backup, restore_backup, uninstall_program                        *)

Archive(p) ==
  /\ At(p, "tar")
  /\ Leave(p)
  /\ backup' = [configs |-> configs, pending |-> pending]
  /\ UNCHANGED <<lockFile, ninodes, cores, configs, pending, installed, ran,
                 confirmed, replaced, nops, faults>>

\* What is there and not in the archive stays.
RestoreConfig(p) ==
  /\ At(p, "r_etc")
  /\ \/ /\ lockFile # 0 \/ ninodes < MaxInodes
        /\ GoTo(p, "r_var")
        /\ configs' = configs \cup backup.configs
        /\ pending' = pending \cup backup.pending
     \/ Leave(p) /\ UNCHANGED <<configs, pending>>
  /\ UNCHANGED <<lockFile, ninodes, cores, backup, installed, ran,
                 confirmed, replaced, nops, faults>>

\* The state, with manager.lock if it is gone, then validate-config and status
\* of every target.
RestoreState(p) ==
  /\ At(p, "r_var")
  /\ Leave(p)
  /\ IF lockFile = 0 /\ ninodes < MaxInodes
     THEN ninodes' = ninodes + 1 /\ lockFile' = ninodes'
     ELSE UNCHANGED <<lockFile, ninodes>>
  /\ UNCHANGED <<cores, configs, pending, backup, installed,
                 ran, confirmed, replaced, nops, faults>>

\* Disables the timer, ends the service, and removes units and programs.
RemovePrograms(p) ==
  /\ At(p, "n_disable")
  /\ installed' = FALSE
  /\ proc' = [proc EXCEPT ![p].pc = "n_ask", ![Timer] = Idle]
  /\ cores' = {c \in cores : c.of # Timer}
  /\ UNCHANGED <<lockFile, ninodes, configs, pending, backup, ran, confirmed,
                 replaced, nops, faults>>

LockFileOpen(others) ==
  \/ \E q \in others : proc[q].fd = lockFile
  \/ \E c \in cores : c.fd = lockFile

\* Keep, or DELETE.
RemoveData(p) ==
  /\ At(p, "n_ask")
  /\ Leave(p)
  /\ \/ UNCHANGED <<lockFile, configs, pending, replaced>>
     \/ /\ lockFile' = 0 /\ configs' = {} /\ pending' = {}
        /\ replaced' = (replaced \/ LockFileOpen(Procs \ {p}))
  /\ UNCHANGED <<ninodes, cores, backup, installed, ran, confirmed, nops, faults>>

-----------------------------------------------------------------------------
(* Installing again, and faults                                            *)

NewLockFile ==
  /\ ninodes < MaxInodes
  /\ ninodes' = ninodes + 1 /\ lockFile' = ninodes'

\* A new installation after everything was deleted.
Reinstall ==
  /\ ~installed /\ lockFile = 0
  /\ NewLockFile
  /\ installed' = TRUE
  /\ UNCHANGED <<proc, cores, configs, pending, backup, ran, confirmed,
                 replaced, nops, faults>>

\* The marker .installing was left behind after the timer had been enabled;
\* the repeated installation replaces manager.lock without taking it.
ResumeInstall ==
  /\ installed /\ lockFile # 0
  /\ Fault("resume")
  /\ NewLockFile
  /\ replaced' = (replaced \/ LockFileOpen(Procs))
  /\ UNCHANGED <<proc, cores, configs, pending, backup, installed, ran,
                 confirmed, nops>>

Orphan(c) == [c EXCEPT !.of = "nobody"]

\* The terminal is gone; the core it runs dies with it or goes on.
KillSession(p) ==
  /\ p \in Sessions /\ ~At(p, "idle")
  /\ Fault("kill")
  /\ Leave(p)
  /\ LET mine == {c \in cores : c.of = p}
     IN \/ cores' = cores \ mine
        \/ cores' = (cores \ mine) \cup {Orphan(c) : c \in mine}
  /\ UNCHANGED <<lockFile, ninodes, configs, pending, backup, installed, ran,
                 confirmed, replaced, nops>>

\* TimeoutStartSec: the service and its cores.
ServiceTimeout ==
  /\ ~At(Timer, "idle")
  /\ Fault("timeout")
  /\ Leave(Timer)
  /\ cores' = {c \in cores : c.of # Timer}
  /\ UNCHANGED <<lockFile, ninodes, configs, pending, backup, installed, ran,
                 confirmed, replaced, nops>>

Service ==
  StartService \/ OpenLock(Timer) \/ TryLock(Timer) \/ NextTarget \/ RunTarget
  \/ TargetDone \/ AllDone

Session(p) ==
  \/ OpenLock(p) \/ TryLock(p) \/ NewWebsite(p) \/ Archive(p)
  \/ RestoreConfig(p) \/ RestoreState(p) \/ RemovePrograms(p) \/ RemoveData(p)

CoresEnd == \E c \in cores : CoreEnds(c)

Next ==
  \/ Service \/ ServiceTimeout \/ CoresEnd \/ Reinstall \/ ResumeInstall
  \/ \E p \in Sessions : StartOperation(p) \/ Session(p) \/ KillSession(p)
  \/ \E t \in Targets : RunByHand(t)

Spec == Init /\ [][Next]_vars

\* The timer keeps starting the service, processes go on, and whoever is asked
\* at a terminal answers in the end.
FairSpec ==
  /\ Spec
  /\ WF_vars(Service)
  /\ WF_vars(CoresEnd)
  /\ \A p \in Sessions : WF_vars(Session(p))

-----------------------------------------------------------------------------
ManagerCores == {c \in cores : c.mode # "manual"}

\* Steps that work on the target of the process.
WithTarget == {"loop_run", "loop_wait", "dry", "dry_wait", "confirm", "order",
               "order_wait", "bind", "again", "again_wait"}

Steps == Unlocked \cup Sections \cup WithTarget \cup {"loop", "select", "n_disable"}

ProcStates ==
  [pc : Steps, fd : 0..MaxInodes, target : Targets \cup {0}, new : BOOLEAN,
   todo : SUBSET Targets]

Cores == [target : Targets, fd : 0..MaxInodes, of : Procs \cup {"nobody"},
          mode : {"manual", "timer", "dry", "apply"}]

\* Every variable stays in its type, a process past its lock has it open
\* and one that works on a target has one; TLAPS proves it, as a part of ManagerInv.
TypeOK ==
  /\ lockFile \in 0..MaxInodes /\ ninodes \in 0..MaxInodes
  /\ proc \in [Procs -> ProcStates]
  /\ \A p \in Procs : /\ proc[p].pc \notin Unlocked => proc[p].fd # 0
                      /\ proc[p].pc \in WithTarget => proc[p].target \in Targets
  /\ cores \subseteq Cores
  /\ backup \in [configs : SUBSET Targets, pending : SUBSET Targets]
  /\ configs \subseteq Targets /\ pending \subseteq Targets
  /\ ran \subseteq Targets /\ confirmed \subseteq Targets
  /\ installed \in BOOLEAN /\ replaced \in BOOLEAN
  /\ nops \in 0..MaxOps /\ faults \in 0..MaxFaults

\* "The global lock guarantees that several targets are handled one after the
\* other" (README.md:79): of all that sessions and the service start, one core
\* runs at a time, also one that outlived its session, and no backup, restore
\* or removal runs beside it, until an installation has put a new lock file in
\* the place of one that somebody had open.
Serialized ==
  ~replaced =>
    /\ Cardinality(ManagerCores) <= 1
    /\ \A p \in Procs : proc[p].pc \in Sections =>
         /\ ManagerCores = {}
         /\ \A q \in Procs \ {p} : proc[q].pc \notin Sections

\* Nothing is ordered for a target before an administrator has said yes to it,
\* through cancelled and killed dialogues, backups and restores: run_all sees
\* only confirmed configurations (install.sh, apply_new_website, run_all).
OnlyConfirmedRuns ==
  \A c \in cores : c.mode # "dry" => c.target \in confirmed

\* Every hour again, each configured target gets its turn, whatever happens to
\* the targets before it, as long as the service is installed (run_all).
EveryTargetIsRun ==
  \A t \in Targets :
    t \in configs ~> (t \in ran \/ t \notin configs \/ ~installed)
=============================================================================
