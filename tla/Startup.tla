------------------------------- MODULE Startup -------------------------------
(***************************************************************************)
(* How a process comes to its work on one target (runOnce, status and      *)
(* target-status in src/cmd/goedge-ip-cert): a core takes the lock, opens  *)
(* and migrates the state, loads or creates the account, runs and leaves;  *)
(* a report opens the state without the lock.                              *)
(***************************************************************************)
EXTENDS Account

vars == <<db, lock, proc, faults, files, ca, nkeys>>

Init ==
  /\ db \in {NewDatabase, [NewDatabase EXCEPT !.version = 3]} \cup LegacyDatabases
  /\ lock = None
  /\ proc = [p \in Procs |-> Off]
  /\ faults = 0
  /\ files = [key |-> 0, meta |-> "none"]
  /\ ca = {}
  /\ nkeys = 0

\* The report, a dry run, a run without an order or after one ends.
Finish(p) ==
  /\ proc[p].pc \in {"opened", "account", "ordered"}
  /\ Leave(p)
  /\ UNCHANGED <<faults, accountVars>>

\* The kernel drops the lock; nothing is checkpointed.
Kill(p) ==
  /\ IsOpen(p)
  /\ Fault("kill")
  /\ proc' = [proc EXCEPT ![p] = Off]
  /\ lock' = IF lock = p THEN None ELSE lock
  /\ UNCHANGED <<db, accountVars>>

\* The administrator removes what is left of a pair.
RemoveHalfPair ==
  /\ lock = None
  /\ HasKey # HasMeta
  /\ files' = [key |-> 0, meta |-> "none"]
  /\ UNCHANGED <<db, lock, proc, faults, ca, nkeys>>

Step(p) == \/ OpenState(p) /\ UNCHANGED accountVars
           \/ UseAccount(p)
           \/ Finish(p)

Next == (\E p \in Procs : Step(p) \/ Kill(p)) \/ RemoveHalfPair

Spec == Init /\ [][Next]_vars

\* A process that is not killed goes on, and a core is started every hour.
FairSpec ==
  /\ Spec
  /\ \A p \in Procs : WF_vars(IsOpen(p) /\ Step(p))
  /\ WF_vars(\E p \in Cores : Step(p))

-----------------------------------------------------------------------------
\* Wherever a migration was interrupted and whoever else was migrating, the
\* version tells which columns there are; with version 2 no page a checkpoint
\* writes holds a private key of version 1, and neither does the main file once
\* the log has been brought into it.
MigrationConsistent ==
  /\ db.version = 1 <=> db.columns = "legacy"
  /\ db.version = 2 => db.pages = "clean"
  /\ db.version = 2 /\ db.wal = "empty" => db.main = "clean"

\* A run lasts minutes, so that again and again nobody has the database open.
Quiet == \A p \in Procs : ~IsOpen(p)

\* In the end the private keys of version 1 are in neither of the files,
\* though each migration may have been interrupted at any step, and each
\* checkpoint been skipped for a process that was reading.
KeysGoneInTheEnd ==
  []<>Quiet => (db.version = 1 ~> [](db.version = 2 /\ db.main = "clean" /\ db.wal # "keys"))

\* The CA has at most one account, whose key is on the disk; a stored
\* registration is one of that key; and a pair of which one file is missing
\* was never registered, so that removing it loses nothing.
AccountConsistent ==
  /\ ca \subseteq {files.key}
  /\ files.meta = "registered" => files.key \in ca
  /\ HasKey # HasMeta => ca = {}
=============================================================================
