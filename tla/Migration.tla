------------------------------ MODULE Migration ------------------------------
(***************************************************************************)
(* Opening the state database: src/internal/state/store.go migrates the    *)
(* schema when a process opens it, core and status report alike, and wipes *)
(* what version 1 left of private keys.  The file is written by SQLite in  *)
(* WAL mode: a commit goes to the write-ahead log, and a checkpoint brings *)
(* it into the main file.                                                  *)
(***************************************************************************)
EXTENDS Integers

CONSTANTS
  Cores,       \* processes of run-once, which take the lock of the target
  Readers,     \* processes of status and target-status, which do not
  MaxFaults,   \* bound: faults in one behaviour
  Faults       \* kinds of fault that can happen

FaultKinds == {"kill",     \* a process is killed
               "sqlite",   \* a statement fails: busy for too long, disk full
               "disk",     \* writing a file of the account fails
               "acme"}     \* the CA answers with an error, or its answer is lost

ASSUME ProcessAssumption ==
  /\ Cores \cap Readers = {}
  /\ "none" \notin Cores
  /\ MaxFaults \in Nat
  /\ Faults \subseteq FaultKinds

VARIABLES
  db,      \* version and columns of the schema; where legacy keys are left
  lock,    \* the core that holds the lock of the target
  proc,    \* the processes: step, account in memory
  faults

Procs == Cores \cup Readers

None == "none"

\* Version 0: no row in schema_meta.  keys: private keys of version 1 are left,
\* in what a checkpoint would write (pages), in the main file, in the log.
NewDatabase == [version |-> 0, columns |-> "new", pages |-> "clean",
                main |-> "clean", wal |-> "empty"]

LegacyDatabases == {[version |-> 1, columns |-> "legacy", pages |-> "keys",
                     main |-> "keys", wal |-> w] : w \in {"empty", "keys"}}

Off == [pc |-> "off", key |-> 0, meta |-> "none"]

At(p, step) == proc[p].pc = step

GoTo(p, step) == proc' = [proc EXCEPT ![p].pc = step]

IsOpen(p) == ~At(p, "off")

\* A commit appends to the log what it finds there.
Logged == IF db.wal = "keys" THEN "keys" ELSE "frames"

Checkpointed == [db EXCEPT !.main = db.pages, !.wal = "empty"]

\* Closing the last connection checkpoints and deletes the log.
AfterClose(p) ==
  IF \E q \in Procs \ {p} : IsOpen(q) THEN db ELSE Checkpointed

\* The process ends: state.Close, then lock.Close.
Leave(p) ==
  /\ db' = AfterClose(p)
  /\ proc' = [proc EXCEPT ![p] = Off]
  /\ lock' = IF lock = p THEN None ELSE lock

Fault(kind) ==
  /\ kind \in Faults
  /\ faults < MaxFaults
  /\ faults' = faults + 1

-----------------------------------------------------------------------------
\* Mutant: the lock of the target is not taken.
AcquireUnlocked(p) ==
  /\ At(p, "off")
  /\ p \in Cores
  /\ lock' = p
  /\ GoTo(p, "open")
  /\ UNCHANGED <<db, faults>>

\* lock.Acquire does not wait: a core that finds the lock held ends.
Acquire(p) ==
  /\ At(p, "off")
  /\ p \in Cores
  /\ lock = None
  /\ lock' = p
  /\ GoTo(p, "open")
  /\ UNCHANGED <<db, faults>>

StartReader(p) ==
  /\ At(p, "off")
  /\ p \in Readers
  /\ GoTo(p, "open")
  /\ UNCHANGED <<db, lock, faults>>

\* Mutant: a scrubbing that was interrupted is not taken up again.
ReadVersionForgets(p) ==
  /\ At(p, "open")
  /\ db.version \in {-2, 0, 1, 2}
  /\ GoTo(p, CASE db.version = 0 -> "insert"
               [] db.version = 1 -> "drop"
               [] OTHER -> "opened")
  /\ UNCHANGED <<db, lock, faults>>

\* CREATE ... IF NOT EXISTS, and the version that decides what is to be done.
ReadVersion(p) ==
  /\ At(p, "open")
  /\ db.version \in {-2, 0, 1, 2}
  /\ GoTo(p, CASE db.version = 0 -> "insert"
               [] db.version = 1 -> "drop"
               [] db.version = -2 -> "truncate"
               [] OTHER -> "opened")
  /\ UNCHANGED <<db, lock, faults>>

\* A version this program does not know.
RefuseVersion(p) ==
  /\ At(p, "open")
  /\ db.version \notin {-2, 0, 1, 2}
  /\ Leave(p)
  /\ UNCHANGED faults

\* A second process may have inserted its row meanwhile; LIMIT 1 reads the first.
InsertVersion(p) ==
  /\ At(p, "insert")
  /\ db' = [db EXCEPT !.version = IF @ = 0 THEN 2 ELSE @, !.wal = Logged]
  /\ GoTo(p, "opened")
  /\ UNCHANGED <<lock, faults>>

\* One transaction: both columns and the version that asks for the scrubbing.
DropColumns(p) ==
  /\ At(p, "drop")
  /\ db.columns = "legacy"
  /\ db' = [db EXCEPT !.columns = "new", !.version = -2, !.wal = Logged]
  /\ GoTo(p, "truncate")
  /\ UNCHANGED <<lock, faults>>

\* Another process dropped the columns after this one had read the version.
DropRefused(p) ==
  /\ At(p, "drop")
  /\ db.columns = "new"
  /\ Leave(p)
  /\ UNCHANGED faults

\* wal_checkpoint(TRUNCATE), before and after; while another process is in the
\* database it gives up, before it copies the log or with the log still there,
\* and reports that in a row which nobody reads.
Truncate(p) ==
  /\ At(p, "truncate") \/ At(p, "finish")
  /\ \/ db' = Checkpointed
     \/ /\ \E q \in Procs \ {p} : IsOpen(q)
        /\ db' \in {db, [db EXCEPT !.main = db.pages]}
  /\ GoTo(p, IF At(p, "truncate") THEN "vacuum" ELSE "opened")
  /\ UNCHANGED <<lock, faults>>

\* Mutant: the pages are not rewritten.
VacuumLeftOut(p) ==
  /\ At(p, "vacuum")
  /\ GoTo(p, "mark")
  /\ UNCHANGED <<db, lock, faults>>

\* VACUUM writes every page anew, into the log.
Vacuum(p) ==
  /\ At(p, "vacuum")
  /\ db' = [db EXCEPT !.pages = "clean", !.wal = Logged]
  /\ GoTo(p, "mark")
  /\ UNCHANGED <<lock, faults>>

MarkScrubbed(p) ==
  /\ At(p, "mark")
  /\ db' = [db EXCEPT !.version = 2, !.wal = Logged]
  /\ GoTo(p, "finish")
  /\ UNCHANGED <<lock, faults>>

\* A statement fails, and init closes the database.
StatementFails(p) ==
  /\ proc[p].pc \in {"open", "insert", "drop", "truncate", "vacuum", "mark", "finish"}
  /\ Fault("sqlite")
  /\ Leave(p)

OpenState(p) ==
  \/ Acquire(p) \/ StartReader(p) \/ ReadVersion(p) \/ RefuseVersion(p)
  \/ InsertVersion(p) \/ DropColumns(p) \/ DropRefused(p) \/ Truncate(p)
  \/ Vacuum(p) \/ MarkScrubbed(p) \/ StatementFails(p)
=============================================================================
