---------------------------- MODULE StartupProofs ----------------------------
(***************************************************************************)
(* What holds of the database and of the account at each step of the       *)
(* processes on one target, for any number of them; the theorems that the  *)
(* migration and the account are consistent follow.                        *)
(***************************************************************************)
EXTENDS Startup, TLAPS

Scrubbing == {"truncate", "vacuum", "mark"}

WithAccount == {"write_key", "write_meta", "account", "save", "ordered"}

Steps == {"off", "open", "insert", "drop", "truncate", "vacuum", "mark", "finish",
          "opened", "write_key", "write_meta", "account", "save", "ordered"}

Metas == {"none", "blank", "registered"}

Processes == [pc : Steps, key : Nat, meta : Metas]

Databases == [version : Int, columns : {"legacy", "new"}, pages : {"keys", "clean"},
              main : {"keys", "clean"}, wal : {"empty", "frames", "keys"}]

Typed ==
  /\ proc \in [Procs -> Processes]
  /\ db \in Databases
  /\ files \in [key : Nat, meta : Metas]
  /\ nkeys \in Nat

\* Pages lose their keys for good, and a process that has come to the scrubbing
\* leaves no columns behind it.
MigrationAtStep ==
  /\ db.version = 1 <=> db.columns = "legacy"
  /\ db.pages = "keys" => db.version \in {-2, 1}
  /\ db.main # "clean" => db.pages # "clean" \/ db.wal # "empty"
  /\ \A p \in Procs :
       /\ proc[p].pc \in Scrubbing => db.columns = "new"
       /\ At(p, "mark") => db.pages = "clean"

\* A core has the lock as long as it is open.
LockHeld ==
  \A p \in Procs :
    /\ p \in Cores /\ IsOpen(p) => lock = p
    /\ proc[p].pc \in WithAccount => p \in Cores

\* The CA knows the key on the disk or none, and only once both files exist.
Registered ==
  /\ ca = {} \/ (ca = {files.key} /\ HasKey /\ HasMeta)
  /\ files.meta = "registered" => ca # {}

\* The process at work on the account agrees with the disk.
AccountAtStep ==
  \A p \in Procs :
    /\ proc[p].pc \in WithAccount => proc[p].key # 0
    /\ proc[p].pc \in {"write_key", "write_meta"} => proc[p].meta = "blank"
    /\ At(p, "write_key") => ~HasKey /\ ~HasMeta
    /\ At(p, "write_meta") => files.key = proc[p].key /\ ~HasMeta
    /\ proc[p].pc \in {"account", "save", "ordered"} =>
         files.key = proc[p].key /\ HasMeta
    /\ At(p, "account") /\ proc[p].meta = "registered" => ca # {}
    /\ At(p, "save") => ca # {}

StartupInv ==
  /\ Typed
  /\ MigrationAtStep
  /\ LockHeld
  /\ Registered
  /\ AccountAtStep

-----------------------------------------------------------------------------
LEMMA WrittenDatabase ==
  ASSUME NEW d \in Databases, NEW v \in Int, NEW w \in {"empty", "frames", "keys"}
  PROVE  [d EXCEPT !.version = v, !.wal = w] \in Databases
  BY DEF Databases

LEMMA MigratedDatabase ==
  ASSUME NEW d \in Databases, NEW v \in Int, NEW w \in {"empty", "frames", "keys"}
  PROVE  [d EXCEPT !.columns = "new", !.version = v, !.wal = w] \in Databases
  BY DEF Databases

LEMMA LoggedType == Logged \in {"empty", "frames", "keys"}
  BY DEF Logged

LEMMA TypedStep ==
  ASSUME StartupInv, [Next]_vars PROVE Typed'
<1>0. db \in Databases /\ db.version \in Int
  BY DEF StartupInv, Typed, Databases
<1>a. ASSUME NEW p \in Procs, InsertVersion(p) PROVE db' \in Databases
  <2>1. (IF db.version = 0 THEN 2 ELSE db.version) \in Int
    BY <1>0
  <2>2. db' = [db EXCEPT !.version = IF db.version = 0 THEN 2 ELSE db.version,
                         !.wal = Logged]
    BY <1>a DEF InsertVersion
  <2>3. QED
    BY ONLY <1>0, <2>1, <2>2, LoggedType, WrittenDatabase
<1>b. ASSUME NEW p \in Procs, DropColumns(p) PROVE db' \in Databases
  <2>1. db' = [db EXCEPT !.columns = "new", !.version = -2, !.wal = Logged]
    BY <1>b DEF DropColumns
  <2>2. -2 \in Int
    OBVIOUS
  <2>3. QED
    BY ONLY <1>0, <2>1, <2>2, LoggedType, MigratedDatabase
<1>c. ASSUME NEW p \in Procs, MarkScrubbed(p) PROVE db' \in Databases
  <2>1. db' = [db EXCEPT !.version = 2, !.wal = Logged] /\ 2 \in Int
    BY <1>c DEF MarkScrubbed
  <2>2. QED
    BY ONLY <1>0, <2>1, LoggedType, WrittenDatabase
<1> USE ProcessAssumption DEF StartupInv, Typed, Processes, Databases, Steps, Metas, accountVars
<1>1. ASSUME NEW p \in Procs, Acquire(p), UNCHANGED accountVars PROVE Typed'
  BY <1>1 DEF Acquire, At, GoTo
<1>2. ASSUME NEW p \in Procs, StartReader(p), UNCHANGED accountVars PROVE Typed'
  BY <1>2 DEF StartReader, At, GoTo
<1>3. ASSUME NEW p \in Procs, ReadVersion(p), UNCHANGED accountVars PROVE Typed'
  BY <1>3 DEF ReadVersion, At, GoTo
<1>4. ASSUME NEW p \in Procs, RefuseVersion(p), UNCHANGED accountVars PROVE Typed'
  BY <1>4 DEF RefuseVersion, At, GoTo, Leave, AfterClose, Checkpointed, Off
<1>5. ASSUME NEW p \in Procs, InsertVersion(p), UNCHANGED accountVars PROVE Typed'
  <2>1. db' \in Databases
    BY <1>5, <1>a
  <2>2. proc' \in [Procs -> Processes] /\ UNCHANGED <<files, nkeys>>
    BY <1>5 DEF InsertVersion, GoTo
  <2>3. QED
    BY <2>1, <2>2
<1>6. ASSUME NEW p \in Procs, DropColumns(p), UNCHANGED accountVars PROVE Typed'
  <2>1. db' \in Databases
    BY <1>6, <1>b
  <2>2. proc' \in [Procs -> Processes] /\ UNCHANGED <<files, nkeys>>
    BY <1>6 DEF DropColumns, GoTo
  <2>3. QED
    BY <2>1, <2>2
<1>7. ASSUME NEW p \in Procs, DropRefused(p), UNCHANGED accountVars PROVE Typed'
  BY <1>7 DEF DropRefused, At, GoTo, Leave, AfterClose, Checkpointed, Off
<1>8. ASSUME NEW p \in Procs, Truncate(p), UNCHANGED accountVars PROVE Typed'
  <2>1. db' \in Databases
    BY <1>8 DEF Truncate, Checkpointed
  <2>2. proc' \in [Procs -> Processes] /\ UNCHANGED <<files, nkeys>>
    BY <1>8 DEF Truncate, GoTo
  <2>3. QED
    BY <2>1, <2>2
<1>9. ASSUME NEW p \in Procs, Vacuum(p), UNCHANGED accountVars PROVE Typed'
  <2>1. db' \in Databases
    BY <1>9 DEF Vacuum, Logged
  <2>2. proc' \in [Procs -> Processes] /\ UNCHANGED <<files, nkeys>>
    BY <1>9 DEF Vacuum, GoTo
  <2>3. QED
    BY <2>1, <2>2
<1>10. ASSUME NEW p \in Procs, MarkScrubbed(p), UNCHANGED accountVars PROVE Typed'
  <2>1. db' \in Databases
    BY <1>10, <1>c
  <2>2. proc' \in [Procs -> Processes] /\ UNCHANGED <<files, nkeys>>
    BY <1>10 DEF MarkScrubbed, GoTo
  <2>3. QED
    BY <2>1, <2>2
<1>11. ASSUME NEW p \in Procs, StatementFails(p), UNCHANGED accountVars PROVE Typed'
  BY <1>11 DEF StatementFails, At, GoTo, Leave, AfterClose, Checkpointed, Off, Fault
<1>12. ASSUME NEW p \in Procs, LoadOrCreate(p) PROVE Typed'
  BY <1>12 DEF LoadOrCreate, At, GoTo
<1>13. ASSUME NEW p \in Procs, RefuseHalfPair(p) PROVE Typed'
  BY <1>13 DEF RefuseHalfPair, At, GoTo, Leave, AfterClose, Checkpointed, Off
<1>14. ASSUME NEW p \in Procs, WriteKey(p) PROVE Typed'
  BY <1>14 DEF WriteKey, At, GoTo
<1>15. ASSUME NEW p \in Procs, WriteMeta(p) PROVE Typed'
  BY <1>15 DEF WriteMeta, At, GoTo
<1>16. ASSUME NEW p \in Procs, Register(p) PROVE Typed'
  BY <1>16 DEF Register, At, GoTo
<1>17. ASSUME NEW p \in Procs, SaveRegistration(p) PROVE Typed'
  BY <1>17 DEF SaveRegistration, At, GoTo
<1>18. ASSUME NEW p \in Procs, QueryRegistration(p) PROVE Typed'
  BY <1>18 DEF QueryRegistration, At, GoTo
<1>19. ASSUME NEW p \in Procs, RequestFails(p) PROVE Typed'
  BY <1>19 DEF RequestFails, At, GoTo, Leave, AfterClose, Checkpointed, Off, Fault
<1>20. ASSUME NEW p \in Procs, WriteFails(p) PROVE Typed'
  BY <1>20 DEF WriteFails, At, GoTo, Leave, AfterClose, Checkpointed, Off, Fault, Written
<1>21. ASSUME NEW p \in Procs, Finish(p) PROVE Typed'
  BY <1>21 DEF Finish, At, GoTo, Leave, AfterClose, Checkpointed, Off
<1>22. ASSUME NEW p \in Procs, Kill(p) PROVE Typed'
  BY <1>22 DEF Kill, At, GoTo, Off, Fault
<1>23. CASE RemoveHalfPair
  BY <1>23 DEF RemoveHalfPair
<1>24. CASE UNCHANGED vars
  BY <1>24 DEF vars
<1>25. QED
  BY <1>1, <1>2, <1>3, <1>4, <1>5, <1>6, <1>7, <1>8, <1>9, <1>10, <1>11, <1>12, <1>13, <1>14, <1>15, <1>16, <1>17, <1>18, <1>19, <1>20, <1>21, <1>22, <1>23, <1>24 DEF Next, Step, OpenState, UseAccount

LEMMA MigrationStep ==
  ASSUME StartupInv, [Next]_vars PROVE MigrationAtStep'
<1> USE ProcessAssumption DEF StartupInv, Typed, Processes, Databases, Steps, Metas, MigrationAtStep, Scrubbing, accountVars, At, GoTo
<1>1. ASSUME NEW p \in Procs, Acquire(p), UNCHANGED accountVars PROVE MigrationAtStep'
  BY <1>1 DEF Acquire
<1>2. ASSUME NEW p \in Procs, StartReader(p), UNCHANGED accountVars PROVE MigrationAtStep'
  BY <1>2 DEF StartReader
<1>3. ASSUME NEW p \in Procs, ReadVersion(p), UNCHANGED accountVars PROVE MigrationAtStep'
  BY <1>3 DEF ReadVersion
<1>4. ASSUME NEW p \in Procs, RefuseVersion(p), UNCHANGED accountVars PROVE MigrationAtStep'
  BY <1>4 DEF RefuseVersion, Leave, AfterClose, Checkpointed, Off
<1>5. ASSUME NEW p \in Procs, InsertVersion(p), UNCHANGED accountVars PROVE MigrationAtStep'
  BY <1>5 DEF InsertVersion, Logged
<1>6. ASSUME NEW p \in Procs, DropColumns(p), UNCHANGED accountVars PROVE MigrationAtStep'
  BY <1>6 DEF DropColumns, Logged
<1>7. ASSUME NEW p \in Procs, DropRefused(p), UNCHANGED accountVars PROVE MigrationAtStep'
  BY <1>7 DEF DropRefused, Leave, AfterClose, Checkpointed, Off
<1>8. ASSUME NEW p \in Procs, Truncate(p), UNCHANGED accountVars PROVE MigrationAtStep'
  BY <1>8 DEF Truncate, Checkpointed
<1>9. ASSUME NEW p \in Procs, Vacuum(p), UNCHANGED accountVars PROVE MigrationAtStep'
  BY <1>9 DEF Vacuum, Logged
<1>10. ASSUME NEW p \in Procs, MarkScrubbed(p), UNCHANGED accountVars PROVE MigrationAtStep'
  BY <1>10 DEF MarkScrubbed, Logged
<1>11. ASSUME NEW p \in Procs, StatementFails(p), UNCHANGED accountVars PROVE MigrationAtStep'
  BY <1>11 DEF StatementFails, Leave, AfterClose, Checkpointed, Off, Fault
<1>12. ASSUME NEW p \in Procs, LoadOrCreate(p) PROVE MigrationAtStep'
  BY <1>12 DEF LoadOrCreate
<1>13. ASSUME NEW p \in Procs, RefuseHalfPair(p) PROVE MigrationAtStep'
  BY <1>13 DEF RefuseHalfPair, Leave, AfterClose, Checkpointed, Off
<1>14. ASSUME NEW p \in Procs, WriteKey(p) PROVE MigrationAtStep'
  BY <1>14 DEF WriteKey
<1>15. ASSUME NEW p \in Procs, WriteMeta(p) PROVE MigrationAtStep'
  BY <1>15 DEF WriteMeta
<1>16. ASSUME NEW p \in Procs, Register(p) PROVE MigrationAtStep'
  BY <1>16 DEF Register
<1>17. ASSUME NEW p \in Procs, SaveRegistration(p) PROVE MigrationAtStep'
  BY <1>17 DEF SaveRegistration
<1>18. ASSUME NEW p \in Procs, QueryRegistration(p) PROVE MigrationAtStep'
  BY <1>18 DEF QueryRegistration
<1>19. ASSUME NEW p \in Procs, RequestFails(p) PROVE MigrationAtStep'
  BY <1>19 DEF RequestFails, Leave, AfterClose, Checkpointed, Off, Fault
<1>20. ASSUME NEW p \in Procs, WriteFails(p) PROVE MigrationAtStep'
  BY <1>20 DEF WriteFails, Leave, AfterClose, Checkpointed, Off, Fault, Written
<1>21. ASSUME NEW p \in Procs, Finish(p) PROVE MigrationAtStep'
  BY <1>21 DEF Finish, Leave, AfterClose, Checkpointed, Off
<1>22. ASSUME NEW p \in Procs, Kill(p) PROVE MigrationAtStep'
  BY <1>22 DEF Kill, Off, Fault
<1>23. CASE RemoveHalfPair
  BY <1>23 DEF RemoveHalfPair
<1>24. CASE UNCHANGED vars
  BY <1>24 DEF vars
<1>25. QED
  BY <1>1, <1>2, <1>3, <1>4, <1>5, <1>6, <1>7, <1>8, <1>9, <1>10, <1>11, <1>12, <1>13, <1>14, <1>15, <1>16, <1>17, <1>18, <1>19, <1>20, <1>21, <1>22, <1>23, <1>24 DEF Next, Step, OpenState, UseAccount

LEMMA LockStep ==
  ASSUME StartupInv, [Next]_vars PROVE LockHeld'
<1> USE ProcessAssumption DEF StartupInv, Typed, Processes, Databases, Steps, Metas, LockHeld, IsOpen, WithAccount, Procs, None, accountVars, At, GoTo
<1>1. ASSUME NEW p \in Procs, Acquire(p), UNCHANGED accountVars PROVE LockHeld'
  BY <1>1 DEF Acquire
<1>2. ASSUME NEW p \in Procs, StartReader(p), UNCHANGED accountVars PROVE LockHeld'
  BY <1>2 DEF StartReader
<1>3. ASSUME NEW p \in Procs, ReadVersion(p), UNCHANGED accountVars PROVE LockHeld'
  BY <1>3 DEF ReadVersion
<1>4. ASSUME NEW p \in Procs, RefuseVersion(p), UNCHANGED accountVars PROVE LockHeld'
  BY <1>4 DEF RefuseVersion, Leave, AfterClose, Checkpointed, Off
<1>5. ASSUME NEW p \in Procs, InsertVersion(p), UNCHANGED accountVars PROVE LockHeld'
  BY <1>5 DEF InsertVersion, Logged
<1>6. ASSUME NEW p \in Procs, DropColumns(p), UNCHANGED accountVars PROVE LockHeld'
  BY <1>6 DEF DropColumns, Logged
<1>7. ASSUME NEW p \in Procs, DropRefused(p), UNCHANGED accountVars PROVE LockHeld'
  BY <1>7 DEF DropRefused, Leave, AfterClose, Checkpointed, Off
<1>8. ASSUME NEW p \in Procs, Truncate(p), UNCHANGED accountVars PROVE LockHeld'
  BY <1>8 DEF Truncate, Checkpointed
<1>9. ASSUME NEW p \in Procs, Vacuum(p), UNCHANGED accountVars PROVE LockHeld'
  BY <1>9 DEF Vacuum, Logged
<1>10. ASSUME NEW p \in Procs, MarkScrubbed(p), UNCHANGED accountVars PROVE LockHeld'
  BY <1>10 DEF MarkScrubbed, Logged
<1>11. ASSUME NEW p \in Procs, StatementFails(p), UNCHANGED accountVars PROVE LockHeld'
  BY <1>11 DEF StatementFails, Leave, AfterClose, Checkpointed, Off, Fault
<1>12. ASSUME NEW p \in Procs, LoadOrCreate(p) PROVE LockHeld'
  BY <1>12 DEF LoadOrCreate
<1>13. ASSUME NEW p \in Procs, RefuseHalfPair(p) PROVE LockHeld'
  BY <1>13 DEF RefuseHalfPair, Leave, AfterClose, Checkpointed, Off
<1>14. ASSUME NEW p \in Procs, WriteKey(p) PROVE LockHeld'
  BY <1>14 DEF WriteKey
<1>15. ASSUME NEW p \in Procs, WriteMeta(p) PROVE LockHeld'
  BY <1>15 DEF WriteMeta
<1>16. ASSUME NEW p \in Procs, Register(p) PROVE LockHeld'
  BY <1>16 DEF Register
<1>17. ASSUME NEW p \in Procs, SaveRegistration(p) PROVE LockHeld'
  BY <1>17 DEF SaveRegistration
<1>18. ASSUME NEW p \in Procs, QueryRegistration(p) PROVE LockHeld'
  BY <1>18 DEF QueryRegistration
<1>19. ASSUME NEW p \in Procs, RequestFails(p) PROVE LockHeld'
  BY <1>19 DEF RequestFails, Leave, AfterClose, Checkpointed, Off, Fault
<1>20. ASSUME NEW p \in Procs, WriteFails(p) PROVE LockHeld'
  BY <1>20 DEF WriteFails, Leave, AfterClose, Checkpointed, Off, Fault, Written
<1>21. ASSUME NEW p \in Procs, Finish(p) PROVE LockHeld'
  BY <1>21 DEF Finish, Leave, AfterClose, Checkpointed, Off
<1>22. ASSUME NEW p \in Procs, Kill(p) PROVE LockHeld'
  BY <1>22 DEF Kill, Off, Fault
<1>23. CASE RemoveHalfPair
  BY <1>23 DEF RemoveHalfPair
<1>24. CASE UNCHANGED vars
  BY <1>24 DEF vars
<1>25. QED
  BY <1>1, <1>2, <1>3, <1>4, <1>5, <1>6, <1>7, <1>8, <1>9, <1>10, <1>11, <1>12, <1>13, <1>14, <1>15, <1>16, <1>17, <1>18, <1>19, <1>20, <1>21, <1>22, <1>23, <1>24 DEF Next, Step, OpenState, UseAccount

LEMMA RegisteredStep ==
  ASSUME StartupInv, [Next]_vars PROVE Registered'
<1> USE ProcessAssumption DEF StartupInv, Typed, Processes, Databases, Steps, Metas, Registered, LockHeld, AccountAtStep, HasKey, HasMeta, IsOpen, WithAccount, Procs, None, accountVars, At, GoTo
<1>1. ASSUME NEW p \in Procs, Acquire(p), UNCHANGED accountVars PROVE Registered'
  BY <1>1 DEF Acquire
<1>2. ASSUME NEW p \in Procs, StartReader(p), UNCHANGED accountVars PROVE Registered'
  BY <1>2 DEF StartReader
<1>3. ASSUME NEW p \in Procs, ReadVersion(p), UNCHANGED accountVars PROVE Registered'
  BY <1>3 DEF ReadVersion
<1>4. ASSUME NEW p \in Procs, RefuseVersion(p), UNCHANGED accountVars PROVE Registered'
  BY <1>4 DEF RefuseVersion, Leave, AfterClose, Checkpointed, Off
<1>5. ASSUME NEW p \in Procs, InsertVersion(p), UNCHANGED accountVars PROVE Registered'
  BY <1>5 DEF InsertVersion, Logged
<1>6. ASSUME NEW p \in Procs, DropColumns(p), UNCHANGED accountVars PROVE Registered'
  BY <1>6 DEF DropColumns, Logged
<1>7. ASSUME NEW p \in Procs, DropRefused(p), UNCHANGED accountVars PROVE Registered'
  BY <1>7 DEF DropRefused, Leave, AfterClose, Checkpointed, Off
<1>8. ASSUME NEW p \in Procs, Truncate(p), UNCHANGED accountVars PROVE Registered'
  BY <1>8 DEF Truncate, Checkpointed
<1>9. ASSUME NEW p \in Procs, Vacuum(p), UNCHANGED accountVars PROVE Registered'
  BY <1>9 DEF Vacuum, Logged
<1>10. ASSUME NEW p \in Procs, MarkScrubbed(p), UNCHANGED accountVars PROVE Registered'
  BY <1>10 DEF MarkScrubbed, Logged
<1>11. ASSUME NEW p \in Procs, StatementFails(p), UNCHANGED accountVars PROVE Registered'
  BY <1>11 DEF StatementFails, Leave, AfterClose, Checkpointed, Off, Fault
<1>12. ASSUME NEW p \in Procs, LoadOrCreate(p) PROVE Registered'
  BY <1>12 DEF LoadOrCreate
<1>13. ASSUME NEW p \in Procs, RefuseHalfPair(p) PROVE Registered'
  BY <1>13 DEF RefuseHalfPair, Leave, AfterClose, Checkpointed, Off
<1>14. ASSUME NEW p \in Procs, WriteKey(p) PROVE Registered'
  BY <1>14 DEF WriteKey
<1>15. ASSUME NEW p \in Procs, WriteMeta(p) PROVE Registered'
  BY <1>15 DEF WriteMeta
<1>16. ASSUME NEW p \in Procs, Register(p) PROVE Registered'
  BY <1>16 DEF Register
<1>17. ASSUME NEW p \in Procs, SaveRegistration(p) PROVE Registered'
  BY <1>17 DEF SaveRegistration
<1>18. ASSUME NEW p \in Procs, QueryRegistration(p) PROVE Registered'
  BY <1>18 DEF QueryRegistration
<1>19. ASSUME NEW p \in Procs, RequestFails(p) PROVE Registered'
  BY <1>19 DEF RequestFails, Leave, AfterClose, Checkpointed, Off, Fault
<1>20. ASSUME NEW p \in Procs, WriteFails(p) PROVE Registered'
  BY <1>20 DEF WriteFails, Leave, AfterClose, Checkpointed, Off, Fault, Written
<1>21. ASSUME NEW p \in Procs, Finish(p) PROVE Registered'
  BY <1>21 DEF Finish, Leave, AfterClose, Checkpointed, Off
<1>22. ASSUME NEW p \in Procs, Kill(p) PROVE Registered'
  BY <1>22 DEF Kill, Off, Fault
<1>23. CASE RemoveHalfPair
  BY <1>23 DEF RemoveHalfPair
<1>24. CASE UNCHANGED vars
  BY <1>24 DEF vars
<1>25. QED
  BY <1>1, <1>2, <1>3, <1>4, <1>5, <1>6, <1>7, <1>8, <1>9, <1>10, <1>11, <1>12, <1>13, <1>14, <1>15, <1>16, <1>17, <1>18, <1>19, <1>20, <1>21, <1>22, <1>23, <1>24 DEF Next, Step, OpenState, UseAccount

LEMMA AccountStep ==
  ASSUME StartupInv, [Next]_vars PROVE AccountAtStep'
<1> USE ProcessAssumption DEF StartupInv, Typed, Processes, Databases, Steps, Metas, Registered, LockHeld, AccountAtStep, HasKey, HasMeta, IsOpen, WithAccount, Procs, None, accountVars, At, GoTo
<1>1. ASSUME NEW p \in Procs, Acquire(p), UNCHANGED accountVars PROVE AccountAtStep'
  BY <1>1 DEF Acquire
<1>2. ASSUME NEW p \in Procs, StartReader(p), UNCHANGED accountVars PROVE AccountAtStep'
  BY <1>2 DEF StartReader
<1>3. ASSUME NEW p \in Procs, ReadVersion(p), UNCHANGED accountVars PROVE AccountAtStep'
  BY <1>3 DEF ReadVersion
<1>4. ASSUME NEW p \in Procs, RefuseVersion(p), UNCHANGED accountVars PROVE AccountAtStep'
  BY <1>4 DEF RefuseVersion, Leave, AfterClose, Checkpointed, Off
<1>5. ASSUME NEW p \in Procs, InsertVersion(p), UNCHANGED accountVars PROVE AccountAtStep'
  BY <1>5 DEF InsertVersion, Logged
<1>6. ASSUME NEW p \in Procs, DropColumns(p), UNCHANGED accountVars PROVE AccountAtStep'
  BY <1>6 DEF DropColumns, Logged
<1>7. ASSUME NEW p \in Procs, DropRefused(p), UNCHANGED accountVars PROVE AccountAtStep'
  BY <1>7 DEF DropRefused, Leave, AfterClose, Checkpointed, Off
<1>8. ASSUME NEW p \in Procs, Truncate(p), UNCHANGED accountVars PROVE AccountAtStep'
  BY <1>8 DEF Truncate, Checkpointed
<1>9. ASSUME NEW p \in Procs, Vacuum(p), UNCHANGED accountVars PROVE AccountAtStep'
  BY <1>9 DEF Vacuum, Logged
<1>10. ASSUME NEW p \in Procs, MarkScrubbed(p), UNCHANGED accountVars PROVE AccountAtStep'
  BY <1>10 DEF MarkScrubbed, Logged
<1>11. ASSUME NEW p \in Procs, StatementFails(p), UNCHANGED accountVars PROVE AccountAtStep'
  BY <1>11 DEF StatementFails, Leave, AfterClose, Checkpointed, Off, Fault
<1>12. ASSUME NEW p \in Procs, LoadOrCreate(p) PROVE AccountAtStep'
  BY <1>12 DEF LoadOrCreate
<1>13. ASSUME NEW p \in Procs, RefuseHalfPair(p) PROVE AccountAtStep'
  BY <1>13 DEF RefuseHalfPair, Leave, AfterClose, Checkpointed, Off
<1>14. ASSUME NEW p \in Procs, WriteKey(p) PROVE AccountAtStep'
  BY <1>14 DEF WriteKey
<1>15. ASSUME NEW p \in Procs, WriteMeta(p) PROVE AccountAtStep'
  BY <1>15 DEF WriteMeta
<1>16. ASSUME NEW p \in Procs, Register(p) PROVE AccountAtStep'
  BY <1>16 DEF Register
<1>17. ASSUME NEW p \in Procs, SaveRegistration(p) PROVE AccountAtStep'
  BY <1>17 DEF SaveRegistration
<1>18. ASSUME NEW p \in Procs, QueryRegistration(p) PROVE AccountAtStep'
  BY <1>18 DEF QueryRegistration
<1>19. ASSUME NEW p \in Procs, RequestFails(p) PROVE AccountAtStep'
  BY <1>19 DEF RequestFails, Leave, AfterClose, Checkpointed, Off, Fault
<1>20. ASSUME NEW p \in Procs, WriteFails(p) PROVE AccountAtStep'
  BY <1>20 DEF WriteFails, Leave, AfterClose, Checkpointed, Off, Fault, Written
<1>21. ASSUME NEW p \in Procs, Finish(p) PROVE AccountAtStep'
  BY <1>21 DEF Finish, Leave, AfterClose, Checkpointed, Off
<1>22. ASSUME NEW p \in Procs, Kill(p) PROVE AccountAtStep'
  BY <1>22 DEF Kill, Off, Fault
<1>23. CASE RemoveHalfPair
  BY <1>23 DEF RemoveHalfPair
<1>24. CASE UNCHANGED vars
  BY <1>24 DEF vars
<1>25. QED
  BY <1>1, <1>2, <1>3, <1>4, <1>5, <1>6, <1>7, <1>8, <1>9, <1>10, <1>11, <1>12, <1>13, <1>14, <1>15, <1>16, <1>17, <1>18, <1>19, <1>20, <1>21, <1>22, <1>23, <1>24 DEF Next, Step, OpenState, UseAccount

LEMMA InvariantAtInit == Init => StartupInv
<1> USE DEF Init, StartupInv, Off, NewDatabase, LegacyDatabases
<1>1. Init => Typed
  BY DEF Typed, Processes, Databases, Steps, Metas
<1>2. Init => MigrationAtStep
  BY DEF MigrationAtStep, Scrubbing, At
<1>3. Init => LockHeld
  BY DEF LockHeld, IsOpen, At, WithAccount
<1>4. Init => Registered /\ AccountAtStep
  BY DEF Registered, AccountAtStep, HasKey, HasMeta, At, WithAccount
<1>5. QED
  BY <1>1, <1>2, <1>3, <1>4

\* Startup: each part of the invariant is kept by every step of every process.
THEOREM Inductive == Spec => []StartupInv
<1>1. StartupInv /\ [Next]_vars => StartupInv'
  <2> SUFFICES ASSUME StartupInv, [Next]_vars PROVE StartupInv'
    OBVIOUS
  <2>1. Typed' /\ MigrationAtStep' /\ LockHeld'
    BY TypedStep, MigrationStep, LockStep
  <2>2. Registered' /\ AccountAtStep'
    BY RegisteredStep, AccountStep
  <2>3. QED
    BY <2>1, <2>2 DEF StartupInv
<1>2. QED
  BY <1>1, InvariantAtInit, PTL DEF Spec

\* Interrupted and concurrent migrations leave a version that tells what is in
\* the database, and no private key once it is 2 (store.go, init).
THEOREM MigrationSafe == Spec => []MigrationConsistent
<1>1. StartupInv => MigrationConsistent
  BY DEF StartupInv, Typed, Databases, MigrationAtStep, MigrationConsistent
<1>2. QED
  BY <1>1, Inductive, PTL

\* The CA has one account at most, whose key is on the disk, and a pair of
\* which one file is missing was never registered (account.go, issuer.go).
THEOREM AccountSafe == Spec => []AccountConsistent
<1>1. StartupInv => AccountConsistent
  BY DEF StartupInv, Registered, AccountConsistent, HasKey, HasMeta
<1>2. QED
  BY <1>1, Inductive, PTL
=============================================================================
