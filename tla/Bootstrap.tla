------------------------------ MODULE Bootstrap ------------------------------
(***************************************************************************)
(* InitializeDatabase in src/internal/bootstrap/database.go: it creates    *)
(* the MySQL account of the service, grants it the challenge table and     *)
(* writes its password into a credential file, and when the file is there  *)
(* already it only verifies it.  The steps are separate because the        *)
(* process can be killed between them; the module Installation runs them   *)
(* as a part of install.sh.                                                *)
(***************************************************************************)
EXTENDS Naturals

CONSTANTS
  MaxPasswords,   \* bound: passwords that are generated
  MaxFaults,      \* bound: faults in one behaviour
  Faults          \* kinds of fault that can happen

FaultKinds == {"crash",      \* the process is killed
               "mysql",      \* a statement or a login fails, or its reply is lost
               "cleanup",    \* removing the file or the account of a failed
                             \* attempt fails
               "disk",       \* a file cannot be written
               "command"}    \* another command of the script fails

ASSUME BootstrapAssumption ==
  /\ {MaxPasswords, MaxFaults} \subseteq Nat
  /\ Faults \subseteq FaultKinds

VARIABLES
  account,      \* the MySQL account of the service
  credential,   \* password in the credential file; 0: no file
  dbname,       \* the database-name file exists
  password,     \* the password this attempt has generated
  npasswords,   \* passwords generated so far
  kept,         \* history: the file of a failed attempt could not be removed
  pc,           \* the step the process is at
  faults

bootVars == <<account, credential, dbname, password, npasswords, kept>>

NoAccount == [password |-> 0, granted |-> FALSE]

\* The account was left behind without the file that holds its password.
Stranded == account # NoAccount /\ credential = 0

\* The file was left behind without an account it opens.
Spoiled ==
  credential # 0 /\ account # [password |-> credential, granted |-> TRUE]

Fault(kind) == kind \in Faults /\ faults < MaxFaults /\ faults' = faults + 1

At(step) == pc = step

GoTo(step) == pc' = step

\* Either what the step does, or its failure, which leads to the step given.
OrFail(kind, step, success) ==
  \/ success /\ UNCHANGED faults
  \/ Fault(kind) /\ GoTo(step) /\ UNCHANGED bootVars

\* verifyRuntimeDSN: login, and exactly the least privileges.
CredentialAccepted ==
  credential # 0 /\ account = [password |-> credential, granted |-> TRUE]

-----------------------------------------------------------------------------
BootStat ==
  /\ At("boot")
  /\ GoTo(IF credential # 0 THEN "boot_existing" ELSE "boot_count")
  /\ password' = 0
  /\ UNCHANGED <<account, credential, dbname, npasswords, kept, faults>>

\* Mutant: a credential that does not work is replaced.
BootVerifyExistingResets ==
  /\ At("boot_existing")
  /\ OrFail("mysql", "boot_remove",
            CredentialAccepted /\ GoTo("boot_existing_name") /\ UNCHANGED bootVars)

BootVerifyExisting ==
  /\ At("boot_existing")
  /\ \/ OrFail("mysql", "idle",
               CredentialAccepted /\ GoTo("boot_existing_name") /\ UNCHANGED bootVars)
     \/ ~CredentialAccepted /\ GoTo("idle") /\ UNCHANGED <<bootVars, faults>>

BootExistingName ==
  /\ At("boot_existing_name")
  /\ OrFail("disk", "idle",
            dbname' = TRUE /\ GoTo("binary")
            /\ UNCHANGED <<account, credential, password, npasswords, kept>>)

\* The configuration, the login of the administrator, the challenge table and
\* the count of accounts.  An account without a file is never reset.
BootCountUser ==
  /\ At("boot_count")
  /\ OrFail("mysql", "idle",
            GoTo(IF account = NoAccount THEN "boot_create" ELSE "idle")
            /\ UNCHANGED bootVars)

\* A statement whose reply is lost has failed for the program, applied or not.
BootCreateUser ==
  /\ At("boot_create")
  /\ npasswords < MaxPasswords
  /\ npasswords' = npasswords + 1 /\ password' = npasswords'
  /\ LET created == [password |-> password', granted |-> FALSE]
     IN  \/ account' = created /\ GoTo("boot_grant") /\ UNCHANGED faults
         \/ Fault("mysql") /\ GoTo("idle") /\ account' \in {account, created}
  /\ UNCHANGED <<credential, dbname, kept>>

BootGrant ==
  /\ At("boot_grant")
  /\ LET granted == [account EXCEPT !.granted = TRUE]
     IN  \/ account' = granted /\ GoTo("boot_write") /\ UNCHANGED faults
         \/ /\ Fault("mysql") /\ GoTo("boot_drop")
            /\ account' \in {account, granted}
  /\ UNCHANGED <<credential, dbname, password, npasswords, kept>>

BootWriteCredential ==
  /\ At("boot_write")
  /\ OrFail("disk", "boot_drop",
            credential' = password /\ GoTo("boot_verify")
            /\ UNCHANGED <<account, dbname, password, npasswords, kept>>)

\* Mutant: the account is dropped while its file is still there.
BootVerifyDrops ==
  /\ At("boot_verify")
  /\ OrFail("mysql", "boot_drop",
            CredentialAccepted /\ GoTo("boot_name") /\ UNCHANGED bootVars)

BootVerify ==
  /\ At("boot_verify")
  /\ OrFail("mysql", "boot_remove",
            CredentialAccepted /\ GoTo("boot_name") /\ UNCHANGED bootVars)

BootName ==
  /\ At("boot_name")
  /\ OrFail("disk", "boot_remove",
            dbname' = TRUE /\ GoTo("binary")
            /\ UNCHANGED <<account, credential, password, npasswords, kept>>)

\* os.Remove of the credential file; its error is ignored, and the deferred
\* DROP USER follows all the same.
BootRemove ==
  /\ At("boot_remove") /\ GoTo("boot_drop")
  /\ \/ credential' = 0 /\ UNCHANGED <<kept, faults>>
     \/ Fault("cleanup") /\ kept' = TRUE /\ UNCHANGED credential
  /\ UNCHANGED <<account, dbname, password, npasswords>>

\* The deferred DROP USER; its error is ignored.
BootDrop ==
  /\ At("boot_drop")
  /\ OrFail("cleanup", "idle",
            account' = NoAccount /\ GoTo("idle")
            /\ UNCHANGED <<credential, dbname, password, npasswords, kept>>)

Bootstrap ==
  \/ BootStat \/ BootVerifyExisting \/ BootExistingName \/ BootCountUser
  \/ BootCreateUser \/ BootGrant \/ BootWriteCredential \/ BootVerify
  \/ BootName \/ BootRemove \/ BootDrop
=============================================================================
