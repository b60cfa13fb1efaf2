# Verification of goedge-ip-cert

goedge-ip-cert obtains Let's Encrypt certificates for bare IPv4 addresses by
HTTP-01, stores them in GoEdge (EdgeAPI) and renews them from an hourly systemd
timer. This directory holds TLA+ models of it, the TLC configurations that check
them on small instances, and proofs checked by TLAPS. Every definition is
translated from the code; `PROJECT.json` (`map`) names the lines.

## 1. Inventory

| Component (code) | State | Operations | Module |
|---|---|---|---|
| lifecycle runner (`internal/lifecycle/runner.go`) | none of its own; local variables of one run | `RunOnce`: recover challenges, rollbacks and operations, then first issue or renewal | `Lifecycle` |
| state store (`internal/state/store.go`, `model.go`) | SQLite: `operations`, `managed_certs` | create, compare-and-set of the stage, errors with retry, activation | `Lifecycle` |
| rollback snapshots (`internal/rollback/store.go`) | files with the old certificate and key | save, load, list, delete | `Lifecycle` |
| TLS verification (`internal/tlsverify`) | none | poll the node until it serves the fingerprint | `Lifecycle` |
| EdgeAPI certificates and policies (`internal/goedge/cert.go`, `policy.go`) | outside: certificate objects, bindings | create, update, read, search by marker, check a binding | `Lifecycle` |
| challenge provider (`internal/challenge`, `internal/state/challenge.go`) | MySQL table shared with GoEdge; journal in SQLite | present, clean up, recover | `Challenge` |
| renewal policy (`internal/scheduler/policy.go`), timer unit | none | next renewal, due, retry delay | `Scheduler`, `RetrySchedule` |
| database bootstrap (`internal/bootstrap/database.go`) | MySQL account, credential file, database-name file | create, grant, verify, undo | `Bootstrap` |
| installer (`install.sh`) | directories, marker, credentials, programs, units | install, repeat, update, uninstall | `Installation` |
| manager (`install.sh`), target lock (`internal/lock`), `cmd` | global lock, target locks, target configurations, backup | new website, run-all, backup, restore, uninstall | `Manager` |
| website discovery (`internal/goedge/server.go`), selection in `install.sh` | none; reads a list that changes | page, filter, require exactly one; list, dry run, order | `Discovery` |
| EdgeAPI token (`internal/goedge/client.go`) | cached token | obtain, refresh, repeat a call | `EdgeClient` |
| schema migration (`state/store.go` 27-189) | schema version, columns; SQLite's file and log | create, migrate, scrub | `Migration` |
| ACME account and issuer (`internal/acme`) | key and metadata files; the CA's accounts | load or create, register, query | `Account` (an order is one step of `Lifecycle`) |
| start of a process (`cmd/goedge-ip-cert`) | target lock | lock, open the state, load the account, leave | `Startup` |
| certificate check, configuration, address check, redaction | none | pure functions | not modelled |

How they interact: a process of the manager holds the global `flock` while it
starts one core process after another. A core takes the lock of its target, and
its runner drives everything else by calls. What it must remember is in SQLite
and in the snapshot directory; what it changes is in EdgeAPI, in the shared
challenge table and, through EdgeAPI, on the edge nodes, which load a new
configuration later. An administrator binds certificates and moves websites at
any time, and the timer starts a run every hour.

What is hard: the process can die between any two writes; a call to EdgeAPI or
MySQL can be applied although it reports an error; a node lags behind EdgeAPI;
retries must neither stop for good nor become an order storm; a lock follows the
open file and not the process; and an installation is repeated over its own
remains. `PROJECT.json` (`hazards`) lists these at their lines.

What makes each part correct:

- *runner and stores*: no certificate in use is unknown to the state; a failed
  renewal ends with the old certificate in EdgeAPI; recovery settles what earlier
  runs left in flight before anything is ordered; no duplicate certificate; only
  an operator starts a first order; failures back off; what was begun is settled.
- *challenges*: every row of ours is in the journal, is there while the CA
  validates, and is removed in the end; no row of others is touched.
- *schedule*: delays double up to the limit, and a certificate is not lost by
  waiting too long.
- *bootstrap and installation*: a credential file works whenever it exists, unless
  it could not be removed; the timer finds what it reads; an update is all or
  nothing; an interrupted installation can be repeated.
- *start*: version and contents of the database agree through interrupted and
  concurrent migrations, and the old private keys are gone in the end; the CA has
  one account, and its key is on the disk.
- *discovery*: an order is only placed for the one website that has the address:
  always when the list stays as it is, and when it changes once between the two
  scans of a first order; whatever happens to the tokens meanwhile.
- *manager*: cores run one at a time, on confirmed targets, and each target gets
  its turn.

## 2. Modules

| Module | Contents |
|---|---|
| `Lifecycle` | the runner with its stores, EdgeAPI, node, administrator and clock |
| `LifecycleProperties` | its properties, and the refinement mapping |
| `RenewalContract` | abstract specification: an object is tried with a new certificate, then keeps it or gets the old one back |
| `LifecycleInvariant` | the inductive invariants behind the properties |
| `LifecycleProofs` | proofs: types, recovery, compare-and-set, the first issue |
| `LifecycleTrialProofs` | proofs: certificates, snapshots and the refinement; when orders are placed, and the backoff |
| `MCLifecycle` | instantiates the lifecycle with the real `RetryDelay` of `Scheduler` |
| `Scheduler` | the policy's functions |
| `RetrySchedule`, `MCRetrySchedule` | the hourly timer with backoff until expiry, and its inductive invariant |
| `ScheduleProofs` | proofs: the retry delay, and the tries before expiry |
| `Challenge`, `ChallengeProofs` | provider, journal, shared table; the inductive invariant, and the proofs |
| `Bootstrap` | `InitializeDatabase`, as actions |
| `Installation` | extends `Bootstrap`: install, update, uninstall |
| `InstallationInvariant`, `InstallationProofs` | the inductive invariant, and the proofs |
| `Manager`, `ManagerProofs` | sessions, run-all, cores, the lock file; the inductive invariant, and the proofs |
| `Migration` | the state database: opening, migrating, wiping, as actions |
| `Account` | extends `Migration`: the ACME account, as actions |
| `Startup`, `StartupProofs` | composes both for any number of cores and reports; the inductive invariant, and the proofs |
| `EdgeClient` | one call to EdgeAPI with its token, as actions |
| `Discovery`, `DiscoveryProofs` | extends `EdgeClient`: the list, the dry run and the order of a new website; the inductive invariant, and the proofs |

**Lifecycle.** `run` is the running process: `run.pc` is the step, the other
fields are the local variables needed later. One action is one external effect
(an EdgeAPI call, a TLS verification, an order, a durable write) with everything
the code does before the next one. `ops`, `latest` and `managed` are the two
tables, `snaps` the rollback directory, `edge`, `bound` and `target` EdgeAPI,
`node` what the node serves. `DiskFails` and `Crash` can happen at every step.
An operation issues at most one certificate, so its number also stands for the
fingerprint and the key. `DelayAfter` is a parameter; `MCLifecycle` gives it
`Scheduler`'s `RetryDelay`. Private keys live in the process only, as in the
code, and after a restart `KeyUnavailable` says what recovery does without one.
`run.todo` holds the operations `recoverOperations` has listed and not yet
reached; the loop ends when it is empty, whatever stage they were left at.
`CreateOperation` needs a table without an operation in flight, as its unique
index refuses a second one, and `ReadFails` is also that refusal.

**Challenge.** A run recovers the journal, presents, waits and cleans up. The row
ids of the table can be used again, as GoEdge and other managers share it.
`gone` remembers which rows somebody else deleted.

**Installation.** `pc` is the step of the one operator's script. `dirs` are the
directories there are, `file` says of each file whether it is missing, cut short
or whole; a program is a release, `Cut`, or missing. Under `set -e` a failing
command ends the script where it is, so the fault `command` acts like a kill.
`Stop` chooses among what the interrupted step can leave: `install(1)` unlinks
and then writes, so its file is the old one, missing or cut short; `cat` and `cp`
truncate, so theirs is cut short; `rm -f` and `rm -rf` can have removed some of
their files. `[ -f ]` takes a secret that is cut short for whole (`AskSecrets`),
and `cp -p` copies a program that is. The Go part undoes its work on failure and
not when it is killed. Both removals of the undoing can fail and their errors are
ignored (`BootRemove`, `BootDrop`); `kept` remembers a credential file that could
not be removed. `torn` says that replacing or removing the programs was cut
short. What a person does is external: `DropStranded` removes an account without
a file, `RemoveSpoiled` a file that cannot be used.

**Manager.** `proc[p].fd` is the inode that process `p` has open, `lockFile` the
inode at the path. A core carries the inode it inherited, and `Free` asks both
processes and cores, since `flock` lasts until the last of them is gone. Opening
and locking are two steps. `replaced` says that the file was deleted or replaced
while somebody had it open.

**Startup.** `proc[p]` is a process: its step and the account in its memory.
`db` abstracts SQLite in WAL mode to what the migration is about: the version,
whether the two columns are there, and where private keys of version 1 are left,
in the pages a checkpoint would write, in the main file, in the log. A commit
appends to the log, a checkpoint copies the pages to the main file and empties
the log, and the last connection does so when it closes. A process that is killed
closes nothing. `status` and `target-status` open, and so migrate, the same
database without the lock. `files` are `account.key` and `account.json`, `ca` the
keys the CA has an account for.

**Discovery.** Three processes follow each other, the list, the dry run and the
run that orders, each with a client that knows nothing of the tokens of the last
one. `job` is the scan of the process at work, `call` the call in hand: getting a
token, posting, and whether it may still be repeated. `sites` is EdgeAPI's list;
of a website only matters how it matches the address (`Kinds`). A scan takes the
number of websites first and then page after page, and the list asks about the
nodes and the policy of each candidate in between; `ChangeSites` and
`Environment` can happen at each of these calls. What a scan reads is kept with
the position it was read at (`Entry`), so that a website seen twice counts twice,
as it does in the slices of the code.

Operators whose comment begins with *Mutant* are not used by the specification.
Each is a plausible mistake in the definition after it; substituting it violates
the property listed with it in `PROJECT.json`.

## 3. Runs

| Run | Specification | Shows |
|---|---|---|
| `MCLifecycle_safety` | `Spec`, every fault but `restore` | nine safety properties, through two faults at any step; the runner implements `RenewalContract` |
| `MCLifecycle_backoff` | `Spec`, two policies, four operations | backoff of renewals, of orders; the certificate object is stable |
| `MCLifecycle_settles` | `FairAdminSpec` | snapshots, renewals and first issues are settled |
| `MCChallenge` | `FairSpec` | the journal, the table and the CA |
| `MCRetrySchedule` | `Spec`, 26 policies | delays and the number of tries before expiry |
| `MCInstallation` | `FairSpec` | interrupted and repeated installations, updates, removals |
| `MCManager` | `FairSpec` | two sessions, the service and cores under the global lock |
| `MCStartup` | `FairSpec`, two cores, two reports, every fault | migration, wiping and account through kills, failures and concurrency |
| `MCDiscovery` | `Spec`, every fault | an unchanged list decides exactly; a changed one does not deceive both scans; tokens are replaced |
| `MCLifecycle_restore_fails`, `_interrupted`, `MCChallenge_lost_insert` | | disagreements between code and documentation, section 6 |

Bounds. Three operations are a first issue and two renewals, or a failure, its
repetition and one more; the backoff run takes four, so that after a first issue
two orders in a row fail and a third one waits for the longer pause. Longer rows
of failures, and the capped delay, are left to `MCRetrySchedule` and the proofs.
Two certificate objects let a duplicate exist. Two faults let a recovery be
disturbed as well. The clock reaches past the expiry of the first certificate in
the safety run (`Life` 3, `RenewBefore` 2). In `MCChallenge` three operations
share two tokens and two row ids, so a token and an id each come back while
others hold rows. `MCInstallation` has three faults, two removals and passwords
for every attempt those allow: an update cut short, a second one that copies the
damaged program, and its failure; or an attempt whose file is written and
refused, and cannot be removed. `MCManager` has two addresses, three operations
and two lock files: two sessions can stand on both sides of a replacement while
the service runs. It allows one fault, since what one kill, timeout or repeated
installation leaves behind meets all three operations; with two the run takes
twice as long and finds no more. In `MCStartup` the three faults let a migration
be cut short by a kill or a failing statement, be taken up by somebody else and
be cut short again while a report reads; four keys are one for each attempt they
can spoil, and one more. `MCDiscovery` has pages of two and up to four websites,
so that a list has two pages and the second can be short, full or gone, and that
the limit of three is passed; the list changes once, which is what the property
is about; two faults let a token be lost before and after it was replaced.
`CHECK_DEADLOCK FALSE` is set where the system stops for good: after the expiry in
`RetrySchedule`, after a refused installation, after an uninstallation, at the
end of the dialogue in `Discovery`.

Fairness. The timer fires every hour and starts a run (`WF(Start)`,
`WF(Service)`); a process that is not killed goes on (`WF(RunStep)`,
`WF(Session)`, and `WF(Step(p))` of an open process in `Startup`), since every call has a timeout; nodes load what EdgeAPI holds
(`WF(Propagate)`), and time passes. Three assumptions are about people, not
code: `FairAdminSpec` lets the administrator bind a certificate in the end,
`Installation` has the operator repeat an installation whose marker is still
there, and `Manager` has whoever is asked answer in the end. `KeysGoneInTheEnd`
assumes `[]<>Quiet`: as runs take minutes and are an hour apart, again and again
nobody has the database open. Faults are bounded,
so the liveness properties say what follows once they stop.

## 4. Proofs

Two modules prove the properties of `Lifecycle`, for all values of the
constants. `LifecycleProofs` needs no more, whatever fails:

| Theorem | Statement |
|---|---|
| `Inductive` | `Spec => []IInv` |
| `Typing` | `Spec => []TypeOK` |
| `RecoveryComplete` | `Spec => []RecoverySettles` |
| `NoConflict` | `Spec => []CASNeverConflicts` |
| `FirstIssueRetriable` | `Spec => []FirstIssueNeverRefused` |

The constants satisfy `BoundsAssumption` and `PolicyAssumption` of `Lifecycle`:
the bounds and durations are natural numbers, there is a policy, and a
certificate lives for some time (one whose `NotAfter` has passed is refused,
certificate/verify.go:53). The three properties
are not inductive: that a compare-and-set meets its stage depends on what the
step the process is at implies about the table. `IInv` says that. It is `StepInv`
together with `RecoveryOwesAll`: while recovery is at work, the operations it has
still to reach are exactly those in flight. Continuing one of them can end the
run, but whatever lets the loop go on has settled it, so an empty list means that
nothing is in flight (`RecoverySettles`), although `RecoveryDone` does not look.
The parts of `StepInv` are:
all operations but the last are settled (`LastOperation`), the retry counter is
set by failures only (`RetriesCounted`), what an operation of each kind refers to
(`CertificatesKnown`), only the last operation, a renewal, has a snapshot
(`SnapshotsOfLast`), and which stage the last operation has at each step
(`StageAtStep`). The proof has one lemma per group of actions; lemmas on
`UpdateExpected` and its callers say what a row looks like after a write.
`StepInv` contains `TypeOK`.

`LifecycleTrialProofs` is about the certificates. With every fault:

| Theorem | Statement |
|---|---|
| `KnownInductive` | `Spec => []KnownInv` |
| `ActivationVerified` | `Spec => []ActivatedWasServed` |
| `NoneOrphaned` | `Spec => []NoOrphanCertificate` |
| `LiveInductive` | `Spec => []LiveInv` |
| `LiveIsNeverOlder` | `Spec => []NeverOlder` |
| `ActivatedIsLive` | `Spec => [][ActivationIsLive]_vars` |

`KnownInv` adds to `IInv` what identifies
an object: the marker of the one first issue that made it, which has not failed
(`MarkersKnown`), its content until it is the managed one (`FirstIsIssued`), and
that what is about to be recorded as active has been served (`Served`).
`LiveInv` adds what is true of the managed object even where a restore fails and
is taken for done (`LiveAtStage`): the object and every snapshot hold something
from the last success on, never anything older, and wherever an operation counts
as verified for good, without a snapshot to undo it, the object holds its
certificate. What a failing restore can leave behind is therefore a newer
certificate than the state says, and no renewal becomes active without being what
EdgeAPI holds.

As long as no restore fails:

| Theorem | Statement |
|---|---|
| `TrialInductive` | `RestoresSucceed` implies `Spec => []TrialInv` |
| `SnapshotsAnchored` | `RestoresSucceed` implies `Spec => []SnapshotAnchored` |
| `LiveAccounted` | `RestoresSucceed` implies `Spec => []LiveCertificateAccounted` |
| `ErrorMeansRestored` | `RestoresSucceed` implies `Spec => []RestoredMeansOld` |
| `Implements` | `RestoresSucceed` implies `Spec => ImplementsContract` |

`RestoresSucceed` says that the fault `restore` is not among `Faults`. With it
`RestoredMeansOld` is false, and `restore_fails` shows how: an update that did not
put the old certificate back is recorded as a restore. `TrialInv` adds to
`LiveInv` that there is nothing between the last success and the last operation
(`TrialAtStage`): the managed object holds the last success as long as nothing
was updated and once it is restored, one of the two while a snapshot is there,
and the snapshot holds the last success. `Implements` is the step
simulation: under the mapping of `LifecycleProperties` the initial states are
initial ones of `RenewalContract`, and each action is one step of it or none,
because `TrialInv` tells which of the two contents an action finds.

The last part is about when orders are placed:

| Theorem | Statement |
|---|---|
| `CertificateStable` | `Spec => StableCertificate` |
| `FirstOrderAsked` | `Spec => FirstOrderNeedsOperator` |
| `BackoffInductive` | `Uninterrupted` implies `Spec => []BackoffInv` |
| `RenewalsBackOff` | `Uninterrupted` implies `Spec => RenewalBacksOff` |
| `OrdersBackingOff` | `Uninterrupted` implies `Spec => OrdersBackOff` |

`Uninterrupted` leaves out the faults `crash`, `disk` and `badcert`, as the run
`backoff` does: an order that is cut short before its failure is recorded has no
delay (`interrupted` shows it), and an invalid certificate gets none (section 5).
These five are about steps. `BackoffInv` carries what they need to the state
before the order: each failed renewal has its delay and has counted the failed
orders before it (`FailuresTimed`), and a run that comes to order has waited for
the last failure and goes on counting (`RunWaited`). They use `DelayAssumption`,
that `DelayAfter` never decreases, and `PolicyAssumption`, that it is a natural
number. For `RetryDelay` of a valid policy these are the theorems
`RetryDelayGrows` and `RetryDelayBounded` of `ScheduleProofs`, and `MCLifecycle`
checks them with it. The length of a row of failures is a
cardinality: lemmas (`Streak...`) say how it grows with the history.

TLC has checked `KnownInv`, `TrialInv` and `OrderAsked` on the instance `safety`,
`KnownInv` and `LiveInv` with the fault `restore` too, and `BackoffInv` on
`backoff`.

`ScheduleProofs` proves, for every valid policy, jitter, expiry and delay of the
timer below an hour:

| Theorem | Statement |
|---|---|
| `RetryDelayBounded` | `RetryDelay(p, n) \in p.retryMin..p.retryMax` |
| `RetryDelayGrows` | `RetryDelay(p, j) <= RetryDelay(p, k)` for `j <= k` |
| `DelayIsDoubled` | `Spec => []DelayDoubles` |
| `RenewalIsTried` | `Spec => []TriedBeforeExpiry` |

They assume that an hour has at least one time unit, that every policy passes
`Validate` (with `ScheduleAssumption` it also begins before the expiry) and that
the expiry is a natural number. `RetryDelay` is a loop, so the first three need an
induction over the number of failures. The loop is written as a recursive function
(`Iterated`), lemmas show that it exists and is what its recurrence says, and
`NatSets` derives induction for a set from the well-foundedness of `<`. An
iteration never leaves the range from minimum to maximum, so doubling a duration
never overflows and the last test of the code never holds. `LoopDoubles` compares
loop and reference: halving an odd maximum ends the loop one doubling early, one
unit before the maximum. `TriedBeforeExpiry` follows from `ScheduleInv`: the run
of the last hour was before the later of `nextTry` and `next`, and each try has
put `nextTry` off by one delay, an hour and the delay of the timer at most. TLC
has checked `ScheduleInv` on the instance of `MCRetrySchedule`.

`InstallationProofs` proves, for any number of releases, passwords, removals and
faults:

| Theorem | Statement |
|---|---|
| `Inductive` | `Spec => []InstallationInv` |
| `CredentialAlwaysWorks` | `Spec => []CredentialWorks` |
| `TimerSafe` | `Spec => []TimerFindsInstallation` |
| `UpdateAtomic` | `Spec => []UpdateAllOrNothing` |
| `ProgramsSurvive` | `Spec => ProgramsNeverLost` |
| `AccountKept` | `Spec => AccountNeverReset` |

They assume that there is a release to install and that the bounds are natural
numbers. `CredentialWorks` alone is not inductive: that dropping the account in
the undoing leaves no file behind depends on the file being gone at that step, or
known to be `kept`, and that depends on no file being there when the attempt
began. `InstallationInv` says at each step what holds of account and file
(`CredentialAtStep`), which parts of the disk are there and whole (`DiskAtStep`),
which programs and copies agree (`ProgramsAgree`) and which copies an update has
made (`CopiesAtStep`). `TimerFindsInstallation` follows from `UnitsComplete`,
which asks for the same as soon as there is anything of the units, enabled or
not: the secrets are only written, and the account is only dropped, where there
are no units. Each part has a lemma, with a step for every action that touches
it. TLC has checked `InstallationInv` on the instance of `MCInstallation`.

The exceptions in these properties are what the code really allows. A credential
file outlives its account when `os.Remove` fails (`kept`); a configuration is cut
short when a repetition stops at `cat` (with the marker there); the last good
copy of a program goes when an update saves a damaged one over it (`Damages`).
Section 5 lists them.

`StartupProofs` proves, for any number of cores, reports, keys and faults:

| Theorem | Statement |
|---|---|
| `Inductive` | `Spec => []StartupInv` |
| `MigrationSafe` | `Spec => []MigrationConsistent` |
| `AccountSafe` | `Spec => []AccountConsistent` |

They assume that no process is a core and a report at once, that `"none"` is not
a core, and that the bounds are natural numbers. `MigrationConsistent` rests on
what a process that wipes can rely on although others migrate at the same time:
the columns are gone from its `truncate` on, and the pages are clean at its
`mark` (`MigrationAtStep`). `AccountConsistent` needs the lock: a core that has
read the files is alone with them as long as it holds it (`LockHeld`), so that
what it has in memory agrees with the disk (`AccountAtStep`), and the CA only
learns of a key both of whose files exist (`Registered`).

`ChallengeProofs` proves, for any number of operations, tokens, row ids, rows of
others and faults:

| Theorem | Statement |
|---|---|
| `JournalInductive` | `Spec => []JournalInv` |
| `RowIsServed` | `Spec => []ServedWhileValidating` |
| `OnlyOwnRowsAreDeleted` | `Spec => DeletesOnlyOwnRows` |
| `ChallengeInductive` | `RepliesArrive` implies `Spec => []ChallengeInv` |
| `EveryRowIsJournaled` | `RepliesArrive` implies `Spec => []RowsAreJournaled` |
| `NoEntryIsAmbiguous` | `RepliesArrive` implies `Spec => []NeverAmbiguous` |

They assume that the bounds are natural numbers. The first three hold with every
fault. `JournalInv` says that the journal has one entry at most (`OneEntry`), that
each step finds the entry it works on, and that the row of a running validation
is there or was deleted by others (`EntryAtStep`); a `DELETE` selects no row of
others, because those differ in the task or the address (`OthersDiffer`).
`RepliesArrive` leaves out the fault `lost_insert`, for which
`challenge_lost_insert` shows `RowsAreJournaled` violated. Without it there is one
row of this service at most, and it has the token and the time of the entry
(`Single`). That rests on what each step finds in the table (`RowAtStep`): the row
is inserted and the entry forgotten only when no row of this service is there,
which holds at `complete` because the `DELETE` selects exactly that row
(`SelectedIsOurs`). TLC has checked `JournalInv` with the fault `lost_insert`.

`ManagerProofs` proves, for any number of sessions, targets, lock files and
faults:

| Theorem | Statement |
|---|---|
| `ManagerInductive` | `Spec => []ManagerInv` |
| `LockSerializes` | `Spec => []Serialized` |
| `OrdersAreConfirmed` | `Spec => []OnlyConfirmedRuns` |

They assume that targets and bounds are natural numbers, that a lock file can be
created, and that no session is called `"timer"` or `"nobody"`. `Serialized` says
nothing of who has which lock file open, and is not inductive for that reason:
`Exclusive` adds that, until a lock file in use is replaced, every open one is
the current one, who is past the lock is alone, and a core either has a process
waiting for it or outlived a session, with nobody past the lock. `AllConfirmed`
extends `OnlyConfirmedRuns` to the configurations on the disk and in the archive,
to the list `run_all` has read and to the steps at which a session orders.

`DiscoveryProofs` proves, for any page size, limit, list of websites and number
of changes and faults:

| Theorem | Statement |
|---|---|
| `DiscoveryInductive` | `Spec => []DiscoveryInv` |
| `ScansExact` | `Spec => DiscoveryExact` |
| `AmbiguityRefused` | `Spec => []AmbiguityNeverOrdered` |
| `Authenticated` | `Spec => []AuthenticationRecovers` |
| `WriteOnce` | `Spec => []AppliedOnce` |

They assume that a page has at least one website and that the bounds are natural
numbers. `ScanInv` says what `DiscoveryExact` rests on: as long as the list has
not changed since the scan began, the scan has found the matches up to its
position and nothing else, and at its end the position is past the list.
`AmbiguityInv` counts: an ambiguous list that got past the dry run changed during
it, and one that got past both changed twice. It depends on ambiguity being
older than the changes (`AmbiguityRemains`): a website that is added is not one
of the first list. `CallInv` follows a token: a call that is repeated has dropped
its token, so the next one it posts is its own. The types leave open what `page`
and `found` hold, as no property of the list in the first step needs it. TLC has
checked its parts on the instance of `MCDiscovery`, with two changes and one fault.

Only model-checked: the liveness properties, `SnapshotsSettle`, `RenewalsSettle`
and `FirstIssueSettles` and those of `Challenge`, `Installation`, `Manager` and
`Startup`, which need fairness and so `ENABLED`. Every invariant and action
property of a passing run is a theorem.

## 5. Known limits of the code

Seen while modelling, and left outside the passing properties:

- `restoreOldCertificate` and `recoverOperations` (runner.go:543, 313) count
  retries from the operation at hand, which starts at zero. After failures of
  the verification the pause therefore stays at its minimum. `OrdersBackOff` is
  about failing orders.
- A snapshot whose certificate has expired is never settled, as it no longer
  passes the verification (runner.go:537), and stops every later run. The run
  `settles` lets nothing expire.
- An installation killed between `install -d` and the marker (install.sh:273-275)
  is refused ever after, as is one after an uninstallation that kept the data.
- The errors of `os.Remove` and of `DROP USER` are ignored (database.go:120, 133,
  138). When only the first fails, a credential file without an account stays, and
  every repetition is refused at it. A secret that `install(1)` was killed at
  (install.sh:176) is empty or cut short, and `[ -f ]` takes it for whole
  (install.sh:279): every repetition fails at the list of websites. A person has
  to remove either file (`RemoveSpoiled`).
- A repeated installation truncates `manager.conf` (install.sh:182). Stopped there,
  with the timer enabled before, it leaves hourly runs an empty configuration
  until it is repeated.
- `update_program` saves whatever program it finds (install.sh:599-600). After an
  update that was killed this can be a truncated one, which then replaces the good
  copy, and is put back if this update fails too, although docs/INSTALL.md:93 says
  that a failing replacement restores the old programs. A program that is
  missing can be neither updated (`cp` fails) nor installed again (refused).
- `manager.conf` is written as `root:root` with mode 0640 (install.sh:182-188); only
  `restore_backup` gives it to the service's group (install.sh:675). Read as the
  service's user, as `goedge-ip-cert.service` does, it is not readable after a
  fresh installation, and `load_manager_config` ends `run_all`. Owners and modes of
  files are not part of the model, so `TimerFindsInstallation` says nothing of it;
  nor does it of a secret that was written and not yet given to that user.
- A password is lost when the bootstrap is killed between `CREATE USER` and the
  file, and after an uninstallation with DELETE: both leave `Stranded`, which the
  code refuses on purpose, and a person has to drop the account
  (`DropStranded`).
- A repeated installation replaces `manager.lock` (install.sh:278) without
  holding it, and deleting it races with a session that has opened it.
- A service ended by `TimeoutStartSec` every hour at the same target starves the
  targets after it.
- A first certificate that is bound after it has expired never passes the
  verification (runner.go:414): its operation stays in `CERT_CREATED`,
  `recoverOperations` fails at it in every run, and no run can order another,
  although docs/STATE-MACHINE.md:16 lets every step end in `ERROR` and line 38 has
  the run confirm a binding once it has been made. `FirstIssueSettles` is checked
  while nothing expires.
- A certificate that fails verification is a security error, but `SetError`
  (runner.go:282) stores no `next_retry_at`: the next hourly run orders again,
  where docs/STATE-MACHINE.md:45 asks for a repair by hand. `RenewalBacksOff` fails
  for it as it does for interrupted renewals, and `backoff` leaves it out.
- A process killed between the two files of the account leaves one of them, and
  `LoadOrCreate` (acme/account.go:61) then refuses every run of the target, before
  rollbacks and operations are recovered, until a person removes it.
- A report that reads while a migration wipes makes `wal_checkpoint` give up in a
  row nobody reads (store.go:178, 187): version 2 is recorded while old private
  keys are still in the log. They go when the last process closes the database.
- A core that lost the race of a migration to a report fails at the column that
  is gone, and the next hour's run goes on.
- One change of the list can deceive a single scan: a website that moves past the
  page boundary is seen twice or not at all. Two scans guard a first order
  (`AmbiguityNeverOrdered`); the check before a renewal is one scan, and compares
  with the managed row.
- The run that orders does not compare its website with the one the operator
  chose: if that one is removed and another gets the address between dry run and
  order, the other one is ordered for.
- A token that is lost twice during one call is not replaced a second time; the
  call fails as an error of authentication.
- `update_program` leaves `installed-version` and `RELEASE_TAG` as they were.
  Nothing reads them.

## 6. Disagreements shown by a run

| Run | Property | The code | The documentation |
|---|---|---|---|
| `restore_fails` | `RestoredMeansOld` | a restore whose update failed is recorded as done while the node lags behind | the operation's own message (runner.go:546) |
| `interrupted` | `RenewalBacksOff` | an interrupted renewal is ordered again in the same run | README.md:175 |
| `challenge_lost_insert` | `RowsAreJournaled` | an `INSERT` whose reply is lost leaves a row for ever | docs/STATE-MACHINE.md:35 |

`RenewalBacksOff` and `RestoredMeansOld` pass in `backoff` and `safety`, where
the fault in question is left out, and so does `RowsAreJournaled` in `challenge`.

## 7. Plan

Done in this order: `Lifecycle` with its properties and contract, the schedule,
`Challenge`, the inductive invariant and its proof, `Bootstrap` and
`Installation`, `Manager`, the proofs about `Installation`; then `Migration`,
`Account` and `Startup` with their proofs, `EdgeClient` and `Discovery`, the
proofs about `Challenge` and `Manager`, the certificates, the refinement and the
backoff of `Lifecycle`, the proofs about `Discovery` and about the schedule, and
what remains true of certificates and challenges when a restore fails or the
reply to an `INSERT` is lost.

Next, in order:

1. `Lifecycle` with EdgeAPI calls that take effect late, with a clock that is set
   back, and with a state restored from a backup under newer snapshots.
2. Composition: `Challenge` as the first step of a run of `Lifecycle`, where a row
   that cannot be resolved keeps the rollbacks from being recovered.
3. Proofs: a bound on the orders of a day from `OrdersBackOff`.

Not modelled, and not planned: the X.509 check of `internal/certificate` (its
outcome is a choice), configuration, address validation and redaction (pure
functions on text), request and response formats, prompts, downloads and the
status report of the manager.
