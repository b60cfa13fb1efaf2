------------------------------ MODULE Lifecycle ------------------------------
(***************************************************************************)
(* The certificate lifecycle of one target IPv4 address: the runner of     *)
(* src/internal/lifecycle/runner.go with the operation table and the       *)
(* managed certificate of src/internal/state/store.go, the rollback        *)
(* snapshots of src/internal/rollback/store.go, and the EdgeAPI, edge node *)
(* and administrator around them.                                          *)
(*                                                                         *)
(* A run of the program is the value of the variable run: the step it is   *)
(* at and the local variables it needs later.  Every call to EdgeAPI, every *)
(* TLS verification, every ACME order and every durable write is a step,   *)
(* and between two steps the process can die, the administrator can change *)
(* the binding, the node can load a certificate and the clock can advance. *)
(*                                                                         *)
(* Operation o issues at most one certificate, so o also stands for the    *)
(* fingerprint of that certificate and for its private key.                *)
(***************************************************************************)
EXTENDS Integers, FiniteSets

CONSTANTS
  MaxOps,         \* bound: operations ever created
  MaxCerts,       \* bound: certificate objects ever created in EdgeAPI
  MaxTime,        \* bound: the clock stops here
  MaxFaults,      \* bound: faults that happen in one behaviour
  Faults,         \* the kinds of fault that can happen
  Modes,          \* run modes in use: "interactive", "timer", "manual"
  Policies,       \* SSL policies the website can use
  Life,           \* validity of an issued certificate
  RenewBefore,    \* Policy.RenewBefore
  Jitters,        \* values of Policy.jitter
  DelayAfter(_)   \* Policy.RetryDelay, see module Scheduler

FaultKinds ==
  {"crash",       \* the process is killed
   "disk",        \* a write to SQLite or to the rollback directory fails
   "rpc",         \* an EdgeAPI call fails and has no effect
   "lost",        \* an EdgeAPI write is applied and its reply is lost
   "restore",     \* the EdgeAPI write that restores the old certificate fails
   "lag",         \* TLS verification times out although EdgeAPI is right
   "acme",        \* the ACME order fails
   "badcert",     \* the issued certificate fails verification
   "admin"}       \* the administrator unbinds or moves the website

OpIds == 1..MaxOps
CertIds == 1..MaxCerts

ASSUME BoundsAssumption ==
  /\ {MaxOps, MaxCerts, MaxTime, MaxFaults} \subseteq Nat
  /\ Faults \subseteq FaultKinds
  /\ Modes \subseteq {"interactive", "timer", "manual"}
  /\ Policies # {}

ASSUME PolicyAssumption ==
  /\ Life \in Nat \ {0} /\ RenewBefore \in Nat /\ Jitters \subseteq Nat
  /\ \A k \in 0..MaxOps : DelayAfter(k) \in Nat

\* More attempts never wait for a shorter time.
ASSUME DelayAssumption ==
  \A k \in 0..MaxOps : \A j \in 0..k : DelayAfter(j) <= DelayAfter(k)

VARIABLES
  ops,       \* table operations: a row per operation id
  nops,      \* rows in use are 1..nops
  latest,    \* the row with the greatest updated_at, 0 if there is none
  managed,   \* the row of table managed_certs, or NoManaged
  snaps,     \* the files in the rollback directory
  edge,      \* EdgeAPI's certificates: creator (its marker) and content
  ncerts,    \* certificates in use are 1..ncerts
  bound,     \* the certificate each SSL policy refers to, 0 if none
  target,    \* the SSL policy of the website with this address
  node,      \* the certificate the edge node serves, 0 if another one
  seen,      \* history: the certificates the node has served
  now,       \* the clock
  faults,    \* faults so far
  run        \* the running process

db == <<ops, nops, latest, managed>>
edgeVars == <<edge, ncerts>>
env == <<bound, target, node, seen, now>>
vars == <<db, snaps, edgeVars, env, faults, run>>

NoOp == [kind |-> "none", stage |-> "NONE", policy |-> "none", cert |-> 0,
         exp |-> 0, retry |-> 0, nextAt |-> 0, recovery |-> "none", ended |-> 0]

NoManaged == [state |-> "NONE", policy |-> "none", cert |-> 0, exp |-> 0,
              next |-> 0]

NoCert == [mark |-> 0, fp |-> 0]

Idle == [pc |-> "idle", mode |-> "none", cur |-> 0, key |-> FALSE, got |-> 0,
         attempt |-> 0, phase |-> "none", cause |-> "none", todo |-> {}]

(***************************************************************************)
(* Reading the state.                                                      *)
(***************************************************************************)
Stage(o) == ops[o].stage

Settled == {"ACTIVE", "ERROR"}

\* What ListIncompleteOperations lists, and the unique index covers
InFlight == {o \in OpIds : Stage(o) \notin Settled \cup {"NONE"}}

\* state.IsFirstIssueFailure
FirstIssueFailure(o) ==
  ops[o].kind = "issue" /\ Stage(o) = "ERROR" /\ ops[o].cert = 0

\* Certificate: the content of a certificate that EdgeAPI has
Content(c) == IF c \in 1..ncerts THEN edge[c].fp ELSE 0

\* FindCertificateByMarker: the certificates whose name is the marker of o
Marked(o) == {c \in 1..ncerts : edge[c].mark = o}

Valid(f) == f \in OpIds /\ now < ops[f].exp

\* What the node serves once it has caught up with EdgeAPI
Configured == Content(bound[target])

\* Mutant: verification looks at the validity and not at the fingerprint.
ServesAnything(f) == Valid(f)

Serves(f) == node = f /\ Valid(f)

Fault(k) == k \in Faults /\ faults < MaxFaults /\ faults' = faults + 1

(***************************************************************************)
(* tlsverify polls the address until it serves f or the timeout passes.    *)
(* Without a fault it can only time out when f is not what is configured.  *)
(***************************************************************************)
TLSTimeout(f) ==
  IF Serves(f) \/ (Configured = f /\ Valid(f))
  THEN Fault("lag")
  ELSE UNCHANGED faults

(***************************************************************************)
(* Writing the state.  updateExpected is a compare-and-set on the stage.   *)
(* The field ended is history: when the operation became ACTIVE or ERROR.  *)
(***************************************************************************)
UpdateExpected(o, expected, row) ==
  /\ Stage(o) = expected
  /\ ops' = [ops EXCEPT ![o] =
       IF row.stage \in Settled /\ row.stage # expected
       THEN [row EXCEPT !.ended = now] ELSE row]
  /\ latest' = o

SetStage(o, expected, stage, recovery) ==
  UpdateExpected(o, expected,
                 [ops[o] EXCEPT !.stage = stage, !.recovery = recovery])

SetErrorWithRetry(o, attempt, recovery) ==
  UpdateExpected(o, Stage(o),
    [ops[o] EXCEPT !.stage = "ERROR", !.recovery = recovery,
                   !.retry = attempt + 1, !.nextAt = now + DelayAfter(attempt)])

SetCertCreated(o, expected, c) ==
  UpdateExpected(o, expected,
    [ops[o] EXCEPT !.stage = "CERT_CREATED", !.cert = c, !.recovery = "none"])

RecordManagedError == managed' = [managed EXCEPT !.state = "ERROR"]

\* The INSERT; the unique index refuses it next to an operation in flight.
CreateOperation(kind, stage, policy, c) ==
  /\ InFlight = {}
  /\ nops' = nops + 1
  /\ latest' = nops + 1
  /\ ops' = [ops EXCEPT ![nops + 1] =
       [NoOp EXCEPT !.kind = kind, !.stage = stage, !.policy = policy,
                    !.cert = c]]

PutCert(c, mark, f) == edge' = [edge EXCEPT ![c] = [mark |-> mark, fp |-> f]]

At(pc) == run.pc = pc
Goto(pc) == run' = [run EXCEPT !.pc = pc]
Fail(cause) == run' = [run EXCEPT !.pc = "record", !.cause = cause]
Exit == run' = Idle

SnapshotOf(o) == {s \in snaps : s.op = o}

-----------------------------------------------------------------------------
(***************************************************************************)
(* RunOnce: the lock is taken, the schema is checked and the challenge     *)
(* journal is recovered; a run that fails there changes nothing here.      *)
(***************************************************************************)
StartRun(m) ==
  /\ run = Idle
  /\ run' = [Idle EXCEPT !.pc = "rollbacks", !.mode = m, !.phase = "rollback"]
  /\ UNCHANGED <<db, snaps, edgeVars, env, faults>>

\* Mutant: a timeout ends the run instead of restoring the old certificate.
RollbackVerifyOrWait ==
  /\ At("rollbacks")
  /\ \E s \in snaps :
       \/ /\ Serves(s.new)
          /\ run' = [run EXCEPT !.pc = "rollback_read", !.cur = s.op]
          /\ UNCHANGED faults
       \/ TLSTimeout(s.new) /\ Exit
  /\ UNCHANGED <<db, snaps, edgeVars, env>>

(***************************************************************************)
(* recoverRollbacks: verify the new certificate of each snapshot, or       *)
(* restore the old one.                                                    *)
(***************************************************************************)
RollbackVerifyNew ==
  /\ At("rollbacks")
  /\ \E s \in snaps :
       \/ /\ Serves(s.new)
          /\ run' = [run EXCEPT !.pc = "rollback_read", !.cur = s.op]
          /\ UNCHANGED faults
       \/ /\ TLSTimeout(s.new)
          /\ run' = [run EXCEPT !.pc = "restore", !.cur = s.op]
  /\ UNCHANGED <<db, snaps, edgeVars, env>>

RollbackReadBack ==
  /\ At("rollback_read")
  /\ \E s \in SnapshotOf(run.cur) :
       \/ /\ Content(s.cert) = s.new
          /\ IF Stage(s.op) = "CERT_ISSUED"
             THEN SetCertCreated(s.op, "CERT_ISSUED", ops[s.op].cert)
             ELSE UNCHANGED <<ops, latest>>
          /\ Goto("rollback_forget")
          /\ UNCHANGED faults
       \/ /\ IF Content(s.cert) = s.new THEN Fault("rpc") ELSE UNCHANGED faults
          /\ Exit
          /\ UNCHANGED <<ops, latest>>
  /\ UNCHANGED <<nops, managed, snaps, edgeVars, env>>

RollbackForget ==
  /\ At("rollback_forget")
  /\ snaps' = snaps \ SnapshotOf(run.cur)
  /\ Goto("rollbacks")
  /\ UNCHANGED <<db, edgeVars, env, faults>>

RollbacksDone ==
  /\ At("rollbacks")
  /\ snaps = {}
  /\ run' = [run EXCEPT !.pc = "recover", !.phase = "recover", !.todo = InFlight]
  /\ UNCHANGED <<db, snaps, edgeVars, env, faults>>

\* Mutant: the old certificate is not sent back before it is verified.
RestoreUpdateSkipped ==
  /\ At("restore")
  /\ Goto("restore_tls")
  /\ UNCHANGED <<db, snaps, edgeVars, env, faults>>

(***************************************************************************)
(* restoreOldCertificate, from recoverRollbacks and rollbackAfterFailure.  *)
(* The outcome of the update is not looked at once the old certificate is  *)
(* served.                                                                 *)
(***************************************************************************)
RestoreUpdate ==
  /\ At("restore")
  /\ \E s \in SnapshotOf(run.cur) :
       \/ PutCert(s.cert, edge[s.cert].mark, s.old) /\ UNCHANGED faults
       \/ Fault("restore") /\ UNCHANGED edge
  /\ Goto("restore_tls")
  /\ UNCHANGED <<db, snaps, ncerts, env>>

RestoreVerifyOld ==
  /\ At("restore_tls")
  /\ \E s \in SnapshotOf(run.cur) :
       \/ Serves(s.old) /\ Goto("restore_op") /\ UNCHANGED faults
       \/ /\ TLSTimeout(s.old)
          /\ IF run.phase = "rollback" THEN Exit ELSE Fail("step")
  /\ UNCHANGED <<db, snaps, edgeVars, env>>

RestoreRecordOperation ==
  /\ At("restore_op")
  /\ IF Stage(run.cur) # "ERROR"
     THEN SetErrorWithRetry(run.cur, ops[run.cur].retry, "retry-new-order")
     ELSE UNCHANGED <<ops, latest>>
  /\ Goto("restore_managed")
  /\ UNCHANGED <<nops, managed, snaps, edgeVars, env, faults>>

RestoreRecordManaged ==
  /\ At("restore_managed")
  /\ RecordManagedError
  /\ Goto("restore_forget")
  /\ UNCHANGED <<ops, nops, latest, snaps, edgeVars, env, faults>>

RestoreForget ==
  /\ At("restore_forget")
  /\ snaps' = snaps \ SnapshotOf(run.cur)
  /\ IF run.phase = "rollback" THEN Goto("rollbacks") ELSE Fail("step")
  /\ UNCHANGED <<db, edgeVars, env, faults>>

-----------------------------------------------------------------------------
\* Mutant: a created certificate counts as bound.
ContinueAtSkipsBinding(o) ==
  CASE Stage(o) = "CERT_ISSUED" ->
         IF ops[o].kind = "issue" THEN "find" ELSE "compare"
    [] OTHER -> "activate"

(***************************************************************************)
(* recoverOperations goes once through the operations it has listed, todo: *)
(* one without a certificate on record fails; a later one continues,       *)
(* without the private key.  The unique index lets there be one at most.   *)
(***************************************************************************)
ContinueAt(o) ==
  CASE Stage(o) = "CERT_ISSUED" ->
         IF ops[o].kind = "issue" THEN "find" ELSE "compare"
    [] Stage(o) = "CERT_CREATED" -> "binding"
    [] OTHER -> "activate"

\* Mutant: a created certificate is given up as well.
FailInterruptedCreated ==
  /\ At("recover")
  /\ \E o \in run.todo :
       /\ Stage(o) \in {"NEW", "RENEWING", "CHALLENGE_PRESENT", "CERT_CREATED"}
       /\ SetStage(o, Stage(o), "ERROR", "retry-new-order")
       /\ run' = [run EXCEPT !.todo = @ \ {o}]
  /\ UNCHANGED <<nops, managed, snaps, edgeVars, env, faults>>

\* Mutant: the recovery is noted and the stage stays.
FailInterruptedKeepsStage ==
  /\ At("recover")
  /\ \E o \in run.todo :
       /\ Stage(o) \in {"NEW", "RENEWING", "CHALLENGE_PRESENT"}
       /\ SetStage(o, Stage(o), Stage(o), "retry-new-order")
       /\ run' = [run EXCEPT !.todo = @ \ {o}]
  /\ UNCHANGED <<nops, managed, snaps, edgeVars, env, faults>>

FailInterrupted ==
  /\ At("recover")
  /\ \E o \in run.todo :
       /\ Stage(o) \in {"NEW", "RENEWING", "CHALLENGE_PRESENT"}
       /\ SetStage(o, Stage(o), "ERROR", "retry-new-order")
       /\ run' = [run EXCEPT !.todo = @ \ {o}]
  /\ UNCHANGED <<nops, managed, snaps, edgeVars, env, faults>>

ContinueInterrupted ==
  /\ At("recover")
  /\ \E o \in run.todo :
       /\ Stage(o) \in {"CERT_ISSUED", "CERT_CREATED", "POLICY_BOUND"}
       /\ run' = [run EXCEPT !.pc = ContinueAt(o), !.cur = o, !.todo = @ \ {o}]
  /\ UNCHANGED <<db, snaps, edgeVars, env, faults>>

RecoveryDone ==
  /\ At("recover")
  /\ run.todo = {}
  /\ Goto("decide")
  /\ UNCHANGED <<db, snaps, edgeVars, env, faults>>

\* Mutant: any run may place the first order.
FirstIssueAttemptAnyMode ==
  IF latest = 0 THEN {0}
  ELSE IF FirstIssueFailure(latest) /\ run.mode = "manual"
       THEN {ops[latest].retry} ELSE {}

(***************************************************************************)
(* The rest of RunOnce.  runFirstIssue orders for the first time in an     *)
(* interactive run, and again after a failure only when the operator asks. *)
(***************************************************************************)
FirstIssueAttempt ==
  IF latest = 0 THEN IF run.mode = "interactive" THEN {0} ELSE {}
  ELSE IF FirstIssueFailure(latest) /\ run.mode = "manual"
       THEN {ops[latest].retry} ELSE {}

NormalizeFirstIssueFailure ==
  IF latest # 0 /\ FirstIssueFailure(latest)
  THEN ops' = [ops EXCEPT ![latest].recovery = "needs-attention"]
  ELSE UNCHANGED ops

DecideFirstIssue ==
  /\ At("decide")
  /\ managed = NoManaged
  /\ NormalizeFirstIssueFailure
  /\ IF FirstIssueAttempt = {} THEN Exit
     ELSE \E a \in FirstIssueAttempt :
            run' = [run EXCEPT !.pc = "discover", !.attempt = a]
  /\ UNCHANGED <<nops, latest, managed, snaps, edgeVars, env, faults>>

\* Mutant: the count of failures is lost between runs.
BackoffForgetsCount ==
  IF latest # 0 /\ Stage(latest) = "ERROR"
  THEN [attempt |-> 0, nextAt |-> ops[latest].nextAt]
  ELSE [attempt |-> 0, nextAt |-> 0]

\* LatestRetry
Backoff ==
  IF latest # 0 /\ Stage(latest) = "ERROR"
  THEN [attempt |-> ops[latest].retry, nextAt |-> ops[latest].nextAt]
  ELSE [attempt |-> 0, nextAt |-> 0]

\* Mutant: the backoff is not waited for.
DecideRenewalAtOnce ==
  /\ At("decide")
  /\ managed # NoManaged
  /\ run' = [run EXCEPT !.pc = "discover", !.attempt = Backoff.attempt]
  /\ UNCHANGED <<db, snaps, edgeVars, env, faults>>

DecideRenewal ==
  /\ At("decide")
  /\ managed # NoManaged
  /\ IF Backoff.nextAt > now THEN Exit
     ELSE run' = [run EXCEPT !.pc = "discover", !.attempt = Backoff.attempt]
  /\ UNCHANGED <<db, snaps, edgeVars, env, faults>>

\* Any read that fails here ends the run, and so does an INSERT that the unique
\* index refuses.  A full table is the model's bound.
ReadFails ==
  /\ run.pc \in {"discover", "check"}
  /\ IF nops = MaxOps \/ InFlight # {} THEN UNCHANGED faults ELSE Fault("rpc")
  /\ Exit
  /\ UNCHANGED <<db, snaps, edgeVars, env>>

StartIssue ==
  /\ At("discover")
  /\ managed = NoManaged
  /\ nops < MaxOps
  /\ CreateOperation("issue", "NEW", target, 0)
  /\ run' = [run EXCEPT !.pc = "present", !.cur = nops + 1, !.phase = "fresh"]
  /\ UNCHANGED <<managed, snaps, edgeVars, env, faults>>

DiscoverManaged ==
  /\ At("discover")
  /\ managed # NoManaged
  /\ IF managed.policy = target THEN Goto("check") ELSE Exit
  /\ UNCHANGED <<db, snaps, edgeVars, env, faults>>

Due == now >= managed.next

\* Mutant: the operation takes the policy the website has now.
StartRenewForTarget ==
  /\ At("check")
  /\ bound[managed.policy] = managed.cert
  /\ Due
  /\ nops < MaxOps
  /\ CreateOperation("renew", "RENEWING", target, managed.cert)
  /\ run' = [run EXCEPT !.pc = "present", !.cur = nops + 1, !.phase = "fresh"]
  /\ UNCHANGED <<managed, snaps, edgeVars, env, faults>>

StartRenew ==
  /\ At("check")
  /\ bound[managed.policy] = managed.cert
  /\ Due
  /\ nops < MaxOps
  /\ CreateOperation("renew", "RENEWING", managed.policy, managed.cert)
  /\ run' = [run EXCEPT !.pc = "present", !.cur = nops + 1, !.phase = "fresh"]
  /\ UNCHANGED <<managed, snaps, edgeVars, env, faults>>

NothingToDo ==
  /\ At("check")
  /\ bound[managed.policy] # managed.cert \/ ~Due
  /\ Exit
  /\ UNCHANGED <<db, snaps, edgeVars, env, faults>>

(***************************************************************************)
(* obtainAndContinue.                                                      *)
(***************************************************************************)
PresentChallenge ==
  /\ At("present")
  /\ SetStage(run.cur, Stage(run.cur), "CHALLENGE_PRESENT", "awaiting-acme")
  /\ Goto("order")
  /\ UNCHANGED <<nops, managed, snaps, edgeVars, env, faults>>

OrderFails ==
  /\ At("order")
  /\ Fault("acme")
  /\ LET renew == ops[run.cur].kind = "renew" IN
       /\ SetErrorWithRetry(run.cur, run.attempt,
            IF renew THEN "retry-new-order" ELSE "needs-attention")
       /\ IF renew THEN Goto("order_failed") ELSE Exit
  /\ UNCHANGED <<nops, managed, snaps, edgeVars, env>>

OrderFailureRecorded ==
  /\ At("order_failed")
  /\ RecordManagedError
  /\ Exit
  /\ UNCHANGED <<ops, nops, latest, snaps, edgeVars, env, faults>>

CertificateInvalid ==
  /\ At("order")
  /\ Fault("badcert")
  /\ SetStage(run.cur, "CHALLENGE_PRESENT", "ERROR", "manual-review")
  /\ Exit
  /\ UNCHANGED <<nops, managed, snaps, edgeVars, env>>

SaveIssued ==
  /\ At("order")
  /\ UpdateExpected(run.cur, "CHALLENGE_PRESENT",
       [ops[run.cur] EXCEPT !.stage = "CERT_ISSUED", !.exp = now + Life,
                            !.recovery = "none"])
  /\ run' = [run EXCEPT !.key = TRUE,
               !.pc = IF ops[run.cur].kind = "issue" THEN "find" ELSE "compare"]
  /\ UNCHANGED <<nops, managed, snaps, edgeVars, env, faults>>

-----------------------------------------------------------------------------
\* Mutant: the marker is not looked up before a certificate is created.
CreateWithoutLookup ==
  /\ At("find")
  /\ IF run.key THEN Goto("create") ELSE Fail("reissue")
  /\ UNCHANGED <<db, snaps, edgeVars, env, faults>>

(***************************************************************************)
(* continueOperation for a first issue: ensureCreated.                     *)
(***************************************************************************)
FindByMarker ==
  /\ At("find")
  /\ \/ /\ Marked(run.cur) # {}
        /\ IF \E c \in Marked(run.cur) :
                Marked(run.cur) = {c} /\ edge[c].fp = run.cur
           THEN /\ \E c \in Marked(run.cur) :
                     SetCertCreated(run.cur, "CERT_ISSUED", c)
                /\ Goto("binding")
           ELSE Fail("step") /\ UNCHANGED <<ops, latest>>
        /\ UNCHANGED faults
     \/ /\ Marked(run.cur) = {}
        /\ IF run.key THEN Goto("create") ELSE Fail("reissue")
        /\ UNCHANGED <<ops, latest, faults>>
     \/ Fault("rpc") /\ Fail("step") /\ UNCHANGED <<ops, latest>>
  /\ UNCHANGED <<nops, managed, snaps, edgeVars, env>>

CreateCertificate ==
  /\ At("create")
  /\ \/ /\ ncerts < MaxCerts
        /\ ncerts' = ncerts + 1
        /\ PutCert(ncerts + 1, run.cur, run.cur)
        /\ \/ /\ run' = [run EXCEPT !.pc = "created", !.got = ncerts + 1]
              /\ UNCHANGED faults
           \/ Fault("lost") /\ Fail("step")
     \/ Fault("rpc") /\ Fail("step") /\ UNCHANGED edgeVars
  /\ UNCHANGED <<db, snaps, env>>

RecordCreated ==
  /\ At("created")
  /\ SetCertCreated(run.cur, "CERT_ISSUED", run.got)
  /\ Goto("binding")
  /\ UNCHANGED <<nops, managed, snaps, edgeVars, env, faults>>

(***************************************************************************)
(* continueOperation for a renewal: ensureUpdated.                         *)
(***************************************************************************)
CompareLive ==
  /\ At("compare")
  /\ LET c == ops[run.cur].cert IN
       \/ IF Content(c) = run.cur
          THEN \/ /\ Serves(run.cur)
                  /\ SetCertCreated(run.cur, "CERT_ISSUED", c)
                  /\ Goto("binding")
                  /\ UNCHANGED <<snaps, faults>>
               \/ /\ TLSTimeout(run.cur)
                  /\ Fail("step")
                  /\ UNCHANGED <<ops, latest, snaps>>
          ELSE /\ IF run.key
                  THEN /\ snaps' = snaps \cup {[op |-> run.cur, cert |-> c,
                                         new |-> run.cur, old |-> Content(c)]}
                       /\ Goto("update")
                  ELSE Fail("reissue") /\ UNCHANGED snaps
               /\ UNCHANGED <<ops, latest, faults>>
       \/ Fault("rpc") /\ Fail("step") /\ UNCHANGED <<ops, latest, snaps>>
  /\ UNCHANGED <<nops, managed, edgeVars, env>>

UpdateCertificate ==
  /\ At("update")
  /\ LET c == ops[run.cur].cert IN
       \/ /\ PutCert(c, edge[c].mark, run.cur)
          /\ \/ Goto("read_back") /\ UNCHANGED faults
             \/ Fault("lost") /\ Goto("restore")
       \/ Fault("rpc") /\ Goto("restore") /\ UNCHANGED edge
  /\ UNCHANGED <<db, snaps, ncerts, env>>

ReadBack ==
  /\ At("read_back")
  /\ \/ /\ Content(ops[run.cur].cert) = run.cur
        /\ \/ Serves(run.cur) /\ Goto("updated") /\ UNCHANGED faults
           \/ TLSTimeout(run.cur) /\ Goto("restore")
     \/ /\ IF Content(ops[run.cur].cert) = run.cur
           THEN Fault("rpc") ELSE UNCHANGED faults
        /\ Goto("restore")
  /\ UNCHANGED <<db, snaps, edgeVars, env>>

\* Mutant: the snapshot is deleted before the stage is recorded.
ForgetBeforeRecord ==
  /\ At("updated")
  /\ snaps' = snaps \ SnapshotOf(run.cur)
  /\ UNCHANGED <<db, edgeVars, env, faults, run>>

RecordUpdated ==
  /\ At("updated")
  /\ SetCertCreated(run.cur, "CERT_ISSUED", ops[run.cur].cert)
  /\ Goto("forget")
  /\ UNCHANGED <<nops, managed, snaps, edgeVars, env, faults>>

\* Mutant: the snapshot stays although the renewal has succeeded.
KeepSnapshot ==
  /\ At("forget")
  /\ Goto("binding")
  /\ UNCHANGED <<db, snaps, edgeVars, env, faults>>

ForgetSnapshot ==
  /\ At("forget")
  /\ snaps' = snaps \ SnapshotOf(run.cur)
  /\ Goto("binding")
  /\ UNCHANGED <<db, edgeVars, env, faults>>

(***************************************************************************)
(* continueOperation from CERT_CREATED on.                                 *)
(***************************************************************************)
VerifyBinding ==
  /\ At("binding")
  /\ LET op == ops[run.cur] IN
       \/ /\ bound[op.policy] = op.cert
          /\ \/ /\ op.kind = "renew" \/ Serves(run.cur)
                /\ Goto("bind")
                /\ UNCHANGED faults
             \/ /\ op.kind = "issue"
                /\ TLSTimeout(run.cur)
                /\ Fail("step")
       \/ bound[op.policy] # op.cert /\ Fail("unbound") /\ UNCHANGED faults
       \/ Fault("rpc") /\ Fail("step")
  /\ UNCHANGED <<db, snaps, edgeVars, env>>

SetPolicyBound ==
  /\ At("bind")
  /\ SetStage(run.cur, "CERT_CREATED", "POLICY_BOUND", "none")
  /\ Goto("activate")
  /\ UNCHANGED <<nops, managed, snaps, edgeVars, env, faults>>

SetActive ==
  /\ At("activate")
  /\ LET op == ops[run.cur] IN
       \E j \in Jitters :
         managed' = [state |-> "ACTIVE", policy |-> op.policy, cert |-> op.cert,
                     exp |-> op.exp, next |-> op.exp - RenewBefore + j]
  /\ SetStage(run.cur, "POLICY_BOUND", "ACTIVE", "none")
  /\ IF run.phase = "recover"
     THEN run' = [run EXCEPT !.pc = "recover", !.cur = 0]
     ELSE Exit
  /\ UNCHANGED <<nops, snaps, edgeVars, env, faults>>

\* Mutant: a recovered operation without its key is left for the next run.
RecordFailureOnly ==
  /\ At("record")
  /\ SetStage(run.cur, Stage(run.cur), Stage(run.cur), "retry-integration-step")
  /\ Exit
  /\ UNCHANGED <<nops, managed, snaps, edgeVars, env, faults>>

(***************************************************************************)
(* continueRecorded notes the failure at whatever stage the operation is.  *)
(* A recovered operation that needs the lost key ends in ERROR; any other  *)
(* failure ends the run.                                                   *)
(***************************************************************************)
RecordOperationFailure ==
  /\ At("record")
  /\ SetStage(run.cur, Stage(run.cur), Stage(run.cur),
       IF run.cause = "unbound" THEN "manual-reconciliation"
                                ELSE "retry-integration-step")
  /\ IF run.cause = "reissue" /\ run.phase = "recover"
     THEN Goto("reissue") ELSE Exit
  /\ UNCHANGED <<nops, managed, snaps, edgeVars, env, faults>>

KeyUnavailable ==
  /\ At("reissue")
  /\ SetErrorWithRetry(run.cur, ops[run.cur].retry, "retry-new-order")
  /\ run' = [run EXCEPT !.pc = "recover", !.cur = 0, !.cause = "none"]
  /\ UNCHANGED <<nops, managed, snaps, edgeVars, env, faults>>

-----------------------------------------------------------------------------
(***************************************************************************)
(* What goes wrong.  A failed local write inside continueOperation is      *)
(* recorded like any other failure of it; elsewhere it ends the run.       *)
(***************************************************************************)
WritesInContinue == {"find", "created", "compare", "updated", "forget", "bind",
                     "activate"}
WritesInRestore == {"restore_op", "restore_managed", "restore_forget"}
WritesInRun == {"rollback_read", "rollback_forget", "recover", "decide",
                "discover", "check", "present", "order", "order_failed",
                "record", "reissue"}

DiskFails ==
  /\ Fault("disk")
  /\ \/ /\ \/ run.pc \in WritesInContinue
           \/ run.pc \in WritesInRestore /\ run.phase # "rollback"
        /\ Fail("step")
     \/ /\ \/ run.pc \in WritesInRun
           \/ run.pc \in WritesInRestore /\ run.phase = "rollback"
        /\ Exit
  /\ UNCHANGED <<db, snaps, edgeVars, env>>

Crash ==
  /\ run # Idle
  /\ Fault("crash")
  /\ Exit
  /\ UNCHANGED <<db, snaps, edgeVars, env>>

(***************************************************************************)
(* The world around the program.                                           *)
(***************************************************************************)
AdminBind ==
  /\ bound[target] = 0
  /\ \E c \in 1..ncerts : bound' = [bound EXCEPT ![target] = c]
  /\ UNCHANGED <<db, snaps, edgeVars, target, node, seen, now, faults, run>>

AdminUnbind ==
  /\ bound[target] # 0
  /\ Fault("admin")
  /\ bound' = [bound EXCEPT ![target] = 0]
  /\ UNCHANGED <<db, snaps, edgeVars, target, node, seen, now, run>>

AdminMove ==
  /\ Fault("admin")
  /\ \E p \in Policies \ {target} : target' = p
  /\ UNCHANGED <<db, snaps, edgeVars, bound, node, seen, now, run>>

Propagate ==
  /\ node # Configured
  /\ node' = Configured
  /\ seen' = seen \cup {Configured}
  /\ UNCHANGED <<db, snaps, edgeVars, bound, target, now, faults, run>>

Tick ==
  /\ now < MaxTime
  /\ now' = now + 1
  /\ UNCHANGED <<db, snaps, edgeVars, bound, target, node, seen, faults, run>>

-----------------------------------------------------------------------------
Init ==
  /\ ops = [o \in OpIds |-> NoOp] /\ nops = 0 /\ latest = 0
  /\ managed = NoManaged
  /\ snaps = {}
  /\ edge = [c \in CertIds |-> NoCert] /\ ncerts = 0
  /\ bound = [p \in Policies |-> 0] /\ target \in Policies
  /\ node = 0 /\ seen = {} /\ now = 0
  /\ faults = 0
  /\ run = Idle

RollbackStep == RollbackVerifyNew \/ RollbackReadBack \/ RollbackForget
                \/ RollbacksDone

RestoreStep == RestoreUpdate \/ RestoreVerifyOld \/ RestoreRecordOperation
               \/ RestoreRecordManaged \/ RestoreForget

RecoverStep == FailInterrupted \/ ContinueInterrupted \/ RecoveryDone
               \/ KeyUnavailable

DecideStep == DecideFirstIssue \/ DecideRenewal \/ ReadFails \/ StartIssue
              \/ DiscoverManaged \/ StartRenew \/ NothingToDo

ObtainStep == PresentChallenge \/ OrderFails \/ OrderFailureRecorded
              \/ CertificateInvalid \/ SaveIssued

ContinueStep == FindByMarker \/ CreateCertificate \/ RecordCreated
                \/ CompareLive \/ UpdateCertificate \/ ReadBack
                \/ RecordUpdated \/ ForgetSnapshot \/ VerifyBinding
                \/ SetPolicyBound \/ SetActive \/ RecordOperationFailure

Start == \E m \in Modes : StartRun(m)

RunStep == RollbackStep \/ RestoreStep \/ RecoverStep \/ DecideStep
           \/ ObtainStep \/ ContinueStep

Environment == AdminBind \/ AdminUnbind \/ AdminMove \/ Propagate \/ Tick

Next == Start \/ RunStep \/ DiskFails \/ Crash \/ Environment

Spec == Init /\ [][Next]_vars

(***************************************************************************)
(* systemd starts a run every hour, a started process keeps going, the     *)
(* node keeps loading what EdgeAPI has, and time passes.                   *)
(***************************************************************************)
Fairness == /\ WF_vars(Start) /\ WF_vars(RunStep)
            /\ WF_vars(Propagate) /\ WF_vars(Tick)

FairSpec == Spec /\ Fairness

\* ... and an administrator who binds a created certificate in the end.
FairAdminSpec == FairSpec /\ WF_vars(AdminBind)
=============================================================================
