------------------------- MODULE LifecycleProperties -------------------------
(***************************************************************************)
(* What the lifecycle of module Lifecycle promises.                        *)
(***************************************************************************)
EXTENDS Lifecycle

Kinds == {"none", "issue", "renew"}

Stages == {"NONE", "NEW", "RENEWING", "CHALLENGE_PRESENT", "CERT_ISSUED",
           "CERT_CREATED", "POLICY_BOUND", "ACTIVE", "ERROR"}

Recoveries == {"none", "awaiting-acme", "retry-new-order", "needs-attention",
               "manual-review", "manual-reconciliation",
               "retry-integration-step"}

PCs == {"idle", "rollbacks", "rollback_read", "rollback_forget", "restore",
        "restore_tls", "restore_op", "restore_managed", "restore_forget",
        "recover", "decide", "discover", "check", "present", "order",
        "order_failed", "find", "create", "created", "compare", "update",
        "read_back", "updated", "forget", "binding", "bind", "activate",
        "record", "reissue"}

OpRows == [kind : Kinds, stage : Stages, policy : Policies \cup {"none"},
           cert : 0..MaxCerts, exp : Nat, retry : 0..MaxOps, nextAt : Nat,
           recovery : Recoveries, ended : Nat]

ManagedRows == [state : {"NONE", "ACTIVE", "ERROR"},
                policy : Policies \cup {"none"}, cert : 0..MaxCerts,
                exp : Nat, next : Int]

Snapshots == [op : OpIds, cert : CertIds, new : OpIds, old : 0..MaxOps]

EdgeRows == [mark : 0..MaxOps, fp : 0..MaxOps]

Runs == [pc : PCs, mode : Modes \cup {"none"}, cur : 0..MaxOps, key : BOOLEAN,
         got : 0..MaxCerts, attempt : 0..MaxOps,
         phase : {"none", "rollback", "recover", "fresh"},
         cause : {"none", "step", "reissue", "unbound"}, todo : SUBSET OpIds]

\* Every variable stays in its type: in particular the retry counter of an
\* operation never exceeds the number of operations.
TypeOK ==
  /\ ops \in [OpIds -> OpRows]
  /\ nops \in 0..MaxOps
  /\ latest \in 0..MaxOps
  /\ managed \in ManagedRows
  /\ snaps \in SUBSET Snapshots
  /\ edge \in [CertIds -> EdgeRows]
  /\ ncerts \in 0..MaxCerts
  /\ bound \in [Policies -> 0..MaxCerts]
  /\ target \in Policies
  /\ node \in 0..MaxOps
  /\ seen \in SUBSET (0..MaxOps)
  /\ now \in Nat
  /\ faults \in Nat
  /\ run \in Runs

-----------------------------------------------------------------------------
\* The operation whose certificate the managed row describes.
LastActive ==
  CHOOSE o \in OpIds : Stage(o) = "ACTIVE"
                       /\ \A p \in OpIds : Stage(p) = "ACTIVE" => p <= o

\* What EdgeAPI holds for the managed certificate is always accounted for: it
\* is the certificate of the last successful operation, or it is a new one
\* that has been verified and will be activated, or a rollback snapshot is
\* there to bring the last successful one back.  Crashes, lost replies and
\* node lag at any step included.
LiveCertificateAccounted ==
  managed # NoManaged =>
    LET live == Content(managed.cert) IN
      \/ live = LastActive
      \/ Stage(live) \in {"CERT_CREATED", "POLICY_BOUND"}
      \/ \E s \in snaps : s.new = live /\ s.old = LastActive

\* The certificate of a renewal that ended in ERROR with no snapshot left is
\* not what EdgeAPI holds: "the old certificate was restored" is true.
RestoredMeansOld ==
  \A o \in OpIds :
    Stage(o) = "ERROR" /\ ops[o].kind = "renew" /\ SnapshotOf(o) = {}
      => \A c \in 1..ncerts : Content(c) # o

\* A rollback snapshot belongs to a renewal that has not reached ACTIVE, holds
\* the last successful certificate, and is the only one.
SnapshotAnchored ==
  \A s \in snaps :
    /\ ops[s.op].kind = "renew"
    /\ Stage(s.op) \in {"CERT_ISSUED", "CERT_CREATED", "ERROR"}
    /\ s.old = LastActive /\ s.new = s.op /\ s.cert = managed.cert
    /\ \A t \in snaps : t = s

\* No certificate object is orphaned or created twice: each one has the marker
\* of an operation that is in flight or succeeded, and no two have the same,
\* whatever replies were lost and wherever the process died.
NoOrphanCertificate ==
  \A c \in 1..ncerts :
    /\ Stage(edge[c].mark) # "ERROR"
    /\ \A d \in 1..ncerts : edge[d].mark = edge[c].mark => d = c

\* A run that has gone through its recovery has settled whatever earlier runs
\* left in flight, at whatever step they died and however often, though it
\* lists the operations only once: so it never stops for good at the unique
\* index, which would refuse its INSERT next to one still in flight.
RecoverySettles ==
  run.pc \in {"decide", "discover", "check"} => InFlight = {}

\* A compare-and-set on the stage never fails: the stage in the database is
\* the one the running step expects.
CASNeverConflicts ==
  LET stage == Stage(run.cur) IN
    /\ At("present") => stage \in {"NEW", "RENEWING"}
    /\ At("order") => stage = "CHALLENGE_PRESENT"
    /\ run.pc \in {"find", "create", "created", "compare", "update",
                   "read_back", "updated", "reissue"} => stage = "CERT_ISSUED"
    /\ run.pc \in {"forget", "binding", "bind"} => stage = "CERT_CREATED"
    /\ At("activate") => stage = "POLICY_BOUND"
    /\ At("record") => stage \notin {"NONE", "NEW", "RENEWING", "ACTIVE"}

\* An issue operation in ERROR never has a certificate, so runFirstIssue never
\* meets the state it refuses for good ("no managed certificate").
FirstIssueNeverRefused ==
  /\ \A o \in OpIds : ops[o].kind = "issue" /\ Stage(o) = "ERROR"
                        => ops[o].cert = 0
  /\ At("decide") /\ managed = NoManaged /\ latest # 0
       => FirstIssueFailure(latest)

\* An operation only becomes ACTIVE with a certificate that the edge node has
\* really served; a renewal not even reaches CERT_CREATED before.
ActivatedWasServed ==
  \A o \in OpIds :
    \/ Stage(o) \in {"POLICY_BOUND", "ACTIVE"}
    \/ Stage(o) = "CERT_CREATED" /\ ops[o].kind = "renew"
    => o \in seen

-----------------------------------------------------------------------------
\* Once a certificate is managed, no other object is ever created for it and
\* the managed row keeps its certificate and its policy.
StableCertificate ==
  [][managed # NoManaged =>
       /\ ncerts' = ncerts
       /\ managed'.cert = managed.cert /\ managed'.policy = managed.policy]_vars

Created(o) == Stage(o) = "NONE" /\ Stage(o)' # "NONE"

\* A timer run never places a first order, and after a first order there is
\* only ever another one in a run the operator asked for as a retry.
FirstOrderNeedsOperator ==
  [][\A o \in OpIds :
       Created(o) /\ ops'[o].kind = "issue" =>
         IF \E p \in OpIds : ops[p].kind = "issue"
         THEN run.mode = "manual" ELSE run.mode = "interactive"]_vars

\* The number of renewals that failed since the last success, up to o.
FailedRenewals(o) ==
  Cardinality({p \in 1..o : \A q \in p..o :
                 ops[q].kind = "renew" /\ Stage(q) = "ERROR"})

\* After a renewal has failed, the next one starts no earlier than the
\* shortest retry delay later.
RenewalBacksOff ==
  [][\A o \in OpIds : Created(o) /\ FailedRenewals(o - 1) > 0 =>
       now >= ops[o - 1].ended + DelayAfter(0)]_vars

\* The number of renewals up to o whose orders failed, one after the other.
FailedOrders(o) ==
  Cardinality({p \in 1..o : \A q \in p..o :
                 ops[q].kind = "renew" /\ Stage(q) = "ERROR" /\ ops[q].exp = 0})

\* After k orders in a row have failed, the next one is placed no earlier than
\* the k-th retry delay later, though each is an operation, and usually a run,
\* of its own.
OrdersBackOff ==
  [][\A o \in OpIds : Created(o) /\ FailedOrders(o - 1) > 0 =>
       now >= ops[o - 1].ended + DelayAfter(FailedOrders(o - 1) - 1)]_vars

-----------------------------------------------------------------------------
(***************************************************************************)
(* The lifecycle implements module RenewalContract.  A renewal is on trial *)
(* from its snapshot until the snapshot is gone and it is ACTIVE or ERROR. *)
(***************************************************************************)
OnTrial ==
  {s.op : s \in snaps} \cup
  {o \in OpIds : ops[o].kind = "renew" /\ Stage(o) \in {"CERT_CREATED", "POLICY_BOUND"}}

Good == IF managed = NoManaged THEN 0 ELSE LastActive
Live == IF managed = NoManaged THEN 0 ELSE Content(managed.cert)
Trial == IF OnTrial = {} THEN 0 ELSE CHOOSE o \in OnTrial : TRUE

Contract == INSTANCE RenewalContract WITH
              Fingerprints <- OpIds, None <- 0, good <- Good, live <- Live, trial <- Trial

\* Every behaviour of the runner is one of a certificate object that is tried
\* and then accepted or taken back, crashes and lost replies included.
ImplementsContract == Contract!Spec

-----------------------------------------------------------------------------
\* A rollback is never given up: every snapshot is eventually settled.
SnapshotsSettle == snaps # {} ~> snaps = {}

\* A renewal does not stay in flight for ever.
RenewalsSettle ==
  \A o \in OpIds :
    ops[o].kind = "renew" /\ Stage(o) \notin Settled ~> Stage(o) \in Settled

\* Whatever step a first issue is interrupted at, it ends in ACTIVE or ERROR.
FirstIssueSettles ==
  \A o \in OpIds :
    ops[o].kind = "issue" /\ Stage(o) \notin Settled ~> Stage(o) \in Settled
=============================================================================
