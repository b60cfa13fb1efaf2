------------------------- MODULE LifecycleInvariant -------------------------
(***************************************************************************)
(* The inductive invariant behind the safety properties of the lifecycle.  *)
(* Its core is that only the last operation matters: all earlier ones are  *)
(* settled, and the step the process is at says what stage the last one    *)
(* has and whether a snapshot can exist.                                   *)
(***************************************************************************)
EXTENDS LifecycleProperties

\* Rows 1..nops exist, the last one was written last, the earlier are settled.
LastOperation ==
  /\ latest = nops
  /\ \A o \in OpIds : Stage(o) = "NONE" <=> o > nops
  /\ \A o \in OpIds : o < nops => Stage(o) \in Settled

\* The retry counter is only set on failure and counts earlier operations.
RetriesCounted ==
  \A o \in OpIds : ops[o].retry <= o /\ (Stage(o) # "ERROR" => ops[o].retry = 0)

\* What an operation of each kind refers to.
CertificatesKnown ==
  /\ managed # NoManaged => managed.cert \in 1..ncerts
  /\ \A o \in OpIds :
       /\ ops[o].kind = "none" <=> Stage(o) = "NONE"
       /\ ops[o].kind = "issue" =>
            /\ Stage(o) # "RENEWING"
            /\ Stage(o) \in {"NEW", "CHALLENGE_PRESENT", "CERT_ISSUED", "ERROR"}
                 => ops[o].cert = 0
            /\ Stage(o) \in {"CERT_CREATED", "POLICY_BOUND", "ACTIVE"}
                 => ops[o].cert \in 1..ncerts
            /\ Stage(o) \in Settled \/ managed = NoManaged
       /\ ops[o].kind = "renew" =>
            /\ Stage(o) # "NEW"
            /\ managed # NoManaged /\ ops[o].cert = managed.cert
            /\ ops[o].policy = managed.policy
       /\ Stage(o) = "ACTIVE" => managed # NoManaged

\* Only the last operation can have a snapshot, and it is a renewal then.
SnapshotsOfLast ==
  \A s \in snaps :
    /\ s.op = nops /\ s.new = s.op
    /\ ops[s.op].kind = "renew" /\ s.cert = managed.cert
    /\ Stage(s.op) \in {"CERT_ISSUED", "CERT_CREATED", "ERROR"}

\* Steps before which every snapshot has been settled.
NoSnapshotPCs == {"recover", "decide", "discover", "check", "present", "order",
                  "order_failed", "find", "create", "created", "compare",
                  "binding", "bind", "activate", "reissue"}
RestorePCs == {"rollback_read", "rollback_forget", "restore", "restore_tls",
               "restore_op", "restore_managed", "restore_forget"}
IssuePCs == {"find", "create", "created"}
RenewPCs == {"compare", "update", "read_back", "updated"}
DecidePCs == {"decide", "discover", "check"}

\* At one of these steps the last operation is at one of these stages.
Here(pcs, stages) ==
  run.pc \in pcs => run.cur = nops /\ nops > 0 /\ Stage(nops) \in stages

\* The stage and kind of the last operation at each step.
StageAtStep ==
  /\ run.cur \in {0, nops}
  /\ run.attempt <= nops /\ (run.pc \in {"present", "order"} => run.attempt < nops)
  /\ At("created") => run.got \in 1..ncerts
  /\ run.pc \in NoSnapshotPCs => snaps = {}
  /\ run.pc \in DecidePCs => nops = 0 \/ Stage(nops) \in Settled
  /\ At("check") => managed # NoManaged
  /\ Here({"present"}, {"NEW", "RENEWING"})
  /\ Here({"order"}, {"CHALLENGE_PRESENT"})
  /\ Here({"order_failed"}, {"ERROR"})
  /\ Here(IssuePCs \cup RenewPCs \cup {"reissue"}, {"CERT_ISSUED"})
  /\ Here({"forget", "binding", "bind"}, {"CERT_CREATED"})
  /\ Here({"activate"}, {"POLICY_BOUND"})
  /\ Here({"record"}, {"CERT_ISSUED", "CERT_CREATED", "POLICY_BOUND", "ERROR"})
  /\ Here(RestorePCs, {"CERT_ISSUED", "CERT_CREATED", "ERROR"})
  /\ Here({"restore_managed", "restore_forget"}, {"ERROR"})
  /\ run.pc \in IssuePCs => ops[nops].kind = "issue"
  /\ run.pc \in RenewPCs \cup RestorePCs \cup {"forget", "order_failed"}
       => ops[nops].kind = "renew"
  /\ At("record") /\ run.cause = "reissue"
       => Stage(nops) = "CERT_ISSUED" /\ snaps = {}

StepInv ==
  /\ TypeOK
  /\ LastOperation
  /\ RetriesCounted
  /\ CertificatesKnown
  /\ SnapshotsOfLast
  /\ StageAtStep

\* A recovery has still to go through exactly what is still in flight.
RecoveryOwesAll == run.todo = IF At("recover") THEN InFlight ELSE {}

IInv == StepInv /\ RecoveryOwesAll

-----------------------------------------------------------------------------
(***************************************************************************)
(* What the runner knows of the certificate objects.  With IInv these are  *)
(* inductive too: KnownInv and LiveInv whatever fails, TrialInv as long as *)
(* no restore fails and is taken for done.                                 *)
(***************************************************************************)
RestoresSucceed == "restore" \notin Faults

\* What the steps after a verification rely on: the node has served it.
Served ==
  /\ node \in seen \cup {0}
  /\ ActivatedWasServed
  /\ run.pc \in {"rollback_read", "updated", "bind"} => nops \in seen

\* Every certificate object has the marker of one first issue, which has not
\* failed, and its content too unless it is the managed one.
MarkersKnown ==
  /\ \A c \in 1..ncerts :
       /\ edge[c].mark \in 1..nops
       /\ ops[edge[c].mark].kind = "issue"
       /\ Stage(edge[c].mark) \notin {"NEW", "CHALLENGE_PRESENT", "ERROR"}
       /\ edge[c].fp = edge[c].mark \/ (managed # NoManaged /\ c = managed.cert)
       /\ \A d \in 1..ncerts : edge[d].mark = edge[c].mark => d = c
  /\ At("create") \/ At("reissue") \/ (At("record") /\ run.cause = "reissue")
       => Marked(nops) = {}
  /\ At("created") => edge[run.got].mark = nops

\* The certificate of a first issue holds what was issued for it.
FirstIsIssued ==
  nops > 0 /\ ops[nops].kind = "issue" /\ Stage(nops) \in {"CERT_CREATED", "POLICY_BOUND"}
    => Content(ops[nops].cert) = nops

KnownInv == IInv /\ Served /\ MarkersKnown /\ FirstIsIssued

IsLast(o) == Stage(o) = "ACTIVE" /\ \A p \in OpIds : Stage(p) = "ACTIVE" => p <= o

\* What the managed object holds whatever fails: nothing older than the last
\* success, and the new certificate wherever it counts as verified for good.
LiveAtStage ==
  /\ At("rollback_forget") => Stage(nops) # "CERT_ISSUED"
  /\ At("update") => snaps # {}
  /\ managed # NoManaged =>
       LET live == Content(managed.cert) IN
         /\ \E o \in OpIds : IsLast(o)
         /\ live \in LastActive..nops
         /\ \A s \in snaps : s.old \in LastActive..nops
         /\ Stage(nops) \in {"CERT_CREATED", "POLICY_BOUND"} /\ snaps = {}
              => live = nops
         /\ run.pc \in {"updated", "forget", "rollback_forget"} => live = nops

LiveInv == KnownInv /\ LiveAtStage

RestoredPCs == {"restore_tls", "restore_op", "restore_managed", "restore_forget"}

\* What the managed object holds at each stage of a renewal.
TrialAtStage ==
  managed # NoManaged =>
    LET live == Content(managed.cert) IN
      /\ live \in {LastActive, nops}
      /\ \A s \in snaps : s.old = LastActive
      /\ Stage(nops) \in Settled \cup {"RENEWING", "CHALLENGE_PRESENT"}
           => live = LastActive
      /\ Stage(nops) = "CERT_ISSUED" /\ snaps = {} => live = LastActive
      /\ run.pc \in RestoredPCs => live = LastActive

TrialInv == LiveInv /\ TrialAtStage

-----------------------------------------------------------------------------
(***************************************************************************)
(* When orders are placed.  A first order is asked for; the delay after a  *)
(* failed renewal is in its row, and a run that orders has waited for it,  *)
(* as long as no run is cut short between an order and its record.         *)
(***************************************************************************)
OrderAsked ==
  At("discover") /\ managed = NoManaged =>
    run.mode = IF nops = 0 THEN "interactive" ELSE "manual"

Uninterrupted == Faults \cap {"crash", "disk", "badcert"} = {}

\* Every failed renewal has its delay, and counts the orders that failed before.
FailuresTimed ==
  \A o \in OpIds :
    /\ ops[o].kind = "renew" /\ Stage(o) = "ERROR" =>
         /\ ops[o].retry > 0
         /\ ops[o].nextAt = ops[o].ended + DelayAfter(ops[o].retry - 1)
    /\ FailedOrders(o) <= ops[o].retry
    /\ Stage(o) \in {"CERT_ISSUED", "CERT_CREATED"} => ops[o].exp > 0

\* A run that comes to order has waited for the last failure and counts on.
RunWaited ==
  /\ nops > 0 /\ Stage(nops) \in {"NEW", "RENEWING", "CHALLENGE_PRESENT"}
       => run.pc \in {"present", "order"}
  /\ managed # NoManaged /\ nops > 0 =>
       /\ run.pc \in {"discover", "check"} =>
            /\ FailedOrders(nops) <= run.attempt
            /\ Stage(nops) = "ERROR" => ops[nops].nextAt <= now
       /\ run.pc \in {"present", "order"} => FailedOrders(nops - 1) <= run.attempt

BackoffInv == IInv /\ FailuresTimed /\ RunWaited
=============================================================================
