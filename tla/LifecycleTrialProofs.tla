------------------------ MODULE LifecycleTrialProofs ------------------------
(***************************************************************************)
(* What the runner knows of the certificate objects, proved for every      *)
(* bound: KnownInv and LiveInv whatever fails, TrialInv where no restore   *)
(* fails and is taken for done.  From them follow the safety properties    *)
(* about certificates, and that the lifecycle implements module            *)
(* RenewalContract. The last part is about orders: a first order is asked  *)
(* for, the managed object stays the same one, and a renewal waits for the *)
(* delay of the failure before it, as long as no run is cut short between  *)
(* an order and its record.                                                *)
(*                                                                         *)
(* Three lemmas say of all steps at once what they do to the parts of the  *)
(* state: which actions write what (Frames), which action leads to a step  *)
(* of the process (Arrivals), and how the operation table moves on (Moves).*)
(***************************************************************************)
EXTENDS LifecycleProofs, FiniteSetTheorems

\* The actions that write to the operation table.
OpsWriters ==
  \/ RollbackReadBack \/ RestoreRecordOperation \/ FailInterrupted
  \/ KeyUnavailable \/ DecideFirstIssue \/ StartIssue \/ StartRenew
  \/ PresentChallenge \/ OrderFails \/ CertificateInvalid \/ SaveIssued
  \/ FindByMarker \/ RecordCreated \/ CompareLive \/ RecordUpdated
  \/ SetPolicyBound \/ SetActive \/ RecordOperationFailure

\* Every variable has its writers.
LEMMA Frames ==
  ASSUME [Next]_vars
  PROVE  /\ UNCHANGED <<ops, nops>> \/ OpsWriters
         /\ \/ UNCHANGED <<edge, ncerts>>
            \/ RestoreUpdate \/ CreateCertificate \/ UpdateCertificate
         /\ \/ UNCHANGED snaps
            \/ RollbackForget \/ RestoreForget \/ CompareLive \/ ForgetSnapshot
         /\ \/ UNCHANGED managed
            \/ RestoreRecordManaged \/ OrderFailureRecorded \/ SetActive
         /\ UNCHANGED <<node, seen>> \/ Propagate
<1> USE DEF db, edgeVars, env
<1>1. CASE Start \/ RollbackStep
  BY <1>1 DEF Start, StartRun, RollbackStep, RollbackVerifyNew, RollbackReadBack,
     RollbackForget, RollbacksDone, OpsWriters
<1>2. CASE RestoreStep
  BY <1>2 DEF RestoreStep, RestoreUpdate, RestoreVerifyOld, RestoreRecordOperation,
     RestoreRecordManaged, RestoreForget, OpsWriters
<1>3. CASE RecoverStep
  BY <1>3 DEF RecoverStep, FailInterrupted, ContinueInterrupted, RecoveryDone,
     KeyUnavailable, OpsWriters
<1>4. CASE DecideStep
  BY <1>4 DEF DecideStep, DecideFirstIssue, DecideRenewal, ReadFails, StartIssue,
     DiscoverManaged, StartRenew, NothingToDo, OpsWriters
<1>5. CASE ObtainStep
  BY <1>5 DEF ObtainStep, PresentChallenge, OrderFails, OrderFailureRecorded,
     CertificateInvalid, SaveIssued, OpsWriters
<1>6. CASE ContinueStep
  BY <1>6 DEF ContinueStep, FindByMarker, CreateCertificate, RecordCreated,
     CompareLive, UpdateCertificate, ReadBack, RecordUpdated, ForgetSnapshot,
     VerifyBinding, SetPolicyBound, SetActive, RecordOperationFailure, OpsWriters
<1>7. CASE DiskFails \/ Crash \/ Environment
  BY <1>7 DEF DiskFails, Crash, Environment, AdminBind, AdminUnbind, AdminMove,
     Propagate, Tick
<1>8. CASE UNCHANGED vars
  BY <1>8 DEF vars
<1> QED BY <1>1, <1>2, <1>3, <1>4, <1>5, <1>6, <1>7, <1>8 DEF Next, RunStep

\* Which action leads to a step of the process.
Arrival ==
  \/ UNCHANGED run
  \/ /\ run'.pc = "rollback_read" => RollbackVerifyNew
     /\ run'.pc = "rollback_forget" => RollbackReadBack
     /\ run'.pc = "restore_tls" => RestoreUpdate
     /\ run'.pc = "restore_op" => RestoreVerifyOld
     /\ run'.pc = "restore_managed" => RestoreRecordOperation
     /\ run'.pc = "restore_forget" => RestoreRecordManaged
     /\ run'.pc = "reissue" => RecordOperationFailure
     /\ run'.pc = "discover" => DecideFirstIssue \/ DecideRenewal
     /\ run'.pc = "check" => DiscoverManaged
     /\ run'.pc = "present" => StartIssue \/ StartRenew
     /\ run'.pc = "order" => PresentChallenge
     /\ run'.pc = "create" => FindByMarker
     /\ run'.pc = "created" => CreateCertificate
     /\ run'.pc = "update" => CompareLive
     /\ run'.pc = "updated" => ReadBack
     /\ run'.pc = "forget" => RecordUpdated
     /\ run'.pc = "bind" => VerifyBinding
     /\ run'.pc = "record" /\ run'.cause = "reissue"
          => FindByMarker \/ CompareLive

\* The step a process comes to says which action led to it.
LEMMA Arrivals ==
  ASSUME [Next]_vars, BoundsAssumption, run \in Runs
  PROVE  Arrival
<1> USE DEF Arrival, Goto, Fail, Exit, Idle, Runs
<1>1. CASE Start \/ RollbackStep
  <2>1. CASE Start
    BY <2>1 DEF Start, StartRun
  <2>2. CASE RollbackVerifyNew
    BY <2>2 DEF RollbackVerifyNew
  <2>3. CASE RollbackReadBack
    BY <2>3 DEF RollbackReadBack
  <2>4. CASE RollbackForget
    BY <2>4 DEF RollbackForget
  <2>5. CASE RollbacksDone
    BY <2>5 DEF RollbacksDone
  <2> QED BY <1>1, <2>1, <2>2, <2>3, <2>4, <2>5 DEF Start, RollbackStep
<1>2. CASE RestoreStep
  <2>1. CASE RestoreUpdate
    BY <2>1 DEF RestoreUpdate
  <2>2. CASE RestoreVerifyOld
    <3>1. Goto("restore_op") \/ Exit \/ Fail("step")
      BY <2>2 DEF RestoreVerifyOld
    <3>2. CASE Goto("restore_op")
      BY <2>2, <3>2
    <3>3. CASE Exit
      BY <2>2, <3>3
    <3>4. CASE Fail("step")
      BY <2>2, <3>4
    <3> QED BY <3>1, <3>2, <3>3, <3>4
  <2>3. CASE RestoreRecordOperation
    BY <2>3 DEF RestoreRecordOperation
  <2>4. CASE RestoreRecordManaged
    BY <2>4 DEF RestoreRecordManaged
  <2>5. CASE RestoreForget
    BY <2>5 DEF RestoreForget
  <2> QED BY <1>2, <2>1, <2>2, <2>3, <2>4, <2>5 DEF RestoreStep
<1>3. CASE RecoverStep
  <2>1. CASE FailInterrupted
    <3>1. run.pc = "recover" /\ \E o : run' = [run EXCEPT !.todo = @ \ {o}]
      BY <2>1 DEF FailInterrupted, At
    <3>2. run'.pc = "recover" /\ run'.cause = run.cause
      BY <3>1
    <3> QED BY <2>1, <3>2
  <2>2. CASE ContinueInterrupted
    BY <2>2 DEF ContinueInterrupted, ContinueAt
  <2>3. CASE RecoveryDone
    BY <2>3 DEF RecoveryDone
  <2>4. CASE KeyUnavailable
    BY <2>4 DEF KeyUnavailable
  <2> QED BY <1>3, <2>1, <2>2, <2>3, <2>4 DEF RecoverStep
<1>4. CASE DecideStep
  <2>1. CASE DecideFirstIssue
    <3>1. Exit \/ \E a : run' = [run EXCEPT !.pc = "discover", !.attempt = a]
      BY <2>1 DEF DecideFirstIssue
    <3>2. CASE Exit
      BY <2>1, <3>2
    <3>3. ASSUME NEW a, run' = [run EXCEPT !.pc = "discover", !.attempt = a]
          PROVE  Arrival
      BY <2>1, <3>3
    <3> QED BY <3>1, <3>2, <3>3
  <2>2. CASE DecideRenewal
    <3>1. Exit \/ \E a : run' = [run EXCEPT !.pc = "discover", !.attempt = a]
      BY <2>2 DEF DecideRenewal
    <3>2. CASE Exit
      BY <2>2, <3>2
    <3>3. ASSUME NEW a, run' = [run EXCEPT !.pc = "discover", !.attempt = a]
          PROVE  Arrival
      BY <2>2, <3>3
    <3> QED BY <3>1, <3>2, <3>3
  <2>3. CASE ReadFails
    BY <2>3 DEF ReadFails
  <2>4. CASE StartIssue
    BY <2>4 DEF StartIssue
  <2>5. CASE DiscoverManaged
    BY <2>5 DEF DiscoverManaged
  <2>6. CASE StartRenew
    BY <2>6 DEF StartRenew
  <2>7. CASE NothingToDo
    BY <2>7 DEF NothingToDo
  <2> QED BY <1>4, <2>1, <2>2, <2>3, <2>4, <2>5, <2>6, <2>7 DEF DecideStep
<1>5. CASE ObtainStep
  <2>1. CASE PresentChallenge
    BY <2>1 DEF PresentChallenge
  <2>2. CASE OrderFails
    BY <2>2 DEF OrderFails
  <2>3. CASE OrderFailureRecorded
    BY <2>3 DEF OrderFailureRecorded
  <2>4. CASE CertificateInvalid
    BY <2>4 DEF CertificateInvalid
  <2>5. CASE SaveIssued
    BY <2>5 DEF SaveIssued
  <2> QED BY <1>5, <2>1, <2>2, <2>3, <2>4, <2>5 DEF ObtainStep
<1>6. CASE ContinueStep
  <2>1. CASE FindByMarker
    BY <2>1 DEF FindByMarker
  <2>2. CASE CreateCertificate
    BY <2>2 DEF CreateCertificate
  <2>3. CASE RecordCreated
    BY <2>3 DEF RecordCreated
  <2>4. CASE CompareLive
    BY <2>4 DEF CompareLive
  <2>5. CASE UpdateCertificate
    BY <2>5 DEF UpdateCertificate
  <2>6. CASE ReadBack
    BY <2>6 DEF ReadBack
  <2>7. CASE RecordUpdated
    BY <2>7 DEF RecordUpdated
  <2>8. CASE ForgetSnapshot
    BY <2>8 DEF ForgetSnapshot
  <2>9. CASE VerifyBinding
    BY <2>9 DEF VerifyBinding
  <2>10. CASE SetPolicyBound
    BY <2>10 DEF SetPolicyBound
  <2>11. CASE SetActive
    <3>1. Exit \/ run' = [run EXCEPT !.pc = "recover", !.cur = 0]
      BY <2>11 DEF SetActive
    <3>2. CASE Exit
      BY <2>11, <3>2
    <3>3. CASE run' = [run EXCEPT !.pc = "recover", !.cur = 0]
      BY <2>11, <3>3
    <3> QED BY <3>1, <3>2, <3>3
  <2>12. CASE RecordOperationFailure
    BY <2>12 DEF RecordOperationFailure
  <2> QED BY <1>6, <2>1, <2>2, <2>3, <2>4, <2>5, <2>6, <2>7, <2>8, <2>9, <2>10, <2>11, <2>12 DEF ContinueStep
<1>7. CASE DiskFails \/ Crash \/ Environment
  <2>1. CASE DiskFails
    <3>1. Exit \/ Fail("step")
      BY <2>1 DEF DiskFails
    <3>2. CASE Exit
      BY <2>1, <3>2
    <3>3. CASE Fail("step")
      BY <2>1, <3>3
    <3> QED BY <3>1, <3>2, <3>3
  <2>2. CASE Crash
    BY <2>2 DEF Crash
  <2>3. CASE Environment
    BY <2>3 DEF Environment, AdminBind, AdminUnbind, AdminMove,
     Propagate, Tick
  <2> QED BY <1>7, <2>1, <2>2, <2>3 DEF Environment
<1>8. CASE UNCHANGED vars
  BY <1>8 DEF vars
<1> QED BY <1>1, <1>2, <1>3, <1>4, <1>5, <1>6, <1>7, <1>8 DEF Next, RunStep

-----------------------------------------------------------------------------
\* The table says of every operation what it said before.
SameRows ==
  /\ nops' = nops
  /\ \A o \in OpIds : /\ ops'[o].kind = ops[o].kind /\ ops'[o].stage = ops[o].stage
                      /\ ops'[o].cert = ops[o].cert

\* An operation is added.
NewRow(kind, stage, c) ==
  /\ nops' = nops + 1 /\ nops' \in OpIds
  /\ \A o \in OpIds \ {nops'} : ops'[o] = ops[o]
  /\ ops'[nops'].kind = kind /\ ops'[nops'].stage = stage /\ ops'[nops'].cert = c

\* The last operation goes from one stage to another.
RowMoves(from, to, c) ==
  /\ nops' = nops /\ nops \in OpIds /\ Stage(nops) \in from
  /\ \A o \in OpIds \ {nops} : ops'[o] = ops[o]
  /\ ops'[nops].kind = ops[nops].kind /\ ops'[nops].stage = to
  /\ ops'[nops].cert = c

\* How the operation table moves on.
StageMoves ==
  \/ SameRows
  \/ StartIssue /\ NewRow("issue", "NEW", 0)
  \/ StartRenew /\ NewRow("renew", "RENEWING", managed.cert)
  \/ /\ PresentChallenge
     /\ RowMoves({"NEW", "RENEWING"}, "CHALLENGE_PRESENT", ops[nops].cert)
  \/ /\ FailInterrupted
     /\ RowMoves({"NEW", "RENEWING", "CHALLENGE_PRESENT"}, "ERROR", ops[nops].cert)
  \/ /\ OrderFails \/ CertificateInvalid
     /\ RowMoves({"CHALLENGE_PRESENT"}, "ERROR", ops[nops].cert)
  \/ SaveIssued /\ RowMoves({"CHALLENGE_PRESENT"}, "CERT_ISSUED", ops[nops].cert)
  \/ KeyUnavailable /\ RowMoves({"CERT_ISSUED"}, "ERROR", ops[nops].cert)
  \/ /\ RestoreRecordOperation
     /\ RowMoves({"CERT_ISSUED", "CERT_CREATED"}, "ERROR", ops[nops].cert)
  \/ /\ FindByMarker
     /\ \E c \in Marked(nops) : /\ Marked(nops) = {c} /\ edge[c].fp = nops
                                /\ RowMoves({"CERT_ISSUED"}, "CERT_CREATED", c)
  \/ RecordCreated /\ RowMoves({"CERT_ISSUED"}, "CERT_CREATED", run.got)
  \/ /\ RollbackReadBack \/ RecordUpdated
     /\ RowMoves({"CERT_ISSUED"}, "CERT_CREATED", ops[nops].cert)
  \/ /\ CompareLive /\ Serves(nops) /\ UNCHANGED snaps
     /\ RowMoves({"CERT_ISSUED"}, "CERT_CREATED", ops[nops].cert)
     /\ Content(ops[nops].cert) = nops
  \/ SetPolicyBound /\ RowMoves({"CERT_CREATED"}, "POLICY_BOUND", ops[nops].cert)
  \/ SetActive /\ RowMoves({"POLICY_BOUND"}, "ACTIVE", ops[nops].cert)

\* A change of the stage of the last operation moves its row.
LEMMA SetStageMoves ==
  ASSUME TypeOK, nops \in OpIds, NEW expected, NEW stage \in Stages,
         NEW recovery \in Recoveries, NEW from, Stage(nops) \in from,
         SetStage(nops, expected, stage, recovery), nops' = nops
  PROVE  RowMoves(from, stage, ops[nops].cert)
<1>1. RowWritten(stage, ops[nops].cert, ops[nops].retry)
  BY SetStageRow
<1> QED BY <1>1 DEF RowWritten, RowMoves

\* So does the record of a failure.
LEMMA SetErrorMoves ==
  ASSUME TypeOK, PolicyAssumption, BoundsAssumption, nops \in OpIds,
         NEW attempt \in 0..MaxOps, attempt < MaxOps,
         NEW recovery \in Recoveries, NEW from, Stage(nops) \in from,
         SetErrorWithRetry(nops, attempt, recovery), nops' = nops
  PROVE  RowMoves(from, "ERROR", ops[nops].cert)
<1>1. RowWritten("ERROR", ops[nops].cert, attempt + 1)
  BY SetErrorRow
<1> QED BY <1>1 DEF RowWritten, RowMoves

\* So does the record of a certificate that EdgeAPI has.
LEMMA SetCertCreatedMoves ==
  ASSUME TypeOK, nops \in OpIds, NEW expected, NEW c \in 0..MaxCerts,
         NEW from, Stage(nops) \in from,
         SetCertCreated(nops, expected, c), nops' = nops
  PROVE  RowMoves(from, "CERT_CREATED", c)
<1>1. RowWritten("CERT_CREATED", c, ops[nops].retry)
  BY SetCertCreatedRow
<1> QED BY <1>1 DEF RowWritten, RowMoves

\* A new operation gets the next row.
LEMMA CreateMoves ==
  ASSUME TypeOK, BoundsAssumption, NEW kind, NEW stage, NEW policy, NEW c,
         nops < MaxOps, CreateOperation(kind, stage, policy, c)
  PROVE  NewRow(kind, stage, c)
<1>1. nops' = nops + 1 /\ nops + 1 \in OpIds /\ ops \in [OpIds -> OpRows]
  BY DEF CreateOperation, OpIds, TypeOK, BoundsAssumption
<1> QED BY <1>1 DEF CreateOperation, NewRow, NoOp

\* Every step moves the table in one of these ways.
LEMMA Moves ==
  ASSUME IInv, BoundsAssumption, PolicyAssumption, [Next]_vars
  PROVE  StageMoves
<1> USE DEF Here, At
<1>0. /\ TypeOK /\ SnapshotsOfLast /\ StageAtStep /\ LastOperation
      /\ RetriesCounted /\ CertificatesKnown /\ nops \in 0..MaxOps /\ nops \in Nat
      /\ MaxOps \in Nat /\ ncerts \in 0..MaxCerts /\ MaxCerts \in Nat
      /\ run \in Runs
  BY Types
<1>1. CASE UNCHANGED <<ops, nops>>
  BY <1>1 DEF StageMoves, SameRows
<1>2. CASE RollbackReadBack
  <2>1. run.cur = nops /\ nops \in OpIds /\ nops' = nops
    BY <1>0, <1>2 DEF RollbackReadBack, StageAtStep, RestorePCs, OpIds
  <2>2. CASE UNCHANGED ops
    BY <2>1, <2>2 DEF StageMoves, SameRows
  <2>3. CASE Stage(nops) = "CERT_ISSUED" /\ SetCertCreated(nops, "CERT_ISSUED", ops[nops].cert)
    <3>1. ops[nops].cert \in 0..MaxCerts
      BY <1>0, <2>1 DEF TypeOK, OpRows
    <3>2. RowMoves({"CERT_ISSUED"}, "CERT_CREATED", ops[nops].cert)
      BY <1>0, <2>1, <2>3, <3>1, SetCertCreatedMoves
    <3> QED BY <1>2, <3>2 DEF StageMoves
  <2> QED BY <1>2, <2>1, <2>2, <2>3 DEF RollbackReadBack, SnapshotOf
<1>3. CASE RestoreRecordOperation
  <2>1. run.cur = nops /\ nops \in OpIds /\ nops' = nops
        /\ Stage(nops) \in {"CERT_ISSUED", "CERT_CREATED", "ERROR"}
    BY <1>0, <1>3 DEF RestoreRecordOperation, StageAtStep, RestorePCs, OpIds
  <2>2. CASE UNCHANGED ops
    BY <2>1, <2>2 DEF StageMoves, SameRows
  <2>3. CASE Stage(nops) # "ERROR" /\ SetErrorWithRetry(nops, ops[nops].retry, "retry-new-order")
    <3>1. ops[nops].retry = 0 /\ 0 < MaxOps
      BY <1>0, <2>1, <2>3 DEF RetriesCounted, OpIds
    <3>2. RowMoves({"CERT_ISSUED", "CERT_CREATED"}, "ERROR", ops[nops].cert)
      BY <1>0, <2>1, <2>3, <3>1, SetErrorMoves DEF Recoveries
    <3> QED BY <1>3, <3>2 DEF StageMoves
  <2> QED BY <1>3, <2>1, <2>2, <2>3 DEF RestoreRecordOperation
<1>4. CASE FailInterrupted
  <2>1. PICK o \in InFlight :
          /\ Stage(o) \in {"NEW", "RENEWING", "CHALLENGE_PRESENT"}
          /\ SetStage(o, Stage(o), "ERROR", "retry-new-order")
    BY <1>4, ListedInFlight DEF FailInterrupted
  <2>2. o = nops /\ nops \in OpIds /\ nops' = nops
    BY <1>0, <1>4, <2>1 DEF FailInterrupted, InFlight, LastOperation, OpIds, Settled
  <2>3. RowMoves({"NEW", "RENEWING", "CHALLENGE_PRESENT"}, "ERROR", ops[nops].cert)
    BY <1>0, <2>1, <2>2, SetStageMoves DEF Stages, Recoveries
  <2> QED BY <1>4, <2>3 DEF StageMoves
<1>5. CASE KeyUnavailable
  <2>1. run.cur = nops /\ nops \in OpIds /\ nops' = nops /\ Stage(nops) = "CERT_ISSUED"
    BY <1>0, <1>5 DEF KeyUnavailable, StageAtStep, OpIds
  <2>2. ops[nops].retry = 0 /\ 0 < MaxOps
    BY <1>0, <2>1 DEF RetriesCounted, OpIds
  <2>3. RowMoves({"CERT_ISSUED"}, "ERROR", ops[nops].cert)
    BY <1>0, <1>5, <2>1, <2>2, SetErrorMoves DEF KeyUnavailable, Recoveries
  <2> QED BY <1>5, <2>3 DEF StageMoves
<1>6. CASE DecideFirstIssue
  <2>1. ops \in [OpIds -> OpRows]
    BY <1>0 DEF TypeOK
  <2>2. \A o \in OpIds : ops'[o].stage = ops[o].stage /\ ops'[o].kind = ops[o].kind
                          /\ ops'[o].cert = ops[o].cert
    <3>1. ops' = ops \/ ops' = [ops EXCEPT ![latest].recovery = "needs-attention"]
      BY <1>6 DEF DecideFirstIssue, NormalizeFirstIssueFailure
    <3> QED BY <2>1, <3>1 DEF OpRows
  <2> QED BY <1>6, <2>2 DEF DecideFirstIssue, StageMoves, SameRows
<1>7. CASE StartIssue
  <2>1. NewRow("issue", "NEW", 0)
    BY <1>0, <1>7, CreateMoves DEF StartIssue
  <2> QED BY <1>7, <2>1 DEF StageMoves
<1>8. CASE StartRenew
  <2>1. NewRow("renew", "RENEWING", managed.cert)
    BY <1>0, <1>8, CreateMoves DEF StartRenew
  <2> QED BY <1>8, <2>1 DEF StageMoves
<1>9. CASE PresentChallenge
  <2>1. run.cur = nops /\ nops \in OpIds /\ nops' = nops /\ Stage(nops) \in {"NEW", "RENEWING"}
    BY <1>0, <1>9 DEF PresentChallenge, StageAtStep, OpIds
  <2>2. RowMoves({"NEW", "RENEWING"}, "CHALLENGE_PRESENT", ops[nops].cert)
    BY <1>0, <1>9, <2>1, SetStageMoves DEF PresentChallenge, Stages, Recoveries
  <2> QED BY <1>9, <2>2 DEF StageMoves
<1>10. CASE OrderFails \/ CertificateInvalid \/ SaveIssued
  <2>1. run.cur = nops /\ nops \in OpIds /\ nops' = nops
        /\ Stage(nops) = "CHALLENGE_PRESENT" /\ run.attempt < nops /\ run.attempt \in Nat
    BY <1>0, <1>10 DEF OrderFails, CertificateInvalid, SaveIssued, StageAtStep,
       OpIds, Runs
  <2>2. CASE OrderFails
    <3>1. PICK r \in Recoveries : SetErrorWithRetry(nops, run.attempt, r)
      BY <2>1, <2>2 DEF OrderFails, Recoveries
    <3>2. RowMoves({"CHALLENGE_PRESENT"}, "ERROR", ops[nops].cert)
      BY <1>0, <2>1, <3>1, SetErrorMoves
    <3> QED BY <2>2, <3>2 DEF StageMoves
  <2>3. CASE CertificateInvalid
    <3>1. RowMoves({"CHALLENGE_PRESENT"}, "ERROR", ops[nops].cert)
      BY <1>0, <2>1, <2>3, SetStageMoves DEF CertificateInvalid, Stages, Recoveries
    <3> QED BY <2>3, <3>1 DEF StageMoves
  <2>4. CASE SaveIssued
    <3> DEFINE row == [ops[nops] EXCEPT !.stage = "CERT_ISSUED", !.exp = now + Life,
                                        !.recovery = "none"]
    <3>1. ops \in [OpIds -> OpRows] /\ ops[nops] \in OpRows /\ now \in Nat
          /\ now + Life \in Nat
      BY <1>0, <2>1 DEF TypeOK, PolicyAssumption
    <3>2. /\ row \in OpRows /\ row.kind = ops[nops].kind
          /\ row.stage = "CERT_ISSUED" /\ row.cert = ops[nops].cert
      BY <3>1 DEF OpRows, Stages, Recoveries
    <3>3. UpdateExpected(nops, "CHALLENGE_PRESENT", row)
      BY <2>1, <2>4 DEF SaveIssued
    <3> HIDE DEF row
    <3>4. RowMoves({"CHALLENGE_PRESENT"}, "CERT_ISSUED", ops[nops].cert)
      BY <2>1, <3>1, <3>2, <3>3, UpdateExpectedRow DEF RowMoves
    <3> QED BY <2>4, <3>4 DEF StageMoves
  <2> QED BY <1>10, <2>2, <2>3, <2>4
<1>11. CASE FindByMarker
  <2>1. run.cur = nops /\ nops \in OpIds /\ nops' = nops /\ Stage(nops) = "CERT_ISSUED"
    BY <1>0, <1>11 DEF FindByMarker, StageAtStep, IssuePCs, OpIds
  <2>2. CASE UNCHANGED ops
    BY <2>1, <2>2 DEF StageMoves, SameRows
  <2>3. ASSUME NEW c \in Marked(nops), SetCertCreated(nops, "CERT_ISSUED", c),
               \E d \in Marked(nops) : Marked(nops) = {d} /\ edge[d].fp = nops
        PROVE  StageMoves
    <3>1. c \in 0..MaxCerts /\ Marked(nops) = {c} /\ edge[c].fp = nops
      BY <1>0, <2>3 DEF Marked
    <3>2. RowMoves({"CERT_ISSUED"}, "CERT_CREATED", c)
      BY <1>0, <2>1, <2>3, <3>1, SetCertCreatedMoves
    <3> QED BY <1>11, <3>1, <3>2 DEF StageMoves
  <2> QED BY <1>11, <2>1, <2>2, <2>3 DEF FindByMarker
<1>12. CASE RecordCreated
  <2>1. /\ run.cur = nops /\ nops \in OpIds /\ nops' = nops
        /\ Stage(nops) = "CERT_ISSUED" /\ run.got \in 0..MaxCerts
    BY <1>0, <1>12 DEF RecordCreated, StageAtStep, IssuePCs, OpIds, Runs
  <2>2. RowMoves({"CERT_ISSUED"}, "CERT_CREATED", run.got)
    BY <1>0, <1>12, <2>1, SetCertCreatedMoves DEF RecordCreated
  <2> QED BY <1>12, <2>2 DEF StageMoves
<1>13. CASE CompareLive
  <2>1. /\ run.cur = nops /\ nops \in OpIds /\ nops' = nops
        /\ Stage(nops) = "CERT_ISSUED" /\ ops[nops].cert \in 0..MaxCerts
    BY <1>0, <1>13 DEF CompareLive, StageAtStep, RenewPCs, OpIds, TypeOK, OpRows
  <2>2. CASE UNCHANGED ops
    BY <2>1, <2>2 DEF StageMoves, SameRows
  <2>3. CASE /\ Serves(nops) /\ Content(ops[nops].cert) = nops /\ UNCHANGED snaps
             /\ SetCertCreated(nops, "CERT_ISSUED", ops[nops].cert)
    <3>1. RowMoves({"CERT_ISSUED"}, "CERT_CREATED", ops[nops].cert)
      BY <1>0, <2>1, <2>3, SetCertCreatedMoves
    <3> QED BY <1>13, <2>3, <3>1 DEF StageMoves
  <2> QED BY <1>13, <2>1, <2>2, <2>3 DEF CompareLive
<1>14. CASE RecordUpdated
  <2>1. /\ run.cur = nops /\ nops \in OpIds /\ nops' = nops
        /\ Stage(nops) = "CERT_ISSUED" /\ ops[nops].cert \in 0..MaxCerts
    BY <1>0, <1>14 DEF RecordUpdated, StageAtStep, RenewPCs, OpIds, TypeOK, OpRows
  <2>2. RowMoves({"CERT_ISSUED"}, "CERT_CREATED", ops[nops].cert)
    BY <1>0, <1>14, <2>1, SetCertCreatedMoves DEF RecordUpdated
  <2> QED BY <1>14, <2>2 DEF StageMoves
<1>15. CASE SetPolicyBound
  <2>1. run.cur = nops /\ nops \in OpIds /\ nops' = nops /\ Stage(nops) = "CERT_CREATED"
    BY <1>0, <1>15 DEF SetPolicyBound, StageAtStep, OpIds
  <2>2. RowMoves({"CERT_CREATED"}, "POLICY_BOUND", ops[nops].cert)
    BY <1>0, <1>15, <2>1, SetStageMoves DEF SetPolicyBound, Stages, Recoveries
  <2> QED BY <1>15, <2>2 DEF StageMoves
<1>16. CASE SetActive
  <2>1. run.cur = nops /\ nops \in OpIds /\ nops' = nops /\ Stage(nops) = "POLICY_BOUND"
    BY <1>0, <1>16 DEF SetActive, StageAtStep, OpIds
  <2>2. RowMoves({"POLICY_BOUND"}, "ACTIVE", ops[nops].cert)
    BY <1>0, <1>16, <2>1, SetStageMoves DEF SetActive, Stages, Recoveries
  <2> QED BY <1>16, <2>2 DEF StageMoves
<1>17. CASE RecordOperationFailure
  <2>1. run.cur = nops /\ nops \in OpIds /\ nops' = nops /\ Stage(nops) \in Stages
    BY <1>0, <1>17 DEF RecordOperationFailure, StageAtStep, OpIds, TypeOK, OpRows, Stage
  <2>2. PICK r \in Recoveries : SetStage(nops, Stage(nops), Stage(nops), r)
    BY <1>17, <2>1 DEF RecordOperationFailure, Recoveries
  <2>3. RowMoves({Stage(nops)}, Stage(nops), ops[nops].cert)
    BY <1>0, <2>1, <2>2, SetStageMoves
  <2> QED BY <2>1, <2>3 DEF StageMoves, SameRows, RowMoves, Stage
<1> QED BY <1>1, <1>2, <1>3, <1>4, <1>5, <1>6, <1>7, <1>8, <1>9, <1>10, <1>11,
           <1>12, <1>13, <1>14, <1>15, <1>16, <1>17, Frames DEF OpsWriters

-----------------------------------------------------------------------------
\* What is served was served before, and stays so.
LEMMA ServesSeen ==
  ASSUME Served, NEW f, Serves(f)
  PROVE  f \in seen
<1>1. f # 0 /\ node = f
  BY DEF Serves, Valid, OpIds
<1> QED BY <1>1 DEF Served

\* Verified certificates were served by the node.
LEMMA ServedKeeps ==
  ASSUME IInv, Served, BoundsAssumption, PolicyAssumption, [Next]_vars
  PROVE  Served'
<1> USE DEF Here, At
<1>0. /\ SnapshotsOfLast /\ StageAtStep /\ nops \in Nat /\ run \in Runs /\ TypeOK
  BY Types
<1>1. seen \subseteq seen' /\ node' \in seen' \cup {0}
  BY Frames DEF Served, Propagate
<1>2. StageMoves /\ Arrival
  BY <1>0, Moves, Arrivals
<1>3. ASSUME run'.pc \in {"rollback_read", "updated", "bind"}
      PROVE  nops' \in seen'
  <2>1. CASE RollbackVerifyNew /\ run'.pc = "rollback_read"
    <3>1. PICK s \in snaps : \/ Serves(s.new)
                             \/ run' = [run EXCEPT !.pc = "restore", !.cur = s.op]
      BY <2>1 DEF RollbackVerifyNew
    <3>2. Serves(s.new)
      BY <1>0, <2>1, <3>1 DEF Runs
    <3>3. nops' = nops /\ s.new = nops
      BY <1>0, <2>1, <3>1 DEF RollbackVerifyNew, SnapshotsOfLast, db
    <3> QED BY <1>1, <3>2, <3>3, ServesSeen
  <2>2. CASE ReadBack /\ run'.pc = "updated"
    <3>1. run.cur = nops /\ nops' = nops
      BY <1>0, <2>2 DEF ReadBack, StageAtStep, RenewPCs, db
    <3>2. Serves(nops) \/ Goto("restore")
      BY <2>2, <3>1 DEF ReadBack
    <3>3. Serves(nops)
      BY <1>0, <2>2, <3>2, GotoFields DEF PCs
    <3> QED BY <1>1, <3>1, <3>3, ServesSeen
  <2>3. CASE VerifyBinding /\ run'.pc = "bind"
    <3>1. run.cur = nops /\ nops' = nops /\ nops \in OpIds /\ Stage(nops) = "CERT_CREATED"
      BY <1>0, <2>3 DEF VerifyBinding, StageAtStep, db, OpIds, TypeOK
    <3>2. ops[nops].kind = "renew" \/ Serves(nops) \/ Fail("step") \/ Fail("unbound")
      BY <2>3, <3>1 DEF VerifyBinding
    <3>3. ~Fail("step") /\ ~Fail("unbound")
      BY <1>0, <2>3, FailFields
    <3>4. CASE ops[nops].kind = "renew"
      BY <1>1, <3>1, <3>4 DEF Served, ActivatedWasServed
    <3>5. CASE Serves(nops)
      BY <1>1, <3>1, <3>5, ServesSeen
    <3> QED BY <3>2, <3>3, <3>4, <3>5
  <2>4. CASE UNCHANGED run
    <3>1. run.pc \in {"rollback_read", "updated", "bind"} /\ nops \in seen
      BY <1>3, <2>4 DEF Served
    <3>2. nops' = nops
      BY <1>2, <3>1 DEF StageMoves, SameRows, RowMoves, StartIssue, StartRenew
    <3> QED BY <1>1, <3>1, <3>2
  <2> QED BY <1>2, <1>3, <2>1, <2>2, <2>3, <2>4 DEF Arrival
<1>4. ASSUME NEW o \in OpIds,
             \/ Stage(o)' \in {"POLICY_BOUND", "ACTIVE"}
             \/ Stage(o)' = "CERT_CREATED" /\ ops'[o].kind = "renew"
      PROVE  o \in seen'
  <2>1. CASE \/ Stage(o) \in {"POLICY_BOUND", "ACTIVE"}
             \/ Stage(o) = "CERT_CREATED" /\ ops[o].kind = "renew"
    BY <1>1, <2>1 DEF Served, ActivatedWasServed
  <2>2. CASE o = nops /\ ops'[o].kind = "renew" /\ (RecordCreated \/ FindByMarker)
    BY <1>0, <1>2, <2>2 DEF RecordCreated, FindByMarker, StageAtStep, IssuePCs,
       StageMoves, SameRows, RowMoves, StartIssue, StartRenew
  <2>3. CASE o = nops /\ (RollbackReadBack \/ RecordUpdated \/ SetPolicyBound)
    BY <1>1, <2>3 DEF Served, RollbackReadBack, RecordUpdated, SetPolicyBound
  <2>4. CASE o = nops /\ Serves(nops)
    BY <1>1, <2>4, ServesSeen
  <2> QED BY <1>2, <1>4, <2>1, <2>2, <2>3, <2>4
          DEF StageMoves, SameRows, NewRow, RowMoves, Stage
<1> QED BY <1>1, <1>3, <1>4 DEF Served, ActivatedWasServed

\* While a certificate is managed, what is in flight is a renewal of it.
LEMMA RenewalInFlight ==
  ASSUME IInv, BoundsAssumption, managed # NoManaged, nops \in OpIds,
         Stage(nops) \notin Settled
  PROVE  /\ ops[nops].kind = "renew" /\ ops[nops].cert = managed.cert
         /\ Stage(nops) \notin {"NONE", "NEW"}
<1>0. TypeOK /\ LastOperation /\ CertificatesKnown /\ nops \in Nat
  BY Types
<1>1. ops[nops].kind = "renew"
  BY <1>0 DEF LastOperation, CertificatesKnown, TypeOK, OpRows, Kinds
<1> QED BY <1>0, <1>1 DEF CertificatesKnown, LastOperation

\* Once a certificate is managed, the row keeps its object and its policy.
LEMMA ManagedKept ==
  ASSUME IInv, BoundsAssumption, [Next]_vars, managed # NoManaged
  PROVE  /\ managed' # NoManaged
         /\ managed'.cert = managed.cert /\ managed'.policy = managed.policy
<1>0. TypeOK /\ StageAtStep /\ CertificatesKnown /\ nops \in Nat /\ nops \in 0..MaxOps
      /\ managed \in ManagedRows
  BY Types DEF TypeOK
<1>1. CASE RestoreRecordManaged \/ OrderFailureRecorded
  BY <1>0, <1>1 DEF RestoreRecordManaged, OrderFailureRecorded, RecordManagedError,
     ManagedRows, NoManaged
<1>2. CASE SetActive
  <2>1. nops \in OpIds /\ Stage(nops) = "POLICY_BOUND" /\ run.cur = nops
    BY <1>0, <1>2 DEF SetActive, StageAtStep, Here, At, OpIds
  <2>2. ops[nops].cert = managed.cert /\ ops[nops].policy = managed.policy
    BY <1>0, <2>1, RenewalInFlight DEF CertificatesKnown, Settled
  <2> QED BY <1>2, <2>1, <2>2 DEF SetActive, NoManaged
<1> QED BY <1>1, <1>2, Frames

\* Every certificate object is known by its marker.
LEMMA MarkersKeep ==
  ASSUME IInv, MarkersKnown, BoundsAssumption, PolicyAssumption, [Next]_vars
  PROVE  MarkersKnown'
<1> USE DEF Here, At
<1>0. /\ TypeOK /\ SnapshotsOfLast /\ StageAtStep /\ LastOperation /\ CertificatesKnown
      /\ nops \in 0..MaxOps /\ nops \in Nat /\ run \in Runs
      /\ edge \in [CertIds -> EdgeRows] /\ ncerts \in 0..MaxCerts /\ MaxCerts \in Nat
      /\ MaxOps \in Nat
  BY Types
<1>1. StageMoves /\ Arrival
  BY <1>0, Moves, Arrivals
\* A stage that is left behind is not one an object's operation can be at.
<1>2. ASSUME NEW o \in OpIds, ops[o].kind = "issue",
             Stage(o) \notin {"NONE", "NEW", "CHALLENGE_PRESENT", "ERROR"},
             Marked(o) # {} 
      PROVE  /\ ops'[o].kind = "issue"
             /\ Stage(o)' \notin {"NEW", "CHALLENGE_PRESENT", "ERROR"}
  <2>1. CASE KeyUnavailable
    <3>1. Marked(nops) = {} /\ o # nops
      BY <1>2, <2>1 DEF KeyUnavailable, MarkersKnown
    <3> QED BY <1>0, <1>1, <1>2, <3>1 DEF StageMoves, SameRows, RowMoves, NewRow,
            Stage, LastOperation, CertificatesKnown, OpIds
  <2>2. CASE RestoreRecordOperation
    <3>1. ops[nops].kind = "renew"
      BY <1>0, <2>2 DEF RestoreRecordOperation, StageAtStep, RestorePCs
    <3> QED BY <1>0, <1>1, <1>2, <3>1 DEF StageMoves, SameRows, RowMoves, NewRow,
            Stage, LastOperation, CertificatesKnown, OpIds
  <2> QED BY <1>0, <1>1, <1>2, <2>1, <2>2
          DEF StageMoves, SameRows, RowMoves, NewRow, Stage, LastOperation,
              CertificatesKnown, OpIds
<1>3. nops' \in {nops, nops + 1}
  BY <1>1 DEF StageMoves, SameRows, RowMoves, NewRow
<1>4. managed # NoManaged => managed' # NoManaged /\ managed'.cert = managed.cert
  BY ManagedKept
<1>5. CASE UNCHANGED <<edge, ncerts>>
  <2>1. nops' = nops => Marked(nops)' = Marked(nops)
    BY <1>5 DEF Marked
  <2>2. ASSUME NEW c \in 1..ncerts
        PROVE  /\ edge[c].mark \in 1..nops'
               /\ ops'[edge[c].mark].kind = "issue"
               /\ Stage(edge[c].mark)' \notin {"NEW", "CHALLENGE_PRESENT", "ERROR"}
    <3>1. c \in Marked(edge[c].mark) /\ edge[c].mark \in 1..nops /\ edge[c].mark \in OpIds
      BY <1>0 DEF Marked, MarkersKnown, OpIds
    <3>2. Stage(edge[c].mark) # "NONE"
      BY <1>0, <3>1 DEF LastOperation
    <3>3. /\ ops[edge[c].mark].kind = "issue"
          /\ Stage(edge[c].mark) \notin {"NONE", "NEW", "CHALLENGE_PRESENT", "ERROR"}
      BY <3>2 DEF MarkersKnown
    <3>4. /\ ops'[edge[c].mark].kind = "issue"
          /\ ops'[edge[c].mark].stage \notin {"NEW", "CHALLENGE_PRESENT", "ERROR"}
      BY <1>2, <3>1, <3>3 DEF Stage
    <3> QED BY <1>0, <1>3, <1>5, <3>1, <3>4 DEF Stage
  <2>3. ASSUME \/ run'.pc \in {"create", "reissue"}
               \/ run'.pc = "record" /\ run'.cause = "reissue"
        PROVE  Marked(nops)' = {}
    <3>1. CASE UNCHANGED run
      <4>1. Marked(nops) = {} /\ nops' = nops
        BY <1>1, <2>3, <3>1
           DEF MarkersKnown, StageMoves, SameRows, RowMoves, StartIssue, StartRenew
      <4> QED BY <2>1, <4>1
    <3>2. CASE RecordOperationFailure /\ run'.pc = "reissue"
      <4>1. Goto("reissue") \/ Exit
        BY <3>2 DEF RecordOperationFailure
      <4>2. run.pc = "record" /\ run.cause = "reissue" /\ nops' = nops
        BY <3>2, ExitFields DEF RecordOperationFailure
      <4> QED BY <2>1, <4>2 DEF MarkersKnown
    <3>3. CASE FindByMarker
      <4>1. run.cur = nops /\ nops' = nops
        BY <1>0, <3>3 DEF FindByMarker, StageAtStep, IssuePCs
      <4>2. CASE Marked(nops) = {}
        BY <2>1, <4>1, <4>2
      <4>3. CASE Goto("binding") \/ Fail("step")
        BY <1>0, <2>3, <4>3, GotoFields, FailFields DEF PCs
      <4> QED BY <3>3, <4>1, <4>2, <4>3 DEF FindByMarker
    <3>4. CASE CompareLive
      <4>1. ops[nops].kind = "renew" /\ nops' = nops
        BY <1>0, <3>4 DEF CompareLive, StageAtStep, RenewPCs
      <4>2. Marked(nops) = {}
        BY <4>1 DEF Marked, MarkersKnown
      <4> QED BY <2>1, <4>1, <4>2
    <3> QED BY <1>1, <2>3, <3>1, <3>2, <3>3, <3>4 DEF Arrival
  <2>4. ASSUME run'.pc = "created"
        PROVE  edge[run'.got].mark = nops'
    <3>1. CASE UNCHANGED run
      BY <1>1, <2>4, <3>1
         DEF MarkersKnown, StageMoves, SameRows, RowMoves, StartIssue, StartRenew
    <3>2. CASE CreateCertificate
      BY <1>0, <1>5, <2>4, <3>2, FailFields DEF CreateCertificate
    <3> QED BY <1>1, <2>4, <3>1, <3>2 DEF Arrival
  <2> QED BY <1>4, <1>5, <2>2, <2>3, <2>4 DEF MarkersKnown
<1>6. CASE CreateCertificate /\ ~UNCHANGED <<edge, ncerts>>
  <2>1. /\ run.cur = nops /\ nops \in OpIds /\ ops[nops].kind = "issue"
        /\ Stage(nops) = "CERT_ISSUED" /\ Marked(nops) = {}
        /\ UNCHANGED <<ops, nops, managed>>
    BY <1>0, <1>6 DEF CreateCertificate, StageAtStep, IssuePCs, OpIds, MarkersKnown, db
  <2>2. /\ ncerts' = ncerts + 1 /\ ncerts + 1 \in CertIds
        /\ edge' = [edge EXCEPT ![ncerts + 1] = [mark |-> nops, fp |-> nops]]
        /\ run' = [run EXCEPT !.pc = "created", !.got = ncerts + 1] \/ Fail("step")
    BY <1>0, <1>6, <2>1 DEF CreateCertificate, PutCert, edgeVars, CertIds
  <2>3. /\ edge'[ncerts + 1].mark = nops /\ edge'[ncerts + 1].fp = nops
        /\ \A c \in 1..ncerts : c \in CertIds /\ edge'[c] = edge[c] /\ edge[c].mark # nops
    BY <1>0, <2>1, <2>2 DEF CertIds, Marked
  <2>4. \/ run'.pc = "created" /\ run'.got = ncerts + 1
        \/ run'.pc = "record" /\ run'.cause = "step"
    BY <1>0, <2>2, FailFields DEF Runs
  <2> QED BY <1>0, <2>1, <2>2, <2>3, <2>4 DEF MarkersKnown, Stage, OpIds
<1>7. CASE UpdateCertificate \/ RestoreUpdate
  <2>1. /\ managed # NoManaged /\ managed.cert \in 1..ncerts
        /\ UNCHANGED <<ops, nops, managed, ncerts>>
        /\ \A c \in 1..ncerts : edge'[c].mark = edge[c].mark
        /\ \A c \in 1..ncerts : c = managed.cert \/ edge'[c] = edge[c]
        /\ run'.pc \in {"read_back", "restore", "restore_tls"}
    <3>0. 1..ncerts \subseteq CertIds
      BY <1>0 DEF CertIds
    <3>1. CASE UpdateCertificate
      <4>1. /\ run.cur = nops /\ nops \in OpIds /\ managed # NoManaged
            /\ ops[nops].cert = managed.cert /\ managed.cert \in 1..ncerts
        BY <1>0, <3>1 DEF UpdateCertificate, StageAtStep, RenewPCs, OpIds,
           CertificatesKnown
      <4>2. /\ PutCert(managed.cert, edge[managed.cert].mark, nops) \/ UNCHANGED edge
            /\ UNCHANGED <<ops, nops, managed, ncerts>>
            /\ Goto("read_back") \/ Goto("restore")
        BY <3>1, <4>1 DEF UpdateCertificate, db
      <4>3. run'.pc \in {"read_back", "restore"}
        BY <1>0, <4>2, GotoFields DEF PCs
      <4> QED BY <1>0, <3>0, <4>1, <4>2, <4>3 DEF PutCert
    <3>2. CASE RestoreUpdate
      <4>1. PICK s \in SnapshotOf(run.cur) :
              PutCert(s.cert, edge[s.cert].mark, s.old) \/ UNCHANGED edge
        BY <3>2 DEF RestoreUpdate
      <4>2. /\ run.cur = nops /\ nops \in OpIds /\ managed # NoManaged
            /\ s.cert = managed.cert /\ managed.cert \in 1..ncerts
        BY <1>0, <3>2, <4>1 DEF RestoreUpdate, StageAtStep, RestorePCs, OpIds,
           CertificatesKnown, SnapshotOf, SnapshotsOfLast
      <4>3. UNCHANGED <<ops, nops, managed, ncerts>> /\ run'.pc = "restore_tls"
        BY <1>0, <3>2, GotoFields DEF RestoreUpdate, db, PCs
      <4> QED BY <1>0, <3>0, <4>1, <4>2, <4>3 DEF PutCert
    <3> QED BY <1>7, <3>1, <3>2
  <2> QED BY <1>0, <2>1 DEF MarkersKnown, Stage
<1> QED BY <1>5, <1>6, <1>7, Frames

\* A first issue is verified and bound with the content it was created with.
LEMMA FirstKeeps ==
  ASSUME IInv, MarkersKnown, FirstIsIssued, BoundsAssumption, PolicyAssumption,
         [Next]_vars
  PROVE  FirstIsIssued'
<1> USE DEF Here, At
<1>0. /\ TypeOK /\ SnapshotsOfLast /\ StageAtStep /\ LastOperation /\ CertificatesKnown
      /\ nops \in 0..MaxOps /\ nops \in Nat
      /\ ncerts \in 0..MaxCerts /\ MaxCerts \in Nat
  BY Types
<1>1. StageMoves
  BY Moves
<1> SUFFICES ASSUME nops' > 0, ops'[nops'].kind = "issue",
                    Stage(nops)' \in {"CERT_CREATED", "POLICY_BOUND"}
             PROVE  Content(ops[nops].cert)' = nops'
  BY DEF FirstIsIssued
<1>2. nops' = nops /\ nops \in OpIds /\ ops[nops].kind = "issue" /\ managed = NoManaged
  <2>1. nops' = nops /\ ops[nops].kind = "issue" /\ Stage(nops) \notin Settled
    BY <1>0, <1>1 DEF StageMoves, SameRows, NewRow, RowMoves, Stage, OpIds, Settled
  <2> QED BY <1>0, <2>1 DEF OpIds, CertificatesKnown
<1>3. UNCHANGED <<edge, ncerts>>
  <2>1. CASE CreateCertificate
    <3>1. Stage(nops) = "CERT_ISSUED" /\ ops' = ops
      BY <1>0, <2>1 DEF CreateCertificate, StageAtStep, IssuePCs, db
    <3> QED BY <1>2, <3>1 DEF Stage
  <2>2. CASE UpdateCertificate \/ RestoreUpdate
    BY <1>0, <1>2, <2>2
       DEF UpdateCertificate, RestoreUpdate, StageAtStep, RenewPCs, RestorePCs
  <2> QED BY <2>1, <2>2, Frames
<1>4. CASE SameRows \/ RowMoves({"CERT_CREATED"}, "POLICY_BOUND", ops[nops].cert)
  <2>1. ops'[nops].cert = ops[nops].cert /\ Stage(nops) \in {"CERT_CREATED", "POLICY_BOUND"}
    BY <1>2, <1>4 DEF SameRows, RowMoves, Stage
  <2>2. Content(ops[nops].cert) = nops
    BY <1>0, <1>2, <2>1 DEF FirstIsIssued, OpIds
  <2> QED BY <1>2, <1>3, <2>1, <2>2 DEF Content
<1>5. ASSUME NEW c \in 1..ncerts, edge[c].fp = nops, ops'[nops].cert = c
      PROVE  Content(ops[nops].cert)' = nops'
  BY <1>2, <1>3, <1>5 DEF Content
<1>6. CASE \E c \in Marked(nops) : /\ edge[c].fp = nops
                                     /\ RowMoves({"CERT_ISSUED"}, "CERT_CREATED", c)
  BY <1>5, <1>6 DEF Marked, RowMoves
<1>7. CASE RecordCreated /\ RowMoves({"CERT_ISSUED"}, "CERT_CREATED", run.got)
  <2>1. run.got \in 1..ncerts /\ edge[run.got].mark = nops
    BY <1>0, <1>7 DEF RecordCreated, StageAtStep, MarkersKnown
  <2>2. edge[run.got].fp = nops
    BY <1>2, <2>1 DEF MarkersKnown
  <2> QED BY <1>5, <1>7, <2>1, <2>2 DEF RowMoves
<1>8. CASE RollbackReadBack \/ RecordUpdated \/ CompareLive
  BY <1>0, <1>2, <1>8 DEF RollbackReadBack, RecordUpdated, CompareLive, StageAtStep,
     RenewPCs, RestorePCs
<1> QED BY <1>1, <1>2, <1>4, <1>6, <1>7, <1>8 DEF StageMoves, RowMoves, Stage, NewRow

-----------------------------------------------------------------------------
\* There is one last success.
LEMMA LastActiveIs ==
  ASSUME NEW o \in OpIds, IsLast(o)
  PROVE  LastActive = o
<1>1. \A p \in OpIds : IsLast(p) => p = o
  BY DEF IsLast, OpIds
<1> QED BY <1>1 DEF LastActive, IsLast

\* A certificate comes to be managed by the success of a first issue.
LEMMA ManagedBegins ==
  ASSUME IInv, BoundsAssumption, [Next]_vars, managed = NoManaged, managed' # NoManaged
  PROVE  SetActive
<1>0. StageAtStep /\ CertificatesKnown /\ TypeOK /\ nops \in Nat /\ nops \in 0..MaxOps
  BY Types
<1>1. ASSUME RestoreRecordManaged \/ OrderFailureRecorded
      PROVE  FALSE
  BY <1>0, <1>1 DEF RestoreRecordManaged, OrderFailureRecorded, StageAtStep, Here, At,
     RestorePCs, CertificatesKnown, OpIds
<1> QED BY <1>1, Frames

\* An operation that becomes ACTIVE is the last success, and its certificate is
\* what the managed object holds.
LEMMA ActiveKeeps ==
  ASSUME LiveInv, BoundsAssumption, PolicyAssumption, SetActive
  PROVE  /\ managed' # NoManaged /\ UNCHANGED <<edge, ncerts, snaps>> /\ nops' = nops
         /\ LastActive' = nops /\ Content(managed.cert)' = nops
         /\ snaps = {} /\ Stage(nops) = "POLICY_BOUND" /\ nops \in OpIds
         /\ Stage(nops)' = "ACTIVE" /\ LiveAtStage' /\ TrialAtStage'
<1> USE DEF Here, At
<1>0. /\ IInv /\ TypeOK /\ StageAtStep /\ LastOperation /\ CertificatesKnown /\ run \in Runs
      /\ nops \in 0..MaxOps /\ nops \in Nat /\ MaxOps \in Nat /\ FirstIsIssued
      /\ LiveAtStage
  BY Types DEF LiveInv, KnownInv
<1>1. /\ run.cur = nops /\ nops \in OpIds /\ nops' = nops /\ snaps = {}
      /\ Stage(nops) = "POLICY_BOUND" /\ UNCHANGED <<edge, ncerts, snaps>>
  BY <1>0 DEF SetActive, StageAtStep, NoSnapshotPCs, OpIds, edgeVars
<1>2. managed' # NoManaged /\ managed'.cert = ops[nops].cert
  BY <1>1 DEF SetActive, NoManaged
<1>3. Content(managed.cert)' = nops
  <2>1. Content(ops[nops].cert) = nops
    <3>1. CASE ops[nops].kind = "issue"
      BY <1>0, <1>1, <3>1 DEF FirstIsIssued, OpIds
    <3>2. CASE ops[nops].kind = "renew"
      <4>1. managed # NoManaged /\ ops[nops].cert = managed.cert
        BY <1>0, <1>1, <3>2 DEF CertificatesKnown
      <4> QED BY <1>0, <1>1, <4>1 DEF LiveAtStage
    <3> QED BY <1>0, <1>1, <3>1, <3>2 DEF CertificatesKnown, TypeOK, OpRows, Kinds
  <2> QED BY <1>1, <1>2, <2>1 DEF Content
<1>4. IsLast(nops)' /\ Stage(nops)' = "ACTIVE"
  <2>1. RowMoves({"POLICY_BOUND"}, "ACTIVE", ops[nops].cert)
    BY <1>0, <1>1, SetStageMoves DEF SetActive, Stages, Recoveries
  <2>2. \A p \in OpIds : Stage(p)' = "ACTIVE" => p <= nops
    BY <1>0, <2>1 DEF RowMoves, LastOperation, Stage, OpIds
  <2> QED BY <1>1, <2>1, <2>2 DEF IsLast, RowMoves, Stage
<1>5. LastActive' = nops
  <2>1. \A p \in OpIds : IsLast(p)' => p = nops
    BY <1>1, <1>4 DEF IsLast, OpIds
  <2>2. nops \in OpIds /\ IsLast(nops)'
    BY <1>1, <1>4
  <2> QED BY <1>1, <1>4, <2>1, <2>2 DEF LastActive, IsLast
<1>6. run'.pc \in {"recover", "idle"}
  BY <1>0, ExitFields DEF SetActive, Runs
<1>7. LiveAtStage'
  BY <1>0, <1>1, <1>2, <1>3, <1>4, <1>5, <1>6 DEF LiveAtStage
<1>8. TrialAtStage'
  BY <1>1, <1>3, <1>5, <1>6 DEF TrialAtStage, RestoredPCs
<1> QED BY <1>1, <1>2, <1>3, <1>4, <1>5, <1>7, <1>8

\* No other step changes the last success.
LEMMA LastActiveKept ==
  ASSUME LiveInv, BoundsAssumption, PolicyAssumption, [Next]_vars, ~SetActive,
         managed # NoManaged
  PROVE  /\ LastActive' = LastActive /\ LastActive \in OpIds
         /\ IsLast(LastActive) /\ IsLast(LastActive)' /\ nops \in OpIds
         /\ Stage(LastActive) = "ACTIVE" /\ LastActive <= nops
         /\ \E o \in OpIds : IsLast(o)'
<1>0. IInv /\ LastOperation /\ nops \in 0..MaxOps /\ LiveAtStage
  BY Types DEF LiveInv, KnownInv
<1>1. PICK o \in OpIds : IsLast(o)
  BY <1>0 DEF LiveAtStage
<1>2. LastActive = o /\ Stage(o) = "ACTIVE" /\ o <= nops /\ nops \in OpIds
  <2>1. LastActive = o
    BY <1>1, LastActiveIs
  <2>2. Stage(o) = "ACTIVE"
    BY <1>1 DEF IsLast
  <2> QED BY <1>0, <2>1, <2>2 DEF LastOperation, OpIds
<1>3. \A p \in OpIds : ops'[p].stage = "ACTIVE" <=> ops[p].stage = "ACTIVE"
  <2>1. StageMoves
    BY <1>0, Moves
  <2> QED BY <1>0, <2>1 DEF StageMoves, SameRows, NewRow, RowMoves, LastOperation,
          Stage, OpIds
<1>4. \A p \in OpIds : ops'[p].stage = "ACTIVE" => p <= o
  BY <1>1, <1>3 DEF IsLast, Stage
<1>5. IsLast(o)' /\ LastActive' = o
  <2>1. ops'[o].stage = "ACTIVE"
    BY <1>2, <1>3 DEF Stage
  <2>2. \A p \in OpIds : /\ ops'[p].stage = "ACTIVE"
                         /\ \A q \in OpIds : ops'[q].stage = "ACTIVE" => q <= p
                         => p = o
    BY <1>4, <2>1 DEF OpIds
  <2> QED BY <1>4, <2>1, <2>2 DEF LastActive, IsLast, Stage
<1> QED BY <1>1, <1>2, <1>5

-----------------------------------------------------------------------------
\* The old certificate is in place once the process has a new one served.
LEMMA StepsOfLiveKeep ==
  ASSUME LiveInv, BoundsAssumption, PolicyAssumption, [Next]_vars
  PROVE  /\ At("rollback_forget")' => Stage(nops)' # "CERT_ISSUED"
         /\ At("update")' => snaps' # {}
<1> USE DEF At, Here
<1>0. /\ IInv /\ TypeOK /\ StageAtStep /\ SnapshotsOfLast /\ run \in Runs /\ nops \in Nat
      /\ nops \in 0..MaxOps /\ LiveAtStage
  BY Types DEF LiveInv, KnownInv
<1>1. StageMoves /\ Arrival
  BY <1>0, Moves, Arrivals
<1>2. ASSUME run'.pc = "rollback_forget"
      PROVE  Stage(nops)' # "CERT_ISSUED"
  <2>1. CASE RollbackReadBack
    <3>1. run.cur = nops /\ nops \in OpIds /\ nops' = nops
      BY <1>0, <2>1 DEF RollbackReadBack, StageAtStep, RestorePCs, OpIds
    <3>2. \/ Stage(nops) # "CERT_ISSUED" /\ ops' = ops
          \/ SetCertCreated(nops, "CERT_ISSUED", ops[nops].cert)
          \/ Exit
      BY <2>1, <3>1 DEF RollbackReadBack, SnapshotOf
    <3>3. CASE SetCertCreated(nops, "CERT_ISSUED", ops[nops].cert)
      BY <1>0, <3>1, <3>3, SetCertCreatedRow DEF RowWritten, Stage, TypeOK, OpRows
    <3> QED BY <1>2, <3>1, <3>2, <3>3, ExitFields DEF Stage
  <2>2. CASE UNCHANGED run
    <3>1. /\ run.pc = "rollback_forget" /\ Stage(nops) # "CERT_ISSUED"
          /\ nops \in OpIds
      BY <1>0, <1>2, <2>2 DEF LiveAtStage, StageAtStep, RestorePCs, OpIds
    <3> QED BY <1>1, <3>1 DEF StageMoves, SameRows, RowMoves, StartIssue, StartRenew,
            SaveIssued, Stage
  <2> QED BY <1>1, <1>2, <2>1, <2>2 DEF Arrival
<1>3. ASSUME run'.pc = "update"
      PROVE  snaps' # {}
  <2>1. CASE CompareLive
    <3>1. snaps' # {} \/ Fail("step") \/ Fail("reissue") \/ Goto("binding")
      BY <2>1 DEF CompareLive
    <3> QED BY <1>0, <1>3, <3>1, FailFields, GotoFields DEF PCs
  <2>2. CASE UNCHANGED run
    <3>1. run.pc = "update" /\ snaps # {}
      BY <1>0, <1>3, <2>2 DEF LiveAtStage
    <3> QED BY <3>1, Frames DEF RollbackForget, RestoreForget, CompareLive, ForgetSnapshot
  <2> QED BY <1>1, <1>3, <2>1, <2>2 DEF Arrival
<1> QED BY <1>2, <1>3

\* Nothing but a renewal's own update and its restore touches the managed object.
LEMMA LiveKept ==
  ASSUME IInv, BoundsAssumption, [Next]_vars, managed # NoManaged,
         ~RestoreUpdate, ~UpdateCertificate
  PROVE  UNCHANGED <<edge, ncerts>> /\ Content(managed.cert)' = Content(managed.cert)
<1>1. ~CreateCertificate
  <2>1. ASSUME CreateCertificate PROVE FALSE
    <3>1. nops \in OpIds /\ ops[nops].kind = "issue" /\ Stage(nops) = "CERT_ISSUED"
      BY <2>1, Types DEF CreateCertificate, StageAtStep, IssuePCs, Here, At, OpIds
    <3> QED BY <3>1, RenewalInFlight DEF Settled
  <2> QED BY <2>1
<1>2. UNCHANGED <<edge, ncerts>>
  BY <1>1, Frames
<1> QED BY <1>2, ManagedKept DEF Content

\* The update brings the renewal's certificate, under a snapshot.
LEMMA UpdateIs ==
  ASSUME LiveInv, BoundsAssumption, PolicyAssumption, UpdateCertificate
  PROVE  /\ nops \in OpIds /\ run.cur = nops /\ snaps # {} /\ managed # NoManaged
         /\ Stage(nops) = "CERT_ISSUED"
         /\ UNCHANGED <<ops, nops, managed, snaps, ncerts>>
         /\ \/ UNCHANGED edge
            \/ Content(managed.cert)' = nops
         /\ run'.pc \in {"read_back", "restore"}
<1> USE DEF At, Here
<1>0. /\ IInv /\ TypeOK /\ StageAtStep /\ CertificatesKnown /\ nops \in Nat /\ LiveAtStage
      /\ nops \in 0..MaxOps /\ edge \in [CertIds -> EdgeRows]
      /\ ncerts \in 0..MaxCerts /\ MaxCerts \in Nat /\ run \in Runs
  BY Types DEF LiveInv, KnownInv
<1>1. /\ run.cur = nops /\ nops \in OpIds /\ managed # NoManaged /\ snaps # {}
      /\ ops[nops].cert = managed.cert /\ managed.cert \in 1..ncerts
      /\ Stage(nops) = "CERT_ISSUED"
  BY <1>0 DEF UpdateCertificate, StageAtStep, RenewPCs, OpIds, CertificatesKnown, LiveAtStage
<1>2. /\ PutCert(managed.cert, edge[managed.cert].mark, nops) \/ UNCHANGED edge
      /\ UNCHANGED <<ops, nops, managed, snaps, ncerts>>
      /\ Goto("read_back") \/ Goto("restore")
  BY <1>1 DEF UpdateCertificate, db
<1>3. run'.pc \in {"read_back", "restore"}
  BY <1>0, <1>2, GotoFields DEF PCs
<1>4. managed.cert \in CertIds
  BY <1>0, <1>1 DEF CertIds
<1> QED BY <1>0, <1>1, <1>2, <1>3, <1>4 DEF PutCert, Content

\* The restore brings back what the snapshot holds, or nothing.
LEMMA RestoreIs ==
  ASSUME LiveInv, BoundsAssumption, PolicyAssumption, RestoreUpdate
  PROVE  /\ nops \in OpIds /\ run.cur = nops /\ snaps # {} /\ managed # NoManaged
         /\ UNCHANGED <<ops, nops, managed, snaps, ncerts>>
         /\ \/ Content(managed.cert)' = Content(managed.cert) /\ Fault("restore")
            \/ \E s \in snaps : Content(managed.cert)' = s.old
         /\ run'.pc = "restore_tls"
<1> USE DEF At, Here
<1>0. /\ IInv /\ TypeOK /\ StageAtStep /\ CertificatesKnown /\ nops \in Nat
      /\ nops \in 0..MaxOps /\ edge \in [CertIds -> EdgeRows] /\ SnapshotsOfLast
      /\ ncerts \in 0..MaxCerts /\ MaxCerts \in Nat /\ run \in Runs
  BY Types DEF LiveInv, KnownInv
<1>1. PICK s \in SnapshotOf(run.cur) : \/ PutCert(s.cert, edge[s.cert].mark, s.old)
                                       \/ Fault("restore") /\ UNCHANGED edge
  BY DEF RestoreUpdate
<1>2. /\ run.cur = nops /\ nops \in OpIds /\ managed # NoManaged /\ s \in snaps
      /\ s.cert = managed.cert /\ managed.cert \in 1..ncerts
  BY <1>0, <1>1 DEF RestoreUpdate, StageAtStep, RestorePCs, OpIds,
     CertificatesKnown, SnapshotOf, SnapshotsOfLast
<1>3. UNCHANGED <<ops, nops, managed, snaps, ncerts>> /\ run'.pc = "restore_tls"
  BY <1>0, GotoFields DEF RestoreUpdate, db, PCs
<1>4. managed.cert \in CertIds
  BY <1>0, <1>2 DEF CertIds
<1>5. \/ Content(managed.cert)' = Content(managed.cert) /\ Fault("restore")
      \/ Content(managed.cert)' = s.old
  BY <1>0, <1>1, <1>2, <1>3, <1>4 DEF PutCert, Content
<1> QED BY <1>2, <1>3, <1>5

\* Every other step leaves the managed object as it is, and goes on with a new
\* certificate only where the object holds it.
LEMMA OthersKeepLive ==
  ASSUME LiveInv, BoundsAssumption, PolicyAssumption, [Next]_vars,
         managed # NoManaged, ~SetActive, ~RestoreUpdate, ~UpdateCertificate
  PROVE  LiveAtStage'
<1> USE DEF At, Here
<1> DEFINE live == Content(managed.cert)
           L == LastActive
<1>0. /\ IInv /\ TypeOK /\ StageAtStep /\ SnapshotsOfLast /\ CertificatesKnown
      /\ LastOperation /\ run \in Runs /\ nops \in Nat /\ nops \in 0..MaxOps
      /\ nops \in OpIds /\ LiveAtStage
  BY Types, LastActiveKept DEF LiveInv, KnownInv
<1>1. StageMoves /\ Arrival
  BY <1>0, Moves, Arrivals
<1>2. /\ live' = live /\ L' = L /\ L \in OpIds /\ \E o \in OpIds : IsLast(o)'
      /\ managed' # NoManaged /\ managed'.cert = managed.cert
  BY <1>0, LiveKept, LastActiveKept, ManagedKept
<1>3. /\ live \in L..nops
      /\ \A s \in snaps : s.old \in L..nops
      /\ Stage(nops) \in {"CERT_CREATED", "POLICY_BOUND"} /\ snaps = {} => live = nops
      /\ run.pc \in {"updated", "forget", "rollback_forget"} => live = nops
  BY <1>0 DEF LiveAtStage
<1>4. ~StartIssue
  BY DEF StartIssue
<1>5. Stage(nops) \notin Settled => ops[nops].kind = "renew" /\ ops[nops].cert = managed.cert
                                    /\ Stage(nops) # "NEW"
  BY <1>0, RenewalInFlight
<1>6. nops' = nops \/ (StartRenew /\ nops' = nops + 1)
  BY <1>1, <1>4 DEF StageMoves, SameRows, NewRow, RowMoves
\* The snapshots.
<1>7. /\ ForgetSnapshot => live = nops /\ Stage(nops) = "CERT_CREATED"
      /\ RollbackForget => live = nops /\ Stage(nops) # "CERT_ISSUED"
      /\ RestoreForget => Stage(nops) = "ERROR"
  BY <1>0, <1>3 DEF ForgetSnapshot, RollbackForget, RestoreForget, StageAtStep, LiveAtStage
<1>8. /\ ForgetSnapshot \/ RollbackForget \/ RestoreForget =>
           snaps' \subseteq snaps /\ UNCHANGED <<ops, nops>>
      /\ CompareLive =>
           /\ nops' = nops /\ Stage(nops) = "CERT_ISSUED"
           /\ ops[nops].cert = managed.cert
           /\ \A s \in snaps' : s.old = live
  <2>1. CASE CompareLive
    <3>1. /\ run.cur = nops /\ snaps = {} /\ Stage(nops) = "CERT_ISSUED" /\ nops' = nops
          /\ ops[nops].cert = managed.cert
      BY <1>0, <1>5, <2>1 DEF CompareLive, StageAtStep, RenewPCs, NoSnapshotPCs, Settled
    <3>2. \A s \in snaps' : s.old = live
      BY <2>1, <3>1 DEF CompareLive
    <3>3. ~ForgetSnapshot /\ ~RollbackForget /\ ~RestoreForget
      BY <2>1 DEF CompareLive, ForgetSnapshot, RollbackForget, RestoreForget
    <3> HIDE DEF live
    <3> QED BY <3>1, <3>2, <3>3
  <2> QED BY <2>1 DEF ForgetSnapshot, RollbackForget, RestoreForget, db
<1>9. \/ UNCHANGED snaps \/ CompareLive \/ ForgetSnapshot
      \/ RollbackForget \/ RestoreForget
  BY Frames
<1> HIDE DEF live, L
<1>10. live \in L..nops'
  BY <1>0, <1>2, <1>3, <1>6 DEF OpIds
<1>11. \A s \in snaps' : s.old \in L..nops'
  <2>1. \A i \in L..nops : i \in L..nops'
    BY <1>0, <1>2, <1>6 DEF OpIds
  <2> QED BY <1>3, <1>8, <1>9, <1>10, <2>1
<1>12. Stage(nops)' \in {"CERT_CREATED", "POLICY_BOUND"} /\ snaps' = {} => live = nops'
  <2>1. CASE SameRows
    <3>1. nops' = nops /\ Stage(nops)' = Stage(nops)
      BY <1>0, <2>1 DEF SameRows, Stage
    <3> QED BY <1>3, <1>7, <1>8, <1>9, <3>1
  <2>2. (~FindByMarker /\ ~RecordCreated) \/ SameRows
    <3>1. ASSUME FindByMarker \/ RecordCreated
          PROVE  ops[nops].kind = "issue" /\ Stage(nops) \notin Settled
      BY <1>0, <3>1 DEF FindByMarker, RecordCreated, StageAtStep, IssuePCs, Settled
    <3> QED BY <1>5, <3>1
  <2>3. CASE RollbackReadBack
    BY <1>0, <1>3, <2>3 DEF RollbackReadBack, SnapshotOf
  <2>4. CASE RecordUpdated
    BY <1>3, <1>6, <2>4 DEF RecordUpdated
  <2>5. CASE CompareLive /\ Content(ops[nops].cert) = nops
    BY <1>8, <2>5 DEF live
  <2>6. CASE SetPolicyBound /\ RowMoves({"CERT_CREATED"}, "POLICY_BOUND", ops[nops].cert)
    <3>1. snaps = {}
      BY <1>0, <2>6 DEF SetPolicyBound, StageAtStep, NoSnapshotPCs
    <3> QED BY <1>3, <2>6, <3>1 DEF RowMoves
  <2> QED BY <1>0, <1>1, <1>4, <2>1, <2>2, <2>3, <2>4, <2>5, <2>6
          DEF StageMoves, RowMoves, NewRow, Stage
<1>13. run'.pc \in {"updated", "forget", "rollback_forget"} => live = nops'
  <2>1. ASSUME ReadBack, run'.pc = "updated"
        PROVE  live = nops'
    <3>1. run.cur = nops /\ nops' = nops /\ ops[nops].cert = managed.cert
      BY <1>0, <1>5, <2>1 DEF ReadBack, StageAtStep, RenewPCs, db, Settled
    <3>2. Content(managed.cert) = nops \/ Goto("restore")
      BY <2>1, <3>1 DEF ReadBack
    <3> QED BY <1>0, <2>1, <3>1, <3>2, GotoFields DEF PCs, live
  <2>2. ASSUME RollbackReadBack, run'.pc = "rollback_forget"
        PROVE  live = nops'
    <3>1. \E s \in snaps : Content(s.cert) = s.new \/ Exit
      BY <2>2 DEF RollbackReadBack, SnapshotOf
    <3>2. nops' = nops
      BY <2>2 DEF RollbackReadBack
    <3> QED BY <1>0, <2>2, <3>1, <3>2, ExitFields DEF SnapshotsOfLast, live
  <2>3. RecordUpdated => live = nops'
    BY <1>3 DEF RecordUpdated
  <2>4. UNCHANGED run /\ run.pc \in {"updated", "forget", "rollback_forget"} => nops' = nops
    BY <1>6 DEF StartRenew
  <2> QED BY <1>1, <1>3, <2>1, <2>2, <2>3, <2>4 DEF Arrival
<1> QED
  BY <1>2, <1>10, <1>11, <1>12, <1>13, StepsOfLiveKeep DEF LiveAtStage, live, L

\* Whatever fails, the managed object holds nothing older than the last success.
LEMMA LiveKeeps ==
  ASSUME LiveInv, BoundsAssumption, PolicyAssumption, [Next]_vars
  PROVE  LiveAtStage'
<1>0. IInv /\ LiveAtStage
  BY DEF LiveInv, KnownInv
<1>1. CASE SetActive
  BY <1>1, ActiveKeeps
<1>2. CASE managed = NoManaged /\ ~SetActive
  BY <1>0, <1>2, ManagedBegins, StepsOfLiveKeep DEF LiveAtStage
<1>3. CASE managed # NoManaged /\ ~SetActive /\ ~RestoreUpdate /\ ~UpdateCertificate
  BY <1>3, OthersKeepLive
<1>4. CASE managed # NoManaged /\ ~SetActive /\ UpdateCertificate
  <2>1. /\ LastActive' = LastActive /\ \E o \in OpIds : IsLast(o)'
        /\ LastActive \in OpIds /\ LastActive <= nops /\ nops \in OpIds
    BY <1>4, LastActiveKept
  <2>2. /\ nops' = nops /\ managed' = managed /\ snaps' = snaps /\ snaps # {}
        /\ run'.pc \in {"read_back", "restore"}
    BY <1>4, UpdateIs
  <2>3. Content(managed.cert)' \in LastActive..nops
    <3>1. Content(managed.cert) \in LastActive..nops
      BY <1>0, <1>4 DEF LiveAtStage
    <3>2. nops \in LastActive..nops
      BY <2>1 DEF OpIds
    <3> QED BY <1>4, <3>1, <3>2, UpdateIs DEF Content
  <2> QED BY <1>0, <1>4, <2>1, <2>2, <2>3 DEF LiveAtStage, At
<1>5. CASE managed # NoManaged /\ ~SetActive /\ RestoreUpdate
  <2>1. LastActive' = LastActive /\ \E o \in OpIds : IsLast(o)'
    BY <1>5, LastActiveKept
  <2>2. /\ nops' = nops /\ managed' = managed /\ snaps' = snaps /\ snaps # {}
        /\ run'.pc = "restore_tls"
    BY <1>5, RestoreIs
  <2>3. Content(managed.cert)' \in LastActive..nops
    BY <1>0, <1>5, RestoreIs DEF LiveAtStage
  <2> QED BY <1>0, <1>5, <2>1, <2>2, <2>3 DEF LiveAtStage, At
<1> QED BY <1>1, <1>2, <1>3, <1>4, <1>5

\* Every other step leaves the managed object as it is and goes on only where
\* that is what the stage it comes to says.
LEMMA OthersKeepTrial ==
  ASSUME TrialInv, BoundsAssumption, PolicyAssumption, [Next]_vars,
         managed # NoManaged, ~SetActive, ~RestoreUpdate, ~UpdateCertificate
  PROVE  TrialAtStage'
<1> USE DEF At, Here
<1> DEFINE live == Content(managed.cert)
           L == LastActive
<1>0. /\ IInv /\ TypeOK /\ StageAtStep /\ SnapshotsOfLast /\ CertificatesKnown
      /\ LastOperation /\ run \in Runs /\ nops \in Nat /\ nops \in 0..MaxOps
      /\ nops \in OpIds /\ LiveInv /\ LiveAtStage /\ TrialAtStage
  BY Types, LastActiveKept DEF TrialInv, LiveInv, KnownInv
<1>1. StageMoves /\ Arrival
  BY <1>0, Moves, Arrivals
<1>2. /\ live' = live /\ L' = L /\ L \in OpIds /\ \E o \in OpIds : IsLast(o)'
      /\ managed' # NoManaged /\ managed'.cert = managed.cert
  BY <1>0, LiveKept, LastActiveKept, ManagedKept
<1>3. /\ live \in {L, nops}
      /\ \A s \in snaps : s.old = L
      /\ Stage(nops) \in Settled \cup {"RENEWING", "CHALLENGE_PRESENT"} => live = L
      /\ Stage(nops) = "CERT_ISSUED" /\ snaps = {} => live = L
      /\ run.pc \in RestoredPCs => live = L
  BY <1>0 DEF TrialAtStage
<1>4. ~StartIssue
  BY DEF StartIssue
<1>5. Stage(nops) \notin Settled => ops[nops].kind = "renew" /\ ops[nops].cert = managed.cert
                                    /\ Stage(nops) # "NEW"
  BY <1>0, RenewalInFlight
<1>6. /\ nops' = nops \/ (StartRenew /\ live = L /\ nops' = nops + 1)
      /\ StartRenew => live = L
  <2>1. ASSUME StartRenew PROVE live = L
    BY <1>0, <1>3, <2>1 DEF StartRenew, StageAtStep, DecidePCs, OpIds
  <2> QED BY <1>1, <1>4, <2>1 DEF StageMoves, SameRows, NewRow, RowMoves
\* The snapshots.
<1>7. /\ ForgetSnapshot => Stage(nops) = "CERT_CREATED"
      /\ RollbackForget => Stage(nops) # "CERT_ISSUED"
      /\ RestoreForget => Stage(nops) = "ERROR"
  BY <1>0 DEF ForgetSnapshot, RollbackForget, RestoreForget, StageAtStep, LiveAtStage
<1>8. /\ ForgetSnapshot \/ RollbackForget \/ RestoreForget =>
           snaps' \subseteq snaps /\ UNCHANGED <<ops, nops>>
      /\ CompareLive =>
           /\ nops' = nops /\ Stage(nops) = "CERT_ISSUED" /\ live = L /\ snaps = {}
           /\ ops[nops].cert = managed.cert
           /\ \A s \in snaps' : s.old = live
  <2>1. CASE CompareLive
    <3>1. /\ run.cur = nops /\ snaps = {} /\ Stage(nops) = "CERT_ISSUED" /\ nops' = nops
          /\ ops[nops].cert = managed.cert
      BY <1>0, <1>5, <2>1 DEF CompareLive, StageAtStep, RenewPCs, NoSnapshotPCs, Settled
    <3>2. \A s \in snaps' : s.old = live
      BY <2>1, <3>1 DEF CompareLive
    <3> QED BY <1>3, <2>1, <3>1, <3>2 DEF CompareLive, ForgetSnapshot, RollbackForget,
            RestoreForget
  <2> QED BY <2>1 DEF ForgetSnapshot, RollbackForget, RestoreForget, db
<1>9. \/ UNCHANGED snaps \/ CompareLive \/ ForgetSnapshot
      \/ RollbackForget \/ RestoreForget
  BY Frames
<1> HIDE DEF live, L
<1>10. \A s \in snaps' : s.old = L
  BY <1>3, <1>8, <1>9
<1>11. live \in {L, nops'}
  BY <1>3, <1>6
<1>12. Stage(nops)' \in Settled \cup {"RENEWING", "CHALLENGE_PRESENT"} => live = L
  <2>1. RestoreRecordOperation => live = L
    BY <1>3 DEF RestoreRecordOperation, RestoredPCs
  <2>2. KeyUnavailable => live = L
    BY <1>0, <1>3 DEF KeyUnavailable, StageAtStep, NoSnapshotPCs
  <2>3. ASSUME SameRows PROVE nops' = nops /\ Stage(nops)' = Stage(nops)
    BY <1>0, <2>3 DEF SameRows, Stage
  <2>4. ASSUME NEW from, NEW to, NEW c, RowMoves(from, to, c)
        PROVE  nops' = nops /\ Stage(nops)' = to /\ Stage(nops) \in from
    BY <2>4 DEF RowMoves, Stage
  <2>5. ASSUME StageMoves, ~SameRows, ~StartRenew,
               Stage(nops)' \in Settled \cup {"RENEWING", "CHALLENGE_PRESENT"}
        PROVE  live = L
    <3>1. \/ Stage(nops) \in {"NEW", "RENEWING", "CHALLENGE_PRESENT"}
          \/ RestoreRecordOperation \/ KeyUnavailable
      BY <1>4, <2>4, <2>5 DEF StageMoves, Settled
    <3> QED BY <1>3, <1>5, <2>1, <2>2, <3>1 DEF Settled
  <2> QED BY <1>1, <1>3, <1>6, <2>3, <2>5
<1>13. Stage(nops)' = "CERT_ISSUED" /\ snaps' = {} => live = L
  <2>1. CASE StageMoves /\ ~SameRows
    BY <1>0, <1>3, <2>1 DEF StageMoves, RowMoves, NewRow, Stage
  <2>2. CASE SameRows
    <3>1. nops' = nops /\ Stage(nops)' = Stage(nops)
      BY <1>0, <2>2 DEF SameRows, Stage
    <3> QED BY <1>3, <1>7, <1>8, <1>9, <3>1
  <2> QED BY <1>1, <2>1, <2>2
\* The steps.
<1>14. run'.pc \in RestoredPCs => live = L
  BY <1>1, <1>3 DEF Arrival, RestoredPCs, RestoreVerifyOld, RestoreRecordOperation,
     RestoreRecordManaged
<1> QED
  BY <1>2, <1>10, <1>11, <1>12, <1>13, <1>14 DEF TrialAtStage, live, L

\* The managed object keeps holding what the stage of the last operation says.
LEMMA TrialKeeps ==
  ASSUME TrialInv, RestoresSucceed, BoundsAssumption, PolicyAssumption, [Next]_vars
  PROVE  TrialAtStage'
<1>0. IInv /\ LiveInv /\ TrialAtStage
  BY DEF TrialInv, LiveInv, KnownInv
<1>1. CASE SetActive
  BY <1>0, <1>1, ActiveKeeps
<1>2. CASE managed = NoManaged /\ ~SetActive
  BY <1>0, <1>2, ManagedBegins DEF TrialAtStage
<1>3. CASE managed # NoManaged /\ ~SetActive /\ ~RestoreUpdate /\ ~UpdateCertificate
  BY <1>3, OthersKeepTrial
<1>4. CASE managed # NoManaged /\ ~SetActive /\ UpdateCertificate
  <2>1. LastActive' = LastActive /\ \E o \in OpIds : IsLast(o)'
    BY <1>0, <1>4, LastActiveKept
  <2>2. /\ nops' = nops /\ managed' = managed /\ snaps' = snaps /\ snaps # {}
        /\ Stage(nops)' = "CERT_ISSUED" /\ run'.pc \in {"read_back", "restore"}
    BY <1>0, <1>4, UpdateIs DEF Stage
  <2>3. Content(managed.cert)' \in {LastActive, nops}
    <3>1. Content(managed.cert) \in {LastActive, nops}
      BY <1>0, <1>4 DEF TrialAtStage
    <3> QED BY <1>0, <1>4, <3>1, UpdateIs DEF Content
  <2> QED BY <1>0, <1>4, <2>1, <2>2, <2>3 DEF TrialAtStage, RestoredPCs, Settled, At
<1>5. CASE managed # NoManaged /\ ~SetActive /\ RestoreUpdate
  <2>1. LastActive' = LastActive /\ \E o \in OpIds : IsLast(o)'
    BY <1>0, <1>5, LastActiveKept
  <2>2. /\ nops' = nops /\ managed' = managed /\ snaps' = snaps /\ snaps # {}
        /\ Content(managed.cert)' = LastActive /\ run'.pc = "restore_tls"
    BY <1>0, <1>5, RestoreIs DEF TrialAtStage, RestoresSucceed, Fault
  <2> QED BY <1>0, <1>5, <2>1, <2>2 DEF TrialAtStage, At
<1> QED BY <1>1, <1>2, <1>3, <1>4, <1>5

-----------------------------------------------------------------------------
\* Nothing is known and nothing is managed at first.
LEMMA KnownAtFirst ==
  ASSUME Init, BoundsAssumption
  PROVE  TrialInv
<1>1. IInv
  BY InitHolds
<1>2. Served /\ MarkersKnown /\ FirstIsIssued
  BY DEF Init, Served, ActivatedWasServed, MarkersKnown, FirstIsIssued, Stage, NoOp,
     Idle, At, BoundsAssumption
<1>3. LiveAtStage /\ TrialAtStage
  BY DEF Init, LiveAtStage, TrialAtStage, Idle, At
<1> QED BY <1>1, <1>2, <1>3 DEF TrialInv, LiveInv, KnownInv

\* Whatever fails, every certificate object is known by its marker, what has
\* been activated was served, and a first issue is bound with what it issued.
THEOREM KnownInductive == Spec => []KnownInv
<1>1. Init => KnownInv
  BY KnownAtFirst, BoundsAssumption DEF TrialInv, LiveInv
<1>2. KnownInv /\ [Next]_vars => KnownInv'
  BY NextKeeps, ServedKeeps, MarkersKeep, FirstKeeps, BoundsAssumption,
     PolicyAssumption DEF KnownInv
<1> QED BY <1>1, <1>2, PTL DEF Spec

\* An operation only becomes ACTIVE with a certificate the edge node has really
\* served, and a renewal gets no further than CERT_ISSUED before.
THEOREM ActivationVerified == Spec => []ActivatedWasServed
<1>1. KnownInv => ActivatedWasServed
  BY DEF KnownInv, Served
<1> QED BY <1>1, KnownInductive, PTL

\* No certificate object is orphaned or created twice, whatever replies are
\* lost and wherever the process dies.
THEOREM NoneOrphaned == Spec => []NoOrphanCertificate
<1>1. KnownInv => NoOrphanCertificate
  BY DEF KnownInv, MarkersKnown, NoOrphanCertificate
<1> QED BY <1>1, KnownInductive, PTL

\* Whatever fails, a restore that is taken for done included, the managed object
\* holds no certificate older than the last success, the snapshots neither, and
\* an operation that counts as verified for good is what EdgeAPI holds.
THEOREM LiveInductive == Spec => []LiveInv
<1>1. Init => LiveInv
  BY KnownAtFirst, BoundsAssumption DEF TrialInv
<1>2. LiveInv /\ [Next]_vars => LiveInv'
  BY NextKeeps, ServedKeeps, MarkersKeep, FirstKeeps, LiveKeeps, BoundsAssumption,
     PolicyAssumption DEF LiveInv, KnownInv
<1> QED BY <1>1, <1>2, PTL DEF Spec

\* No fault, not even a failing restore, puts the managed certificate back to
\* one older than the last that became ACTIVE.
NeverOlder ==
  managed # NoManaged => Content(managed.cert) >= LastActive

THEOREM LiveIsNeverOlder == Spec => []NeverOlder
<1>1. LiveInv => NeverOlder
  <2> SUFFICES ASSUME LiveInv, managed # NoManaged
               PROVE  Content(managed.cert) >= LastActive
    BY DEF NeverOlder
  <2>1. LiveAtStage /\ IInv /\ nops \in Nat
    BY Types, BoundsAssumption DEF LiveInv, KnownInv
  <2>2. Content(managed.cert) \in LastActive..nops
    BY <2>1 DEF LiveAtStage
  <2>3. PICK a \in OpIds : IsLast(a)
    BY <2>1 DEF LiveAtStage
  <2>4. LastActive = a /\ LastActive \in Nat
    BY <2>3, LastActiveIs DEF IsLast, OpIds
  <2> QED BY <2>1, <2>2, <2>4
<1> QED BY <1>1, LiveInductive, PTL

\* An operation becomes ACTIVE only in a step after which EdgeAPI holds its
\* certificate in the managed object, whatever has failed before.
ActivationIsLive ==
  \A o \in OpIds : Stage(o) # "ACTIVE" /\ Stage(o)' = "ACTIVE" =>
    managed' # NoManaged /\ Content(managed.cert)' = o

THEOREM ActivatedIsLive == Spec => [][ActivationIsLive]_vars
<1>1. LiveInv /\ [Next]_vars => [ActivationIsLive]_vars
  <2> SUFFICES ASSUME LiveInv, [Next]_vars, NEW o \in OpIds,
                      Stage(o) # "ACTIVE", Stage(o)' = "ACTIVE"
               PROVE  managed' # NoManaged /\ Content(managed.cert)' = o
    BY DEF ActivationIsLive
  <2>1. IInv
    BY DEF LiveInv, KnownInv
  <2>2. StageMoves
    BY <2>1, Moves, BoundsAssumption, PolicyAssumption
  <2>3. SetActive
    BY <2>2 DEF StageMoves, SameRows, RowMoves, NewRow, Stage
  <2>4. o = nops
    BY <2>2, <2>3 DEF StageMoves, SameRows, RowMoves, NewRow, Stage
  <2> QED BY <2>3, <2>4, ActiveKeeps, BoundsAssumption, PolicyAssumption
<1> QED BY <1>1, LiveInductive, PTL DEF Spec

\* Unless a restore fails and is taken for done, the managed object holds the
\* last success or the certificate of the last renewal, as its stage says.
THEOREM TrialInductive ==
  ASSUME RestoresSucceed PROVE Spec => []TrialInv
<1>1. Init => TrialInv
  BY KnownAtFirst, BoundsAssumption
<1>2. TrialInv /\ [Next]_vars => TrialInv'
  BY NextKeeps, ServedKeeps, MarkersKeep, FirstKeeps, LiveKeeps, TrialKeeps, RestoresSucceed,
     BoundsAssumption, PolicyAssumption DEF TrialInv, LiveInv, KnownInv
<1> QED BY <1>1, <1>2, PTL DEF Spec

\* A snapshot belongs to a renewal that has not reached ACTIVE, holds the last
\* success, and is the only one.
THEOREM SnapshotsAnchored ==
  ASSUME RestoresSucceed PROVE Spec => []SnapshotAnchored
<1>1. TrialInv => SnapshotAnchored
  <2> SUFFICES ASSUME TrialInv, NEW s \in snaps
               PROVE  /\ ops[s.op].kind = "renew"
                      /\ Stage(s.op) \in {"CERT_ISSUED", "CERT_CREATED", "ERROR"}
                      /\ s.old = LastActive /\ s.new = s.op /\ s.cert = managed.cert
                      /\ \A t \in snaps : t = s
    BY DEF SnapshotAnchored
  <2>1. /\ IInv /\ TrialAtStage /\ SnapshotsOfLast /\ CertificatesKnown
        /\ snaps \subseteq Snapshots
    BY DEF TrialInv, LiveInv, KnownInv, IInv, StepInv, TypeOK
  <2>2. managed # NoManaged
    BY <2>1 DEF SnapshotsOfLast, CertificatesKnown, Snapshots
  <2>3. \A t \in snaps : /\ t.op = nops /\ t.new = nops /\ t.cert = managed.cert
                         /\ t.old = LastActive /\ t \in Snapshots
    BY <2>1, <2>2 DEF SnapshotsOfLast, TrialAtStage
  <2>4. \A t \in snaps : t = s
    BY <2>3 DEF Snapshots
  <2> QED BY <2>1, <2>3, <2>4 DEF SnapshotsOfLast
<1> QED BY <1>1, TrialInductive, PTL

\* What EdgeAPI holds for the managed certificate is the last success, a
\* verified new certificate, or one that a snapshot can undo.
THEOREM LiveAccounted ==
  ASSUME RestoresSucceed PROVE Spec => []LiveCertificateAccounted
<1>1. TrialInv => LiveCertificateAccounted
  <2> SUFFICES ASSUME TrialInv, managed # NoManaged
               PROVE  LET live == Content(managed.cert) IN
                        \/ live = LastActive
                        \/ Stage(live) \in {"CERT_CREATED", "POLICY_BOUND"}
                        \/ \E s \in snaps : s.new = live /\ s.old = LastActive
    BY DEF LiveCertificateAccounted
  <2>0. /\ IInv /\ TrialAtStage /\ LiveAtStage /\ SnapshotsOfLast /\ LastOperation
        /\ nops \in 0..MaxOps /\ TypeOK
    BY Types, BoundsAssumption DEF TrialInv, LiveInv, KnownInv
  <2>1. nops \in OpIds
    BY <2>0 DEF LiveAtStage, IsLast, LastOperation, OpIds, BoundsAssumption
  <2>2. Stage(nops) \in Stages /\ Stage(nops) \notin {"NONE", "NEW"}
    BY <2>0, <2>1, RenewalInFlight, BoundsAssumption
       DEF LastOperation, TypeOK, OpRows, Stage, Settled
  <2>3. CASE snaps = {}
    BY <2>0, <2>2, <2>3 DEF TrialAtStage, LiveAtStage, Stages, Settled
  <2>4. CASE snaps # {}
    BY <2>0, <2>4 DEF TrialAtStage, SnapshotsOfLast
  <2> QED BY <2>3, <2>4
<1> QED BY <1>1, TrialInductive, PTL

\* A renewal that ended in ERROR without a snapshot has left nothing behind:
\* no object holds its certificate.
THEOREM ErrorMeansRestored ==
  ASSUME RestoresSucceed PROVE Spec => []RestoredMeansOld
<1>1. TrialInv => RestoredMeansOld
  <2> SUFFICES ASSUME TrialInv, NEW o \in OpIds, Stage(o) = "ERROR",
                      ops[o].kind = "renew", SnapshotOf(o) = {}, NEW c \in 1..ncerts
               PROVE  Content(c) # o
    BY DEF RestoredMeansOld
  <2>0. /\ IInv /\ TrialAtStage /\ LiveAtStage /\ SnapshotsOfLast /\ CertificatesKnown
        /\ MarkersKnown /\ LastOperation /\ nops \in 0..MaxOps
    BY Types, BoundsAssumption DEF TrialInv, LiveInv, KnownInv
  <2>1. managed # NoManaged
    BY <2>0 DEF CertificatesKnown
  <2>2. CASE c # managed.cert
    BY <2>0, <2>2 DEF MarkersKnown, Content
  <2>3. CASE c = managed.cert
    <3>1. PICK a \in OpIds : IsLast(a)
      BY <2>0, <2>1 DEF LiveAtStage
    <3>2. LastActive = a /\ Stage(a) = "ACTIVE"
      BY <3>1, LastActiveIs DEF IsLast
    <3>3. Content(managed.cert) \in {a, nops}
          /\ (Stage(nops) \in Settled => Content(managed.cert) = a)
      BY <2>0, <2>1, <3>2 DEF TrialAtStage
    <3> QED BY <2>3, <3>2, <3>3 DEF Settled
  <2> QED BY <2>2, <2>3
<1> QED BY <1>1, TrialInductive, PTL

-----------------------------------------------------------------------------
(***************************************************************************)
(* The lifecycle implements module RenewalContract.                        *)
(***************************************************************************)
\* A renewal has begun to replace the managed certificate and is not done.
Tried == snaps # {} \/ Stage(nops) \in {"CERT_CREATED", "POLICY_BOUND"}

\* What the refinement mapping comes to: without a trial the object holds the
\* good certificate, and what is tried is the last operation, not a success.
Mapped ==
  IF managed = NoManaged
  THEN Good = 0 /\ Live = 0 /\ Trial = 0
  ELSE /\ Good = LastActive /\ Live = Content(managed.cert)
       /\ nops \in OpIds /\ Good \in OpIds
       /\ IF Tried THEN Trial = nops /\ nops # Good
                   ELSE Trial = 0 /\ Live = Good

\* The mapping in every state the invariant allows.
LEMMA Mapping == TrialInv => Mapped
<1> SUFFICES ASSUME TrialInv
             PROVE  Mapped
  OBVIOUS
<1>0. /\ IInv /\ TrialAtStage /\ LiveAtStage /\ SnapshotsOfLast /\ LastOperation
      /\ CertificatesKnown /\ nops \in 0..MaxOps /\ nops \in Nat /\ TypeOK
  BY Types, BoundsAssumption DEF TrialInv, LiveInv, KnownInv
<1>1. CASE managed = NoManaged
  <2>1. \A o \in OpIds : ops[o].kind # "renew"
    BY <1>0, <1>1 DEF CertificatesKnown
  <2>2. OnTrial = {}
    BY <1>0, <2>1 DEF OnTrial, SnapshotsOfLast, TypeOK, Snapshots
  <2> QED BY <1>1, <2>2 DEF Mapped, Good, Live, Trial
<1>2. CASE managed # NoManaged
  <2>1. PICK a \in OpIds : IsLast(a)
    BY <1>0, <1>2 DEF LiveAtStage
  <2>2. /\ LastActive = a /\ Stage(a) = "ACTIVE" /\ nops \in OpIds
    <3>1. LastActive = a /\ Stage(a) = "ACTIVE"
      BY <2>1, LastActiveIs DEF IsLast
    <3> QED BY <1>0, <2>1, <3>1 DEF LastOperation, OpIds
  <2>3. Stage(nops) \in Stages \ {"NONE", "NEW"}
    BY <1>0, <1>2, <2>2, RenewalInFlight, BoundsAssumption
       DEF LastOperation, TypeOK, OpRows, Stage, Settled
  <2>4. CASE Tried
    <3>1. nops \in OnTrial
      <4>1. CASE snaps # {}
        BY <1>0, <4>1 DEF OnTrial, SnapshotsOfLast
      <4>2. CASE Stage(nops) \in {"CERT_CREATED", "POLICY_BOUND"}
        BY <1>0, <1>2, <2>2, <4>2, RenewalInFlight, BoundsAssumption DEF OnTrial, Settled
      <4> QED BY <2>4, <4>1, <4>2 DEF Tried
    <3>2. \A o \in OnTrial : o = nops
      BY <1>0 DEF OnTrial, SnapshotsOfLast, LastOperation, Settled, OpIds
    <3>3. nops # a
      BY <1>0, <2>2, <2>4 DEF Tried, SnapshotsOfLast
    <3>4. Trial = nops
      BY <3>1, <3>2 DEF Trial
    <3> QED BY <1>2, <2>1, <2>2, <2>4, <3>3, <3>4 DEF Mapped, Good, Live
  <2>5. CASE ~Tried
    <3>1. OnTrial = {}
      BY <1>0, <2>5 DEF OnTrial, Tried, LastOperation, Settled, OpIds
    <3>2. Content(managed.cert) = a
      BY <1>0, <1>2, <2>2, <2>3, <2>5 DEF TrialAtStage, LiveAtStage, Tried, Stages, Settled
    <3> QED BY <1>2, <2>1, <2>2, <2>5, <3>1, <3>2 DEF Mapped, Good, Live, Trial
  <2> QED BY <2>4, <2>5
<1> QED BY <1>1, <1>2

\* The same in the next state.
LEMMA MappingNext == TrialInv' => Mapped'
BY Mapping, PTL

\* Every step is a step of the contract, or changes nothing of it.
LEMMA StepRefines ==
  ASSUME TrialInv, TrialInv', RestoresSucceed, BoundsAssumption, PolicyAssumption,
         [Next]_vars
  PROVE  [Contract!Next]_(Contract!contractVars)
<1>0. /\ Mapped /\ Mapped' /\ IInv /\ LiveInv /\ LiveAtStage /\ TrialAtStage
      /\ StageAtStep /\ nops \in 0..MaxOps /\ nops \in Nat
  BY Mapping, MappingNext, Types DEF TrialInv, LiveInv, KnownInv
<1>1. StageMoves
  BY <1>0, Moves
<1>2. CASE SetActive
  <2>1. /\ managed' # NoManaged /\ nops' = nops /\ snaps' = {} /\ nops \in OpIds
        /\ LastActive' = nops /\ Content(managed.cert)' = nops
        /\ snaps = {} /\ Stage(nops) = "POLICY_BOUND" /\ Stage(nops)' = "ACTIVE"
    BY <1>0, <1>2, ActiveKeeps
  <2>2. Good' = nops /\ Live' = nops /\ Trial' = 0
    BY <1>0, <2>1 DEF Mapped, Tried
  <2>3. CASE managed = NoManaged
    <3>1. Contract!Adopt(nops)
      BY <1>0, <2>2, <2>3 DEF Mapped, Contract!Adopt
    <3> QED BY <2>1, <3>1 DEF Contract!Next
  <2>4. CASE managed # NoManaged
    <3>1. Trial = nops /\ Live = nops
      BY <1>0, <2>1, <2>4 DEF Mapped, Tried, LiveAtStage
    <3>2. nops # 0
      BY <2>1 DEF OpIds
    <3>3. Contract!Accept
      BY <2>2, <3>1, <3>2 DEF Contract!Accept
    <3> QED BY <3>3 DEF Contract!Next
  <2> QED BY <2>3, <2>4
<1>3. CASE ~SetActive /\ managed = NoManaged
  <2>1. managed' = NoManaged
    BY <1>0, <1>3, ManagedBegins
  <2> QED BY <1>0, <1>3, <2>1 DEF Mapped, Contract!contractVars
<1>4. CASE ~SetActive /\ managed # NoManaged
  <2>1. /\ LastActive' = LastActive /\ managed' # NoManaged
        /\ managed'.cert = managed.cert /\ Good' = Good
        /\ nops \in OpIds /\ Good # 0 /\ nops # 0 /\ nops' # 0 /\ nops' \in OpIds
    BY <1>0, <1>4, LastActiveKept, ManagedKept DEF Mapped, OpIds
  <2>2. CASE UpdateCertificate
    <3>1. /\ Trial = nops /\ Trial' = nops
          /\ Live' = nops \/ Live' = Live
      <4>1. /\ snaps # {} /\ snaps' # {} /\ nops' = nops /\ managed' = managed
            /\ Content(managed.cert)' \in {Content(managed.cert), nops}
        BY <1>0, <2>2, UpdateIs DEF Content
      <4> QED BY <1>0, <1>4, <4>1 DEF Mapped, Tried
    <3>2. Contract!Deploy \/ UNCHANGED Contract!contractVars
      BY <2>1, <3>1 DEF Contract!Deploy, Contract!contractVars
    <3> QED BY <3>2 DEF Contract!Next
  <2>3. CASE RestoreUpdate
    <3>1. Trial = nops /\ Trial' = nops /\ Live' = Good
      <4>1. /\ snaps # {} /\ snaps' # {} /\ nops' = nops /\ managed' = managed
            /\ Content(managed.cert)' = LastActive
        BY <1>0, <1>4, <2>3, RestoreIs DEF TrialAtStage, RestoresSucceed, Fault
      <4> QED BY <1>0, <1>4, <4>1 DEF Mapped, Tried
    <3>2. Contract!TakeBack
      BY <2>1, <3>1 DEF Contract!TakeBack
    <3> QED BY <3>2 DEF Contract!Next
  <2>4. CASE ~UpdateCertificate /\ ~RestoreUpdate
    <3>1. Live' = Live
      BY <1>0, <1>4, <2>1, <2>4, LiveKept DEF Mapped
    <3>2. ASSUME Tried PROVE nops' = nops
      <4>1. ASSUME StartIssue \/ StartRenew PROVE FALSE
        BY <1>0, <2>1, <3>2, <4>1 DEF StartIssue, StartRenew, StageAtStep, NoSnapshotPCs,
           DecidePCs, At, OpIds, Tried, Settled
      <4> QED BY <1>1, <4>1 DEF StageMoves, SameRows, RowMoves
    <3>3. CASE Trial' = Trial
      BY <2>1, <3>1, <3>3 DEF Contract!contractVars
    <3>4. CASE ~Tried /\ Tried'
      <4>1. Trial = 0 /\ Trial' = nops' /\ nops' # Good
        BY <1>0, <1>4, <2>1, <3>4 DEF Mapped
      <4>2. Contract!BeginTrial(nops')
        BY <2>1, <3>1, <4>1 DEF Contract!BeginTrial
      <4> QED BY <2>1, <4>2 DEF Contract!Next
    <3>5. CASE Tried /\ ~Tried'
      <4>1. Trial = nops /\ Trial' = 0 /\ Live' = Good'
        BY <1>0, <1>4, <2>1, <3>5 DEF Mapped
      <4>2. Contract!GiveUp
        BY <2>1, <3>1, <4>1 DEF Contract!GiveUp
      <4> QED BY <4>2 DEF Contract!Next
    <3> QED BY <1>0, <1>4, <2>1, <3>2, <3>3, <3>4, <3>5 DEF Mapped
  <2> QED BY <2>2, <2>3, <2>4
<1> QED BY <1>2, <1>3, <1>4

\* Every behaviour of the runner is one of a certificate object that is tried
\* and then accepted or taken back, crashes and lost replies included.
THEOREM Implements ==
  ASSUME RestoresSucceed PROVE Spec => ImplementsContract
<1>1. Init => Contract!Init
  <2>1. Init => Mapped /\ managed = NoManaged
    BY KnownAtFirst, Mapping, BoundsAssumption DEF Init
  <2> QED BY <2>1 DEF Mapped, Contract!Init
<1>2. TrialInv /\ TrialInv' /\ [Next]_vars => [Contract!Next]_(Contract!contractVars)
  BY StepRefines, RestoresSucceed, BoundsAssumption, PolicyAssumption
<1> QED BY <1>1, <1>2, TrialInductive, PTL DEF Spec, ImplementsContract, Contract!Spec

-----------------------------------------------------------------------------
(***************************************************************************)
(* When orders are placed and what they are for                            *)
(***************************************************************************)

\* Once a certificate is managed, no other object is created for it, and its
\* row keeps the object and the policy: the action property on every step.
THEOREM CertificateStable == Spec => StableCertificate
<1>1. IInv /\ [Next]_vars =>
        [managed # NoManaged =>
           /\ ncerts' = ncerts
           /\ managed'.cert = managed.cert /\ managed'.policy = managed.policy]_vars
  <2> SUFFICES ASSUME IInv, [Next]_vars, managed # NoManaged
               PROVE  /\ ncerts' = ncerts
                      /\ managed'.cert = managed.cert
                      /\ managed'.policy = managed.policy
    OBVIOUS
  <2>1. CASE RestoreUpdate \/ UpdateCertificate
    BY <2>1, ManagedKept, BoundsAssumption DEF RestoreUpdate, UpdateCertificate
  <2>2. CASE ~RestoreUpdate /\ ~UpdateCertificate
    BY <2>2, LiveKept, ManagedKept, BoundsAssumption
  <2> QED BY <2>1, <2>2
<1> QED BY <1>1, Inductive, PTL DEF Spec, StableCertificate

-----------------------------------------------------------------------------
\* While nothing is managed, every operation is a first issue.
LEMMA FirstIssuesOnly ==
  ASSUME IInv, BoundsAssumption, managed = NoManaged
  PROVE  /\ \A o \in 1..nops : o \in OpIds /\ ops[o].kind = "issue"
         /\ nops = 0 => \A o \in OpIds : ops[o].kind # "issue"
<1>0. TypeOK /\ LastOperation /\ CertificatesKnown /\ nops \in 0..MaxOps /\ nops \in Nat
  BY Types
<1>1. ASSUME NEW o \in 1..nops
      PROVE  o \in OpIds /\ ops[o].kind = "issue"
  <2>1. o \in OpIds /\ ops[o].kind \in {"none", "issue", "renew"} /\ Stage(o) # "NONE"
    BY <1>0 DEF TypeOK, OpRows, Kinds, OpIds, LastOperation, BoundsAssumption
  <2> QED BY <1>0, <2>1 DEF CertificatesKnown
<1>2. nops = 0 => \A o \in OpIds : ops[o].kind # "issue"
  BY <1>0 DEF LastOperation, CertificatesKnown, OpIds
<1> QED BY <1>1, <1>2

\* A run that comes to a first order was asked for it.
LEMMA AskedKeeps ==
  ASSUME IInv, OrderAsked, BoundsAssumption, PolicyAssumption, [Next]_vars
  PROVE  OrderAsked'
<1> USE DEF At
<1>0. /\ TypeOK /\ LastOperation /\ nops \in 0..MaxOps /\ run \in Runs
  BY Types DEF IInv
<1>1. StageMoves /\ Arrival
  BY <1>0, Moves, Arrivals
<1> SUFFICES ASSUME run'.pc = "discover", managed' = NoManaged
             PROVE  run'.mode = IF nops' = 0 THEN "interactive" ELSE "manual"
  BY DEF OrderAsked
<1>2. managed = NoManaged
  BY ManagedKept
<1>3. CASE UNCHANGED run
  <2>1. nops' = nops
    BY <1>0, <1>1, <1>3 DEF Runs, StageMoves, SameRows, RowMoves, StartIssue, StartRenew
  <2> QED BY <1>2, <1>3, <2>1 DEF OrderAsked
<1>4. CASE DecideFirstIssue
  <2>1. latest = nops /\ nops' = nops
    BY <1>0, <1>4 DEF DecideFirstIssue, LastOperation
  <2>2. PICK a \in FirstIssueAttempt : run' = [run EXCEPT !.pc = "discover", !.attempt = a]
    BY <1>4, ExitFields DEF DecideFirstIssue
  <2>3. run.mode = IF nops = 0 THEN "interactive" ELSE "manual"
    BY <2>1, <2>2 DEF FirstIssueAttempt
  <2> QED BY <1>0, <2>1, <2>2, <2>3 DEF Runs
<1>5. CASE DecideRenewal
  BY <1>2, <1>5 DEF DecideRenewal
<1> QED BY <1>1, <1>3, <1>4, <1>5 DEF Arrival

\* A timer run never places a first order, and after one there is only another
\* in a run the operator asked for as a retry.
THEOREM FirstOrderAsked == Spec => FirstOrderNeedsOperator
<1> DEFINE Asked(o) == Created(o) /\ ops'[o].kind = "issue" =>
                         IF \E p \in OpIds : ops[p].kind = "issue"
                         THEN run.mode = "manual" ELSE run.mode = "interactive"
<1>1. Init => OrderAsked
  BY DEF Init, OrderAsked, Idle, At
<1>2. IInv /\ OrderAsked /\ [Next]_vars => OrderAsked'
  BY AskedKeeps, BoundsAssumption, PolicyAssumption
<1>3. IInv /\ OrderAsked /\ [Next]_vars => [\A o \in OpIds : Asked(o)]_vars
  <2> SUFFICES ASSUME IInv, OrderAsked, [Next]_vars, NEW o \in OpIds,
                      Created(o), ops'[o].kind = "issue"
               PROVE  IF \E p \in OpIds : ops[p].kind = "issue"
                      THEN run.mode = "manual" ELSE run.mode = "interactive"
    OBVIOUS
  <2>0. LastOperation /\ nops \in 0..MaxOps /\ nops \in Nat /\ StageMoves
    BY Types, Moves, BoundsAssumption, PolicyAssumption
  <2>1. StartIssue
    <3>1. Stage(o) = "NONE" /\ o # nops
      BY <2>0 DEF Created, LastOperation
    <3>2. Stage(o)' # "NONE"
      BY DEF Created
    <3> QED BY <2>0, <3>1, <3>2 DEF StageMoves, SameRows, RowMoves, NewRow, Stage
  <2>2. run.mode = IF nops = 0 THEN "interactive" ELSE "manual"
    BY <2>1 DEF StartIssue, OrderAsked
  <2>3. (\E p \in OpIds : ops[p].kind = "issue") <=> nops # 0
    BY <2>0, <2>1, FirstIssuesOnly, BoundsAssumption DEF StartIssue
  <2> QED BY <2>2, <2>3
<1>4. FirstOrderNeedsOperator <=> [][\A o \in OpIds : Asked(o)]_vars
  BY DEF FirstOrderNeedsOperator
<1> QED BY <1>1, <1>2, <1>3, <1>4, Inductive, PTL DEF Spec

-----------------------------------------------------------------------------
(***************************************************************************)
(* Failures in a row.                                                      *)
(***************************************************************************)
\* The members of S that end at o without a gap.
Streak(S, o) == {p \in 1..o : \A q \in p..o : q \in S}

\* A streak can be counted.
LEMMA StreakFinite ==
  ASSUME NEW S, NEW o \in Nat
  PROVE  IsFiniteSet(Streak(S, o)) /\ Cardinality(Streak(S, o)) \in Nat
<1>1. IsFiniteSet(1..o)
  BY FS_Interval
<1>2. IsFiniteSet(Streak(S, o))
  BY <1>1, FS_Subset DEF Streak
<1> QED BY <1>2, FS_CardinalityType

\* It is over at what is not in S.
LEMMA StreakOver ==
  ASSUME NEW S, NEW o \in Nat, o \notin S
  PROVE  Streak(S, o) = {} /\ Cardinality(Streak(S, o)) = 0
<1>1. Streak(S, o) = {}
  BY DEF Streak
<1> QED BY <1>1, FS_EmptySet

\* It is one longer at what is in S.
LEMMA StreakLonger ==
  ASSUME NEW S, NEW o \in Nat \ {0}, o \in S
  PROVE  Cardinality(Streak(S, o)) = Cardinality(Streak(S, o - 1)) + 1
<1>1. Streak(S, o) = Streak(S, o - 1) \cup {o} /\ o \notin Streak(S, o - 1)
  BY DEF Streak
<1>2. IsFiniteSet(Streak(S, o - 1)) /\ Cardinality(Streak(S, o - 1)) \in Nat
  BY StreakFinite
<1> QED BY <1>1, <1>2, FS_AddElement

\* It depends on what is before o alone.
LEMMA StreakSame ==
  ASSUME NEW S, NEW T, NEW o \in Nat, \A q \in 1..o : q \in S <=> q \in T
  PROVE  Streak(S, o) = Streak(T, o)
BY DEF Streak

FailedOrderRows ==
  {q \in OpIds : ops[q].kind = "renew" /\ Stage(q) = "ERROR" /\ ops[q].exp = 0}

\* What the properties count are streaks.
LEMMA OrdersCounted ==
  \A o \in 0..MaxOps : FailedOrders(o) = Cardinality(Streak(FailedOrderRows, o))
<1> SUFFICES ASSUME NEW o \in 0..MaxOps
             PROVE  FailedOrders(o) = Cardinality(Streak(FailedOrderRows, o))
  OBVIOUS
<1>1. Streak(FailedOrderRows, o) =
        {p \in 1..o : \A q \in p..o :
           ops[q].kind = "renew" /\ Stage(q) = "ERROR" /\ ops[q].exp = 0}
  BY BoundsAssumption DEF Streak, FailedOrderRows, OpIds
<1> QED BY <1>1 DEF FailedOrders

LEMMA OrdersCountedNext ==
  (\A o \in 0..MaxOps : FailedOrders(o) = Cardinality(Streak(FailedOrderRows, o)))'
BY OrdersCounted, PTL

-----------------------------------------------------------------------------
(***************************************************************************)
(* What a step does to the history in a row.                               *)
(***************************************************************************)
SameHistory(o) ==
  /\ ops'[o].kind = ops[o].kind /\ ops'[o].stage = ops[o].stage
  /\ ops'[o].exp = ops[o].exp /\ ops'[o].retry = ops[o].retry
  /\ ops'[o].nextAt = ops[o].nextAt /\ ops'[o].ended = ops[o].ended

\* The last operation fails, and is to be tried again after a delay.
FailsWithDelay(attempt) ==
  /\ attempt \in 0..MaxOps /\ attempt < MaxOps /\ nops' = nops
  /\ ops'[nops].kind = ops[nops].kind /\ ops'[nops].stage = "ERROR"
  /\ ops'[nops].exp = ops[nops].exp /\ ops'[nops].retry = attempt + 1
  /\ ops'[nops].nextAt = now + DelayAfter(attempt) /\ ops'[nops].ended = now

\* The last operation goes on to a stage.
GoesOn(stages) ==
  /\ nops' = nops
  /\ ops'[nops].kind = ops[nops].kind /\ ops'[nops].stage \in stages

Histories ==
  /\ \A o \in OpIds \ {nops'} : SameHistory(o)
  /\ \/ SameHistory(nops')
     \/ /\ StartIssue \/ StartRenew
        /\ nops' = nops + 1 /\ ops'[nops'].stage \in {"NEW", "RENEWING"}
     \/ PresentChallenge /\ GoesOn({"CHALLENGE_PRESENT"})
     \/ SaveIssued /\ GoesOn({"CERT_ISSUED"}) /\ ops'[nops].exp > 0
     \/ /\ Stage(nops) = "CERT_ISSUED"
        /\ GoesOn({"CERT_CREATED"}) /\ ops'[nops].exp = ops[nops].exp
     \/ SetPolicyBound /\ GoesOn({"POLICY_BOUND"})
     \/ SetActive /\ GoesOn({"ACTIVE"})
     \/ FailInterrupted \/ CertificateInvalid
     \/ OrderFails /\ FailsWithDelay(run.attempt)
     \/ Stage(nops) \in {"CERT_ISSUED", "CERT_CREATED"} /\ FailsWithDelay(0)

\* A row gets the time it ended at, and the rest of what is written.
LEMMA RowHistory ==
  ASSUME ops \in [OpIds -> OpRows], now \in Nat, NEW o \in OpIds, NEW expected,
         NEW row \in OpRows, UpdateExpected(o, expected, row)
  PROVE  /\ \A p \in OpIds \ {o} : SameHistory(p)
         /\ ops'[o].kind = row.kind /\ ops'[o].stage = row.stage
         /\ ops'[o].exp = row.exp /\ ops'[o].retry = row.retry
         /\ ops'[o].nextAt = row.nextAt
         /\ ops'[o].ended = IF row.stage \in Settled /\ row.stage # expected
                            THEN now ELSE row.ended
BY DEF UpdateExpected, OpRows, SameHistory, Settled

\* A change of the stage keeps the history before it.
LEMMA SetStageHistory ==
  ASSUME TypeOK, nops \in OpIds, nops' = nops, NEW expected, NEW stage \in Stages,
         NEW recovery \in Recoveries, SetStage(nops, expected, stage, recovery)
  PROVE  /\ \A p \in OpIds \ {nops'} : SameHistory(p)
         /\ GoesOn({stage})
         /\ ops'[nops].exp = ops[nops].exp
         /\ stage = expected => SameHistory(nops')
<1> DEFINE row == [ops[nops] EXCEPT !.stage = stage, !.recovery = recovery]
<1>0. ops \in [OpIds -> OpRows] /\ now \in Nat /\ ops[nops] \in OpRows
  BY DEF TypeOK
<1>1. /\ row \in OpRows /\ row.kind = ops[nops].kind /\ row.stage = stage
      /\ row.exp = ops[nops].exp /\ row.retry = ops[nops].retry
      /\ row.nextAt = ops[nops].nextAt /\ row.ended = ops[nops].ended
  BY <1>0 DEF OpRows
<1>2. UpdateExpected(nops, expected, row) /\ Stage(nops) = expected
  BY DEF SetStage, UpdateExpected
<1> HIDE DEF row
<1> QED BY <1>0, <1>1, <1>2, RowHistory DEF SameHistory, GoesOn, Stage

\* So does the record of a certificate that EdgeAPI has.
LEMMA SetCertCreatedHistory ==
  ASSUME TypeOK, nops \in OpIds, nops' = nops, NEW expected, NEW c \in 0..MaxCerts,
         SetCertCreated(nops, expected, c)
  PROVE  /\ \A p \in OpIds \ {nops'} : SameHistory(p)
         /\ GoesOn({"CERT_CREATED"}) /\ ops'[nops].exp = ops[nops].exp
<1> DEFINE row == [ops[nops] EXCEPT !.stage = "CERT_CREATED", !.cert = c,
                                    !.recovery = "none"]
<1>0. ops \in [OpIds -> OpRows] /\ now \in Nat /\ ops[nops] \in OpRows
  BY DEF TypeOK
<1>1. /\ row \in OpRows /\ row.kind = ops[nops].kind /\ row.stage = "CERT_CREATED"
      /\ row.exp = ops[nops].exp
  BY <1>0 DEF OpRows, Stages, Recoveries
<1>2. UpdateExpected(nops, expected, row)
  BY DEF SetCertCreated
<1> HIDE DEF row
<1> QED BY <1>0, <1>1, <1>2, RowHistory DEF GoesOn

\* A failure with backoff is dated now.
LEMMA SetErrorHistory ==
  ASSUME TypeOK, PolicyAssumption, BoundsAssumption, nops \in OpIds, nops' = nops,
         NEW attempt \in 0..MaxOps, attempt < MaxOps, NEW recovery \in Recoveries,
         SetErrorWithRetry(nops, attempt, recovery), Stage(nops) # "ERROR"
  PROVE  /\ \A p \in OpIds \ {nops'} : SameHistory(p)
         /\ FailsWithDelay(attempt)
<1> DEFINE row == [ops[nops] EXCEPT !.stage = "ERROR", !.recovery = recovery,
                     !.retry = attempt + 1, !.nextAt = now + DelayAfter(attempt)]
<1>0. ops \in [OpIds -> OpRows] /\ now \in Nat /\ ops[nops] \in OpRows
  BY DEF TypeOK
<1>1. /\ row \in OpRows /\ row.kind = ops[nops].kind /\ row.stage = "ERROR"
      /\ row.exp = ops[nops].exp /\ row.retry = attempt + 1
      /\ row.nextAt = now + DelayAfter(attempt)
  <2>1. attempt + 1 \in 0..MaxOps /\ now + DelayAfter(attempt) \in Nat
    <3>1. DelayAfter(attempt) \in Nat
      BY DEF PolicyAssumption
    <3> QED BY <1>0, <3>1 DEF BoundsAssumption
  <2> QED BY <1>0, <2>1 DEF OpRows, Stages
<1>2. UpdateExpected(nops, Stage(nops), row)
  BY DEF SetErrorWithRetry
<1> HIDE DEF row
<1> QED BY <1>0, <1>1, <1>2, RowHistory DEF FailsWithDelay, Settled

\* Every step does one of these to the history.
LEMMA HistoryMoves ==
  ASSUME IInv, BoundsAssumption, PolicyAssumption, [Next]_vars
  PROVE  Histories
<1> USE DEF Here, At
<1>0. /\ TypeOK /\ StageAtStep /\ LastOperation /\ RetriesCounted
      /\ nops \in 0..MaxOps /\ nops \in Nat /\ MaxOps \in Nat /\ MaxCerts \in Nat
      /\ ncerts \in 0..MaxCerts /\ run \in Runs /\ ops \in [OpIds -> OpRows]
  BY Types DEF IInv, StepInv, TypeOK
<1>1. CASE UNCHANGED <<ops, nops>>
  BY <1>1 DEF Histories, SameHistory
<1>2. CASE RollbackReadBack
  <2>1. run.cur = nops /\ nops \in OpIds /\ nops' = nops /\ ops[nops].cert \in 0..MaxCerts
    BY <1>0, <1>2 DEF RollbackReadBack, StageAtStep, RestorePCs, OpIds, OpRows
  <2>2. CASE UNCHANGED ops
    BY <1>1, <2>1, <2>2
  <2>3. CASE Stage(nops) = "CERT_ISSUED" /\ SetCertCreated(nops, "CERT_ISSUED", ops[nops].cert)
    BY <1>0, <2>1, <2>3, SetCertCreatedHistory DEF Histories
  <2> QED BY <1>2, <2>1, <2>2, <2>3 DEF RollbackReadBack, SnapshotOf
<1>3. CASE RestoreRecordOperation
  <2>1. run.cur = nops /\ nops \in OpIds /\ nops' = nops
        /\ Stage(nops) \in {"CERT_ISSUED", "CERT_CREATED", "ERROR"}
    BY <1>0, <1>3 DEF RestoreRecordOperation, StageAtStep, RestorePCs, OpIds
  <2>2. CASE UNCHANGED ops
    BY <1>1, <2>1, <2>2
  <2>3. CASE Stage(nops) # "ERROR" /\ SetErrorWithRetry(nops, ops[nops].retry, "retry-new-order")
    <3>1. ops[nops].retry = 0 /\ 0 < MaxOps
      BY <1>0, <2>1, <2>3 DEF RetriesCounted, OpIds
    <3> QED BY <1>0, <2>1, <2>3, <3>1, SetErrorHistory DEF Histories, Recoveries
  <2> QED BY <1>3, <2>1, <2>2, <2>3 DEF RestoreRecordOperation
<1>4. CASE FailInterrupted
  <2>1. PICK o \in InFlight : /\ Stage(o) \in {"NEW", "RENEWING", "CHALLENGE_PRESENT"}
                              /\ SetStage(o, Stage(o), "ERROR", "retry-new-order")
    BY <1>4, ListedInFlight DEF FailInterrupted
  <2>2. o = nops /\ nops \in OpIds /\ nops' = nops
    BY <1>0, <1>4, <2>1 DEF FailInterrupted, InFlight, LastOperation, OpIds, Settled
  <2> QED BY <1>0, <1>4, <2>1, <2>2, SetStageHistory DEF Histories, Stages, Recoveries
<1>5. CASE KeyUnavailable
  <2>1. run.cur = nops /\ nops \in OpIds /\ nops' = nops /\ Stage(nops) = "CERT_ISSUED"
    BY <1>0, <1>5 DEF KeyUnavailable, StageAtStep, OpIds
  <2>2. ops[nops].retry = 0 /\ 0 < MaxOps
    BY <1>0, <2>1 DEF RetriesCounted, OpIds
  <2>3. SetErrorWithRetry(nops, 0, "retry-new-order")
    BY <1>5, <2>1, <2>2 DEF KeyUnavailable
  <2> QED BY <1>0, <2>1, <2>2, <2>3, SetErrorHistory DEF Histories, Recoveries
<1>6. CASE DecideFirstIssue
  <2>1. ops' = ops \/ ops' = [ops EXCEPT ![latest].recovery = "needs-attention"]
    BY <1>6 DEF DecideFirstIssue, NormalizeFirstIssueFailure
  <2>2. \A o \in OpIds : SameHistory(o)
    BY <1>0, <2>1 DEF OpRows, SameHistory
  <2>3. nops' = nops /\ (nops = 0 => SameHistory(0))
    BY <1>0, <1>6 DEF DecideFirstIssue, NormalizeFirstIssueFailure, LastOperation, SameHistory
  <2> QED BY <1>0, <2>2, <2>3 DEF Histories, OpIds
<1>7. CASE StartIssue \/ StartRenew
  <2>1. /\ nops' = nops + 1 /\ nops' \in OpIds
        /\ \A o \in OpIds \ {nops'} : ops'[o] = ops[o]
        /\ ops'[nops'].stage \in {"NEW", "RENEWING"}
    BY <1>0, <1>7, CreateMoves DEF StartIssue, StartRenew, NewRow
  <2> QED BY <1>7, <2>1 DEF Histories, SameHistory
<1>8. CASE PresentChallenge
  <2>1. run.cur = nops /\ nops \in OpIds /\ nops' = nops
    BY <1>0, <1>8 DEF PresentChallenge, StageAtStep, OpIds
  <2> QED BY <1>0, <1>8, <2>1, SetStageHistory
          DEF PresentChallenge, Histories, Stages, Recoveries
<1>9. CASE OrderFails \/ CertificateInvalid \/ SaveIssued
  <2>1. run.cur = nops /\ nops \in OpIds /\ nops' = nops
        /\ Stage(nops) = "CHALLENGE_PRESENT" /\ run.attempt < nops /\ run.attempt \in Nat
    BY <1>0, <1>9 DEF OrderFails, CertificateInvalid, SaveIssued, StageAtStep,
       OpIds, Runs
  <2>2. CASE OrderFails
    <3>1. PICK r \in Recoveries : SetErrorWithRetry(nops, run.attempt, r)
      BY <2>1, <2>2 DEF OrderFails, Recoveries
    <3> QED BY <1>0, <2>1, <2>2, <3>1, SetErrorHistory DEF Histories
  <2>3. CASE CertificateInvalid
    BY <1>0, <2>1, <2>3, SetStageHistory DEF CertificateInvalid, Histories, Stages,
       Recoveries
  <2>4. CASE SaveIssued
    <3> DEFINE row == [ops[nops] EXCEPT !.stage = "CERT_ISSUED", !.exp = now + Life,
                                        !.recovery = "none"]
    <3>1. ops[nops] \in OpRows /\ now \in Nat /\ now + Life \in Nat /\ now + Life > 0
      BY <1>0, <2>1 DEF TypeOK, PolicyAssumption
    <3>2. /\ row \in OpRows /\ row.kind = ops[nops].kind
          /\ row.stage = "CERT_ISSUED" /\ row.exp > 0
      BY <3>1 DEF OpRows, Stages, Recoveries
    <3>3. UpdateExpected(nops, "CHALLENGE_PRESENT", row)
      BY <2>1, <2>4 DEF SaveIssued
    <3> HIDE DEF row
    <3> QED BY <1>0, <2>1, <2>4, <3>1, <3>2, <3>3, RowHistory DEF Histories, GoesOn
  <2> QED BY <1>9, <2>2, <2>3, <2>4
<1>10. CASE FindByMarker
  <2>1. run.cur = nops /\ nops \in OpIds /\ nops' = nops /\ Stage(nops) = "CERT_ISSUED"
    BY <1>0, <1>10 DEF FindByMarker, StageAtStep, IssuePCs, OpIds
  <2>2. CASE UNCHANGED ops
    BY <1>1, <2>1, <2>2
  <2>3. ASSUME NEW c \in Marked(nops), SetCertCreated(nops, "CERT_ISSUED", c)
        PROVE  Histories
    <3>1. c \in 0..MaxCerts
      BY <1>0 DEF Marked
    <3> QED BY <1>0, <2>1, <2>3, <3>1, SetCertCreatedHistory DEF Histories
  <2> QED BY <1>10, <2>1, <2>2, <2>3 DEF FindByMarker
<1>11. CASE RecordCreated
  <2>1. /\ run.cur = nops /\ nops \in OpIds /\ nops' = nops
        /\ Stage(nops) = "CERT_ISSUED" /\ run.got \in 0..MaxCerts
    BY <1>0, <1>11 DEF RecordCreated, StageAtStep, IssuePCs, OpIds, Runs
  <2> QED BY <1>0, <1>11, <2>1, SetCertCreatedHistory DEF RecordCreated, Histories
<1>12. CASE CompareLive \/ RecordUpdated
  <2>1. /\ run.cur = nops /\ nops \in OpIds /\ nops' = nops
        /\ Stage(nops) = "CERT_ISSUED" /\ ops[nops].cert \in 0..MaxCerts
    <3>1. run.pc \in RenewPCs /\ nops' = nops
      BY <1>12 DEF CompareLive, RecordUpdated, RenewPCs
    <3>2. run.cur = nops /\ nops \in OpIds /\ Stage(nops) = "CERT_ISSUED"
      BY <1>0, <3>1 DEF StageAtStep, OpIds
    <3> QED BY <1>0, <3>1, <3>2 DEF OpRows
  <2>2. CASE UNCHANGED ops
    BY <1>1, <2>1, <2>2
  <2>3. CASE SetCertCreated(nops, "CERT_ISSUED", ops[nops].cert)
    BY <1>0, <2>1, <2>3, SetCertCreatedHistory DEF Histories
  <2> QED BY <1>12, <2>1, <2>2, <2>3 DEF CompareLive, RecordUpdated
<1>13. CASE SetPolicyBound
  <2>1. run.cur = nops /\ nops \in OpIds /\ nops' = nops
    BY <1>0, <1>13 DEF SetPolicyBound, StageAtStep, OpIds
  <2> QED BY <1>0, <1>13, <2>1, SetStageHistory
          DEF SetPolicyBound, Histories, Stages, Recoveries
<1>14. CASE SetActive
  <2>1. run.cur = nops /\ nops \in OpIds /\ nops' = nops
    BY <1>0, <1>14 DEF SetActive, StageAtStep, OpIds
  <2> QED BY <1>0, <1>14, <2>1, SetStageHistory
          DEF SetActive, Histories, Stages, Recoveries
<1>15. CASE RecordOperationFailure
  <2>1. run.cur = nops /\ nops \in OpIds /\ nops' = nops /\ Stage(nops) \in Stages
    BY <1>0, <1>15 DEF RecordOperationFailure, StageAtStep, OpIds, OpRows, Stage
  <2>2. PICK r \in Recoveries : SetStage(nops, Stage(nops), Stage(nops), r)
    BY <1>15, <2>1 DEF RecordOperationFailure, Recoveries
  <2> QED BY <1>0, <2>1, <2>2, SetStageHistory DEF Histories
<1> QED BY <1>1, <1>2, <1>3, <1>4, <1>5, <1>6, <1>7, <1>8, <1>9, <1>10, <1>11,
           <1>12, <1>13, <1>14, <1>15, Frames DEF OpsWriters

-----------------------------------------------------------------------------
(***************************************************************************)
(* Backing off.                                                            *)
(***************************************************************************)
\* Time does not go back.
LEMMA TimeGoesOn ==
  ASSUME [Next]_vars, now \in Nat
  PROVE  now' \in Nat /\ now <= now'
<1>1. \/ UNCHANGED now \/ Tick
  <2> USE DEF env
  <2>1. CASE Start \/ RollbackStep
    BY <2>1 DEF Start, StartRun, RollbackStep, RollbackVerifyNew, RollbackReadBack,
       RollbackForget, RollbacksDone
  <2>2. CASE RestoreStep
    BY <2>2 DEF RestoreStep, RestoreUpdate, RestoreVerifyOld, RestoreRecordOperation,
       RestoreRecordManaged, RestoreForget
  <2>3. CASE RecoverStep
    BY <2>3 DEF RecoverStep, FailInterrupted, ContinueInterrupted, RecoveryDone,
       KeyUnavailable
  <2>4. CASE DecideStep
    BY <2>4 DEF DecideStep, DecideFirstIssue, DecideRenewal, ReadFails, StartIssue,
       DiscoverManaged, StartRenew, NothingToDo
  <2>5. CASE ObtainStep
    BY <2>5 DEF ObtainStep, PresentChallenge, OrderFails, OrderFailureRecorded,
       CertificateInvalid, SaveIssued
  <2>6. CASE ContinueStep
    BY <2>6 DEF ContinueStep, FindByMarker, CreateCertificate, RecordCreated,
       CompareLive, UpdateCertificate, ReadBack, RecordUpdated, ForgetSnapshot,
       VerifyBinding, SetPolicyBound, SetActive, RecordOperationFailure
  <2>7. CASE DiskFails \/ Crash \/ Environment
    BY <2>7 DEF DiskFails, Crash, Environment, AdminBind, AdminUnbind, AdminMove,
       Propagate
  <2>8. CASE UNCHANGED vars
    BY <2>8 DEF vars
  <2> QED BY <2>1, <2>2, <2>3, <2>4, <2>5, <2>6, <2>7, <2>8 DEF Next, RunStep
<1> QED BY <1>1 DEF Tick

\* A run that is to order does so, or dies.
LEMMA OrderSteps ==
  ASSUME [Next]_vars, run.pc \in {"present", "order"}
  PROVE  \/ UNCHANGED run \/ PresentChallenge
         \/ OrderFails \/ CertificateInvalid \/ SaveIssued
         \/ DiskFails \/ Crash
<1> USE DEF At
<1>1. ~Start
  <2>1. ASSUME Start PROVE run = Idle
    BY <2>1 DEF Start, StartRun
  <2> QED BY <2>1 DEF Idle
<1>2. ~RollbackStep /\ ~RestoreStep
  BY DEF RollbackStep, RollbackVerifyNew, RollbackReadBack, RollbackForget,
     RollbacksDone, RestoreStep, RestoreUpdate, RestoreVerifyOld,
     RestoreRecordOperation, RestoreRecordManaged, RestoreForget
<1>3. ~FailInterrupted /\ ~ContinueInterrupted /\ ~RecoveryDone /\ ~KeyUnavailable
  BY DEF FailInterrupted, ContinueInterrupted, RecoveryDone, KeyUnavailable
<1>4. ~DecideFirstIssue /\ ~DecideRenewal /\ ~ReadFails /\ ~StartIssue
      /\ ~DiscoverManaged /\ ~StartRenew /\ ~NothingToDo
  BY DEF DecideFirstIssue, DecideRenewal, ReadFails, StartIssue,
     DiscoverManaged, StartRenew, NothingToDo
<1>5. ~ContinueStep /\ ~OrderFailureRecorded
  BY DEF ContinueStep, FindByMarker, CreateCertificate, RecordCreated,
     CompareLive, UpdateCertificate, ReadBack, RecordUpdated, ForgetSnapshot,
     VerifyBinding, SetPolicyBound, SetActive, RecordOperationFailure,
     OrderFailureRecorded
<1>6. Environment => UNCHANGED run
  BY DEF Environment, AdminBind, AdminUnbind, AdminMove, Propagate, Tick
<1>7. UNCHANGED vars => UNCHANGED run
  BY DEF vars
<1> QED BY <1>1, <1>2, <1>3, <1>4, <1>5, <1>6, <1>7
        DEF Next, RunStep, RecoverStep, DecideStep, ObtainStep

\* Nothing cuts a run short between its order and the record of its failure.
LEMMA NoInterruption ==
  ASSUME IInv, RunWaited, Uninterrupted, BoundsAssumption
  PROVE  ~FailInterrupted /\ ~CertificateInvalid /\ ~DiskFails /\ ~Crash
<1>1. ASSUME FailInterrupted PROVE FALSE
  <2>1. PICK o \in InFlight : Stage(o) \in {"NEW", "RENEWING", "CHALLENGE_PRESENT"}
    BY <1>1, ListedInFlight DEF FailInterrupted
  <2>2. o = nops /\ nops > 0
    BY <2>1, Types DEF InFlight, LastOperation, OpIds, Settled
  <2> QED BY <1>1, <2>1, <2>2 DEF RunWaited, FailInterrupted, At
<1> QED BY <1>1 DEF CertificateInvalid, DiskFails, Crash, Fault, Uninterrupted

\* The count of failed orders up to a row that has not changed is the same.
LEMMA OrdersBefore ==
  ASSUME NEW o \in 0..MaxOps, \A q \in 1..o : SameHistory(q)
  PROVE  FailedOrders(o)' = FailedOrders(o)
<1>1. \A q \in 1..o : q \in FailedOrderRows' <=> q \in FailedOrderRows
  BY BoundsAssumption DEF FailedOrderRows, SameHistory, Stage, OpIds
<1>2. Streak(FailedOrderRows', o) = Streak(FailedOrderRows, o)
  BY <1>1, StreakSame
<1> QED BY <1>2, OrdersCounted, OrdersCountedNext

\* Every failed renewal has its delay and counts the orders before it.
LEMMA FailuresKeep ==
  ASSUME BackoffInv, Uninterrupted, BoundsAssumption, PolicyAssumption, [Next]_vars
  PROVE  FailuresTimed'
<1>0. /\ IInv /\ FailuresTimed /\ RunWaited /\ StageAtStep /\ CertificatesKnown /\ TypeOK
      /\ nops \in Nat /\ nops \in 0..MaxOps /\ MaxOps \in Nat /\ run \in Runs
  BY Types DEF BackoffInv
<1>1. Histories /\ IInv' /\ ~FailInterrupted /\ ~CertificateInvalid
  BY <1>0, HistoryMoves, NextKeeps, NoInterruption
<1>2. /\ nops' \in 0..MaxOps /\ LastOperation' /\ \A o \in OpIds : ops'[o].retry \in Nat
  BY <1>1, BoundsAssumption DEF IInv, StepInv, TypeOK, OpRows
<1> SUFFICES ASSUME NEW o \in OpIds
             PROVE  /\ ops'[o].kind = "renew" /\ Stage(o)' = "ERROR" =>
                         /\ ops'[o].retry > 0
                         /\ ops'[o].nextAt = ops'[o].ended + DelayAfter(ops'[o].retry - 1)
                    /\ FailedOrders(o)' <= ops'[o].retry
                    /\ Stage(o)' \in {"CERT_ISSUED", "CERT_CREATED"} => ops'[o].exp > 0
  BY DEF FailuresTimed
<1>3. o \notin FailedOrderRows' => FailedOrders(o)' <= ops'[o].retry
  BY <1>2, OrdersCountedNext, StreakOver DEF OpIds
<1>4. CASE SameHistory(o)
  <2>1. CASE o <= nops'
    <3>1. \A q \in 1..o : SameHistory(q)
      BY <1>0, <1>1, <1>2, <1>4, <2>1 DEF Histories, OpIds
    <3>2. FailedOrders(o)' = FailedOrders(o)
      BY <3>1, OrdersBefore DEF OpIds
    <3> QED BY <1>0, <1>4, <3>2 DEF FailuresTimed, SameHistory, Stage
  <2>2. CASE o > nops'
    BY <1>2, <1>3, <2>2 DEF LastOperation, FailedOrderRows
  <2> QED BY <1>2, <2>1, <2>2 DEF OpIds
<1>5. CASE ~SameHistory(o)
  <2>1. o = nops'
    BY <1>1, <1>5 DEF Histories
  <2>2. CASE OrderFails /\ FailsWithDelay(run.attempt)
    <3>1. CASE o \in FailedOrderRows'
      <4>1. nops' = nops /\ ops[nops].kind = "renew" /\ managed # NoManaged
        BY <1>0, <2>1, <2>2, <3>1 DEF FailsWithDelay, FailedOrderRows, CertificatesKnown
      <4>2. o - 1 \in 0..MaxOps /\ o \in Nat \ {0} /\ o \in 0..MaxOps
        BY DEF OpIds
      <4>3. FailedOrders(o)' = Cardinality(Streak(FailedOrderRows', o))
            /\ FailedOrders(o - 1)' = Cardinality(Streak(FailedOrderRows', o - 1))
        BY <4>2, OrdersCountedNext
      <4>4. FailedOrders(o)' = FailedOrders(o - 1)' + 1
        BY <3>1, <4>2, <4>3, StreakLonger
      <4>5. FailedOrders(o - 1)' = FailedOrders(o - 1)
        BY <1>1, <2>1, <4>1, <4>2, OrdersBefore DEF Histories, OpIds
      <4>6. FailedOrders(o - 1) <= run.attempt
        BY <1>0, <2>1, <2>2, <4>1, <4>2 DEF RunWaited, OrderFails, At
      <4>7. FailedOrders(o - 1) \in Nat
        BY <4>2, OrdersCounted, StreakFinite
      <4> QED BY <2>1, <2>2, <4>1, <4>4, <4>5, <4>6, <4>7 DEF FailsWithDelay, Stage
    <3>2. CASE o \notin FailedOrderRows'
      BY <1>3, <2>1, <2>2, <3>2 DEF FailsWithDelay, Stage
    <3> QED BY <3>1, <3>2
  <2>3. CASE Stage(nops) \in {"CERT_ISSUED", "CERT_CREATED"} /\ FailsWithDelay(0)
    <3>1. nops' = nops /\ ops[o].exp > 0
      BY <1>0, <2>1, <2>3 DEF FailsWithDelay, FailuresTimed
    <3> QED BY <1>3, <2>1, <2>3, <3>1 DEF FailsWithDelay, FailedOrderRows, Stage
  <2>4. CASE /\ Stage(nops) = "CERT_ISSUED"
             /\ GoesOn({"CERT_CREATED"}) /\ ops'[nops].exp = ops[nops].exp
    BY <1>0, <1>3, <2>1, <2>4 DEF GoesOn, FailuresTimed, FailedOrderRows, Stage
  <2>5. CASE /\ nops' = nops \/ StartIssue \/ StartRenew
             /\ ops'[nops'].stage \notin {"ERROR", "CERT_ISSUED", "CERT_CREATED"}
    BY <1>3, <2>1, <2>5 DEF FailedOrderRows, Stage
  <2>6. CASE GoesOn({"CERT_ISSUED"}) /\ ops'[nops].exp > 0
    BY <1>3, <2>1, <2>6 DEF GoesOn, FailedOrderRows, Stage
  <2> QED BY <1>1, <1>5, <2>1, <2>2, <2>3, <2>4, <2>5, <2>6 DEF Histories, GoesOn
<1> QED BY <1>4, <1>5

\* A run that stays where it decides writes nothing.
LEMMA DecidesAlone ==
  ASSUME [Next]_vars, run \in Runs, run'.pc \in {"discover", "check"},
         UNCHANGED run \/ DiscoverManaged \/ DecideRenewal
  PROVE  UNCHANGED <<ops, nops, managed>>
<1> USE DEF At, db, Runs
<1>1. CASE DiscoverManaged \/ DecideRenewal
  BY <1>1 DEF DiscoverManaged, DecideRenewal
<1>2. CASE UNCHANGED run
  <2>0. run.pc \in {"discover", "check"}
    BY <1>2
  <2>1. ~StartIssue /\ ~StartRenew
    BY <1>2, <2>0 DEF StartIssue, StartRenew
  <2>2. /\ ~RollbackReadBack /\ ~RestoreRecordOperation /\ ~FailInterrupted
        /\ ~KeyUnavailable /\ ~DecideFirstIssue
        /\ ~PresentChallenge /\ ~OrderFails /\ ~CertificateInvalid /\ ~SaveIssued
    BY <2>0 DEF RollbackReadBack, RestoreRecordOperation, FailInterrupted,
       KeyUnavailable, DecideFirstIssue, PresentChallenge, OrderFails,
       CertificateInvalid, SaveIssued
  <2>3. /\ ~FindByMarker /\ ~RecordCreated /\ ~CompareLive /\ ~RecordUpdated
        /\ ~SetPolicyBound /\ ~SetActive /\ ~RecordOperationFailure
        /\ ~RestoreRecordManaged /\ ~OrderFailureRecorded
    BY <2>0 DEF FindByMarker, RecordCreated, CompareLive, RecordUpdated,
       SetPolicyBound, SetActive, RecordOperationFailure, RestoreRecordManaged,
       OrderFailureRecorded
  <2> QED BY <2>1, <2>2, <2>3, Frames DEF OpsWriters
<1> QED BY <1>1, <1>2

\* An order that ends is over.
LEMMA OrderEnds ==
  ASSUME TypeOK, nops \in OpIds, run.cur = nops, OrderFails \/ SaveIssued
  PROVE  ops'[nops].stage \in {"ERROR", "CERT_ISSUED"}
<1>1. ops \in [OpIds -> OpRows] /\ ops[nops] \in OpRows
  BY DEF TypeOK
<1>2. CASE OrderFails
  <2>1. PICK r : SetErrorWithRetry(nops, run.attempt, r)
    BY <1>2 DEF OrderFails
  <2> QED BY <1>1, <2>1 DEF SetErrorWithRetry, UpdateExpected, OpRows
<1>3. CASE SaveIssued
  BY <1>1, <1>3 DEF SaveIssued, UpdateExpected, OpRows
<1> QED BY <1>2, <1>3

\* A run that comes to order has waited for the last failure and counts on.
LEMMA WaitedKeeps ==
  ASSUME BackoffInv, Uninterrupted, BoundsAssumption, PolicyAssumption, [Next]_vars
  PROVE  RunWaited'
<1> USE DEF At
<1>0. /\ IInv /\ FailuresTimed /\ RunWaited /\ StageAtStep /\ LastOperation /\ TypeOK
      /\ nops \in Nat /\ nops \in 0..MaxOps /\ MaxOps \in Nat /\ run \in Runs /\ now \in Nat
      /\ ops \in [OpIds -> OpRows]
  BY Types DEF BackoffInv, TypeOK
<1>1. /\ Histories /\ IInv' /\ StageMoves /\ Arrival
      /\ ~FailInterrupted /\ ~CertificateInvalid /\ ~DiskFails /\ ~Crash
  BY <1>0, HistoryMoves, NextKeeps, NoInterruption, Moves, Arrivals
<1>2. nops' \in 0..MaxOps /\ now' \in Nat /\ now <= now'
  BY <1>0, <1>1, TimeGoesOn, Types DEF IInv, StepInv, TypeOK
<1>3. ASSUME nops' > 0, Stage(nops)' \in {"NEW", "RENEWING", "CHALLENGE_PRESENT"}
      PROVE  run'.pc \in {"present", "order"}
  <2>1. CASE StartIssue \/ StartRenew
    BY <1>0, <2>1 DEF StartIssue, StartRenew, Runs
  <2>2. CASE PresentChallenge
    BY <1>0, <2>2, GotoFields DEF PresentChallenge, PCs
  <2>3. CASE SameRows /\ ~PresentChallenge
    <3>1. nops' = nops /\ Stage(nops) = Stage(nops)'
      BY <1>2, <1>3, <2>3 DEF SameRows, Stage, OpIds
    <3>2. run.pc \in {"present", "order"}
      BY <1>0, <1>3, <3>1 DEF RunWaited
    <3>3. ~OrderFails /\ ~SaveIssued
      <4>1. nops \in OpIds /\ run.cur = nops
        BY <1>0, <1>3, <3>1, <3>2 DEF StageAtStep, Here, OpIds
      <4> QED BY <1>0, <1>3, <3>1, <4>1, OrderEnds DEF Stage
    <3> QED BY <1>1, <2>3, <3>2, <3>3, OrderSteps
  <2> QED BY <1>1, <1>3, <2>1, <2>2, <2>3 DEF StageMoves, RowMoves, Stage
<1>4. ASSUME managed' # NoManaged, nops' > 0, run'.pc \in {"discover", "check"}
      PROVE  /\ FailedOrders(nops)' <= run'.attempt
             /\ Stage(nops)' = "ERROR" => ops'[nops'].nextAt <= now'
  <2>1. ~DecideFirstIssue /\ (managed = NoManaged => SetActive)
    BY <1>0, <1>4, ManagedBegins DEF DecideFirstIssue
  <2>2. UNCHANGED run \/ DiscoverManaged \/ DecideRenewal
    BY <1>1, <1>4, <2>1 DEF Arrival
  <2>3. UNCHANGED <<ops, nops, managed>> /\ managed # NoManaged
    BY <1>0, <1>4, <2>2, DecidesAlone
  <2>4. FailedOrders(nops)' = FailedOrders(nops) /\ nops \in 0..MaxOps
    BY <1>0, <2>3 DEF FailedOrders, Stage
  <2>5. ops[nops].nextAt \in Nat /\ ops[nops].retry \in Nat
    <3>1. nops \in OpIds
      BY <1>0, <1>4, <2>3 DEF OpIds
    <3>2. ops[nops] \in OpRows
      BY <1>0, <3>1
    <3> QED BY <3>2 DEF OpRows
  <2>6. CASE UNCHANGED run \/ DiscoverManaged
    <3>1. run.pc \in {"discover", "check"} /\ run'.attempt = run.attempt
      BY <1>0, <1>4, <2>6 DEF DiscoverManaged, Goto, Exit, Idle, Runs
    <3> QED BY <1>0, <1>2, <1>4, <2>3, <2>4, <2>5, <3>1 DEF RunWaited, Stage
  <2>7. CASE DecideRenewal
    <3>1. latest = nops /\ nops # 0
      BY <1>0, <1>4, <2>3 DEF LastOperation
    <3>2. ~(Backoff.nextAt > now) /\ run'.attempt = Backoff.attempt
      BY <1>0, <1>4, <2>7, ExitFields DEF DecideRenewal, Runs
    <3>3. CASE Stage(nops) = "ERROR"
      <4>1. Backoff.attempt = ops[nops].retry /\ Backoff.nextAt = ops[nops].nextAt
        BY <3>1, <3>3 DEF Backoff
      <4>2. FailedOrders(nops) <= ops[nops].retry
        BY <1>0, <3>1 DEF FailuresTimed, OpIds
      <4> QED BY <1>0, <1>2, <2>3, <2>4, <2>5, <3>2, <4>1, <4>2
    <3>4. CASE Stage(nops) # "ERROR"
      <4>1. Backoff.attempt = 0
        BY <3>1, <3>4 DEF Backoff
      <4>2. FailedOrders(nops) = 0
        BY <1>0, <3>4, OrdersCounted, StreakOver DEF FailedOrderRows
      <4> QED BY <2>3, <2>4, <3>2, <3>4, <4>1, <4>2 DEF Stage
    <3> QED BY <3>3, <3>4
  <2> QED BY <2>2, <2>6, <2>7
<1>5. ASSUME managed' # NoManaged, nops' > 0, run'.pc \in {"present", "order"}
      PROVE  FailedOrders(nops - 1)' <= run'.attempt
  <2>1. nops' - 1 \in 0..MaxOps /\ \A q \in 1..(nops' - 1) : SameHistory(q)
    <3>1. \A o \in OpIds \ {nops'} : SameHistory(o)
      BY <1>1 DEF Histories
    <3>2. MaxOps \in Nat
      BY <1>0
    <3>3. \A k \in 0..MaxOps : k > 0 =>
            k - 1 \in 0..MaxOps /\ \A q \in 1..(k - 1) : q \in OpIds /\ q # k
      BY <3>2 DEF OpIds
    <3> QED BY <1>2, <1>5, <3>1, <3>3
  <2>2. ASSUME NEW k \in 0..MaxOps, k = nops' - 1
        PROVE  FailedOrders(nops - 1)' = FailedOrders(k)
    <3>1. FailedOrders(k)' = FailedOrders(k)
      BY <2>1, <2>2, OrdersBefore
    <3>2. FailedOrders(nops - 1)' = FailedOrders(k)'
      BY <2>2 DEF FailedOrders, Stage
    <3> QED BY <3>1, <3>2
  <2>3. ~StartIssue /\ managed # NoManaged
    <3>1. SetActive => run'.pc \in {"recover", "idle"}
      BY <1>0, ExitFields DEF SetActive, Runs
    <3>2. managed # NoManaged
      BY <1>0, <1>5, <3>1, ManagedBegins
    <3> QED BY <3>2 DEF StartIssue
  <2>4. CASE StartRenew
    <3>1. nops' = nops + 1 /\ run'.attempt = run.attempt /\ run.pc = "check"
          /\ run.attempt \in Nat
      BY <1>0, <2>4 DEF StartRenew, CreateOperation, Runs
    <3>2. FailedOrders(nops - 1)' = FailedOrders(nops)
      BY <1>0, <2>2, <3>1
    <3>3. FailedOrders(nops) <= run.attempt
      <4>1. CASE nops > 0
        BY <1>0, <2>3, <3>1, <4>1 DEF RunWaited
      <4>2. CASE nops = 0
        <5>1. nops \notin FailedOrderRows
          BY <4>2 DEF FailedOrderRows, OpIds
        <5>2. FailedOrders(nops) = 0
          BY <1>0, <5>1, OrdersCounted, StreakOver
        <5> QED BY <3>1, <5>2
      <4> QED BY <1>0, <4>1, <4>2
    <3> QED BY <3>1, <3>2, <3>3
  <2>5. CASE (UNCHANGED run \/ PresentChallenge) /\ ~StartRenew
    <3>1. /\ nops' = nops /\ run.pc \in {"present", "order"} /\ run'.attempt = run.attempt
      BY <1>0, <1>1, <1>5, <2>3, <2>5
         DEF StageMoves, SameRows, RowMoves, PresentChallenge, Goto, Runs
    <3>2. FailedOrders(nops - 1)' = FailedOrders(nops - 1)
      BY <2>1, <2>2, <3>1
    <3> QED BY <1>0, <1>5, <2>3, <3>1, <3>2 DEF RunWaited
  <2> QED BY <1>1, <1>5, <2>3, <2>4, <2>5 DEF Arrival
<1> QED BY <1>3, <1>4, <1>5 DEF RunWaited

\* Nothing has failed at first.
LEMMA BackoffAtFirst ==
  ASSUME Init, BoundsAssumption
  PROVE  BackoffInv
<1>1. IInv
  BY InitHolds
<1>2. FailedOrderRows = {} /\ \A o \in OpIds : ops[o].retry = 0 /\ Stage(o) = "NONE"
  BY DEF Init, FailedOrderRows, NoOp, Stage
<1>3. \A o \in OpIds : FailedOrders(o) = 0
  BY <1>2, OrdersCounted, StreakOver DEF OpIds
<1>4. FailuresTimed
  BY <1>2, <1>3 DEF FailuresTimed
<1>5. RunWaited
  BY DEF Init, RunWaited
<1> QED BY <1>1, <1>4, <1>5 DEF BackoffInv

\* As long as no run is cut short at an order, a failed renewal keeps its delay
\* and its count, and a run that comes to order has waited.
THEOREM BackoffInductive ==
  ASSUME Uninterrupted PROVE Spec => []BackoffInv
<1>1. Init => BackoffInv
  BY BackoffAtFirst, BoundsAssumption
<1>2. BackoffInv /\ [Next]_vars => BackoffInv'
  BY NextKeeps, FailuresKeep, WaitedKeeps, Uninterrupted, BoundsAssumption,
     PolicyAssumption DEF BackoffInv
<1> QED BY <1>1, <1>2, PTL DEF Spec

\* An operation after a failed renewal is a renewal that has waited.
LEMMA CreatedAfterFailure ==
  ASSUME BackoffInv, BoundsAssumption, PolicyAssumption, [Next]_vars,
         NEW o \in OpIds, Created(o),
         o - 1 \in OpIds, ops[o - 1].kind = "renew", Stage(o - 1) = "ERROR",
         NEW k \in 0..MaxOps, k < ops[o - 1].retry, DelayAssumption
  PROVE  now >= ops[o - 1].ended + DelayAfter(k)
<1>0. /\ IInv /\ FailuresTimed /\ RunWaited /\ LastOperation /\ CertificatesKnown
      /\ nops \in 0..MaxOps /\ now \in Nat /\ ops \in [OpIds -> OpRows] /\ StageMoves
  BY Types, Moves DEF BackoffInv, TypeOK
<1>1. (StartIssue \/ StartRenew) /\ o = nops + 1
  <2>1. Stage(o) = "NONE" /\ Stage(o)' # "NONE" /\ o # nops
    BY <1>0 DEF Created, LastOperation
  <2> QED BY <1>0, <2>1 DEF StageMoves, SameRows, RowMoves, NewRow, Stage
<1>2. managed # NoManaged /\ o - 1 = nops /\ nops > 0
  BY <1>0, <1>1 DEF CertificatesKnown, OpIds
<1>3. ops[nops].nextAt <= now
  BY <1>0, <1>1, <1>2 DEF RunWaited, StartIssue, StartRenew, At
<1>4. ops[nops].nextAt = ops[nops].ended + DelayAfter(ops[nops].retry - 1)
  BY <1>0, <1>2 DEF FailuresTimed
<1>5. DelayAfter(k) <= DelayAfter(ops[nops].retry - 1)
      /\ DelayAfter(k) \in Nat /\ DelayAfter(ops[nops].retry - 1) \in Nat
      /\ ops[nops].ended \in Nat
  <2>1. ops[nops] \in OpRows
    BY <1>0, <1>2
  <2>2. /\ ops[nops].retry - 1 \in 0..MaxOps /\ k \in 0..(ops[nops].retry - 1)
        /\ ops[nops].ended \in Nat
    BY <1>2, <2>1, BoundsAssumption DEF OpRows
  <2> QED BY <2>2, BoundsAssumption DEF DelayAssumption, PolicyAssumption
<1> QED BY <1>0, <1>2, <1>3, <1>4, <1>5

FailedRenewalRows == {q \in OpIds : ops[q].kind = "renew" /\ Stage(q) = "ERROR"}

\* A count that is not zero has a failure at its end.
LEMMA RenewalsCounted ==
  ASSUME NEW o \in 0..MaxOps, FailedRenewals(o) > 0
  PROVE  o \in FailedRenewalRows
<1>1. Streak(FailedRenewalRows, o) =
        {p \in 1..o : \A q \in p..o : ops[q].kind = "renew" /\ Stage(q) = "ERROR"}
  BY BoundsAssumption DEF Streak, FailedRenewalRows, OpIds
<1> QED BY <1>1, StreakOver DEF FailedRenewals

\* After a failed renewal the next one starts no earlier than the shortest
\* retry delay later, as long as no run is cut short at an order.
THEOREM RenewalsBackOff ==
  ASSUME Uninterrupted PROVE Spec => RenewalBacksOff
<1>1. BackoffInv /\ [Next]_vars =>
        [\A o \in OpIds : Created(o) /\ FailedRenewals(o - 1) > 0 =>
           now >= ops[o - 1].ended + DelayAfter(0)]_vars
  <2> SUFFICES ASSUME BackoffInv, [Next]_vars, NEW o \in OpIds, Created(o),
                      FailedRenewals(o - 1) > 0
               PROVE  now >= ops[o - 1].ended + DelayAfter(0)
    OBVIOUS
  <2>1. o - 1 \in 0..MaxOps /\ MaxOps \in Nat /\ 0 \in 0..MaxOps
    BY BoundsAssumption DEF OpIds
  <2>2. o - 1 \in OpIds /\ ops[o - 1].kind = "renew" /\ Stage(o - 1) = "ERROR"
    BY <2>1, RenewalsCounted DEF FailedRenewalRows
  <2>3. ops[o - 1].retry > 0
    BY <2>2 DEF BackoffInv, FailuresTimed
  <2> QED BY <2>1, <2>2, <2>3, CreatedAfterFailure, BoundsAssumption,
             PolicyAssumption, DelayAssumption
<1> QED BY <1>1, BackoffInductive, PTL DEF Spec, RenewalBacksOff

\* After k orders in a row have failed, the next one is placed no earlier than
\* the k-th retry delay later, as long as no run is cut short at an order.
THEOREM OrdersBackingOff ==
  ASSUME Uninterrupted PROVE Spec => OrdersBackOff
<1>1. BackoffInv /\ [Next]_vars =>
        [\A o \in OpIds : Created(o) /\ FailedOrders(o - 1) > 0 =>
           now >= ops[o - 1].ended + DelayAfter(FailedOrders(o - 1) - 1)]_vars
  <2> SUFFICES ASSUME BackoffInv, [Next]_vars, NEW o \in OpIds, Created(o),
                      FailedOrders(o - 1) > 0
               PROVE  now >= ops[o - 1].ended + DelayAfter(FailedOrders(o - 1) - 1)
    OBVIOUS
  <2>1. o - 1 \in 0..MaxOps /\ MaxOps \in Nat
    BY BoundsAssumption DEF OpIds
  <2>2. o - 1 \in OpIds /\ ops[o - 1].kind = "renew" /\ Stage(o - 1) = "ERROR"
    <3>1. o - 1 \in FailedOrderRows
      BY <2>1, OrdersCounted, StreakOver
    <3> QED BY <3>1 DEF FailedOrderRows
  <2>3. FailedOrders(o - 1) <= ops[o - 1].retry /\ ops[o - 1].retry \in 0..MaxOps
    BY <2>2 DEF BackoffInv, FailuresTimed, IInv, StepInv, TypeOK, OpRows
  <2>4. FailedOrders(o - 1) \in Nat
    BY <2>1, OrdersCounted, StreakFinite
  <2>5. FailedOrders(o - 1) - 1 \in 0..MaxOps /\ FailedOrders(o - 1) - 1 < ops[o - 1].retry
    BY <2>1, <2>3, <2>4
  <2> QED BY <2>2, <2>5, CreatedAfterFailure, BoundsAssumption, PolicyAssumption,
             DelayAssumption
<1> QED BY <1>1, BackoffInductive, PTL DEF Spec, OrdersBackOff
=============================================================================
