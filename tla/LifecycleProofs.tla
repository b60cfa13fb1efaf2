--------------------------- MODULE LifecycleProofs ---------------------------
(***************************************************************************)
(* The invariant of module LifecycleInvariant is inductive, for every      *)
(* bound, every set of faults and every policy; the safety properties that *)
(* follow from it hold in every reachable state.                           *)
(*                                                                         *)
(* The first lemmas say what the building blocks of the actions do to the  *)
(* process and to the operation table.  A step then is one of: a quiet one *)
(* that only moves the process (QuietKeeps), a write to the row of the     *)
(* last operation (RowKeeps), or one of the few others.                    *)
(***************************************************************************)
EXTENDS LifecycleInvariant, TLAPS

\* A jump keeps every field of the process but the step it is at.
LEMMA GotoFields ==
  ASSUME run \in Runs, NEW pc \in PCs, Goto(pc)
  PROVE  /\ run' \in Runs
         /\ run'.pc = pc /\ run'.mode = run.mode /\ run'.cur = run.cur
         /\ run'.key = run.key /\ run'.got = run.got
         /\ run'.attempt = run.attempt /\ run'.phase = run.phase
         /\ run'.cause = run.cause
  BY DEF Goto, Runs

\* A failure inside continueOperation moves on to recording it.
LEMMA FailFields ==
  ASSUME run \in Runs, NEW cause \in {"none", "step", "reissue", "unbound"},
         Fail(cause)
  PROVE  /\ run' \in Runs
         /\ run'.pc = "record" /\ run'.mode = run.mode /\ run'.cur = run.cur
         /\ run'.key = run.key /\ run'.got = run.got
         /\ run'.attempt = run.attempt /\ run'.phase = run.phase
         /\ run'.cause = cause
  BY DEF Fail, Runs, PCs

\* The end of a run forgets every local variable.
LEMMA ExitFields ==
  ASSUME BoundsAssumption, Exit
  PROVE  /\ run' \in Runs
         /\ run'.pc = "idle" /\ run'.cur = 0 /\ run'.attempt = 0
         /\ run'.cause = "none"
  BY DEF Exit, Idle, Runs, PCs, BoundsAssumption

\* Between runs nothing is expected of the operation table.
LEMMA ExitKeepsStep ==
  ASSUME BoundsAssumption, Exit, nops' \in 0..MaxOps
  PROVE  StageAtStep'
<1>1. run'.pc = "idle" /\ run'.cur = 0 /\ run'.attempt = 0
  BY ExitFields
<1> QED
  BY <1>1 DEF StageAtStep, Here, At, NoSnapshotPCs, RestorePCs, IssuePCs,
              RenewPCs, DecidePCs

\* The fault counter stays a number.
LEMMA FaultTyped ==
  ASSUME faults \in Nat, NEW k, Fault(k)
  PROVE  faults' \in Nat
  BY DEF Fault

\* A TLS verification that times out leaves the fault counter a number.
LEMMA TimeoutTyped ==
  ASSUME faults \in Nat, NEW f, TLSTimeout(f)
  PROVE  faults' \in Nat
  BY DEF TLSTimeout, Fault

\* A certificate of EdgeAPI is known by the operation it comes from.
LEMMA ContentTyped ==
  ASSUME TypeOK, BoundsAssumption, NEW c
  PROVE  Content(c) \in 0..MaxOps
<1>1. edge \in [CertIds -> EdgeRows] /\ ncerts \in 0..MaxCerts /\ MaxCerts \in Nat
      /\ MaxOps \in Nat
  BY DEF TypeOK, BoundsAssumption
<1>2. CASE c \in 1..ncerts
  <2>1. c \in CertIds
    BY <1>1, <1>2 DEF CertIds
  <2>2. edge[c] \in EdgeRows
    BY <1>1, <2>1
  <2> QED BY <1>2, <2>2 DEF Content, EdgeRows
<1>3. CASE c \notin 1..ncerts
  BY <1>1, <1>3 DEF Content
<1> QED BY <1>2, <1>3

\* EdgeAPI's table stays in its type.
LEMMA PutCertTyped ==
  ASSUME TypeOK, NEW c \in CertIds, NEW mark \in 0..MaxOps, NEW f \in 0..MaxOps,
         PutCert(c, mark, f)
  PROVE  edge' \in [CertIds -> EdgeRows]
  BY DEF TypeOK, PutCert, EdgeRows

\* A step that only moves the process, or changes what EdgeAPI's certificates
\* hold, needs to be looked at for the step it leads to only.
LEMMA QuietKeeps ==
  ASSUME StepInv, UNCHANGED <<db, snaps, ncerts, env>>,
         edge' \in [CertIds -> EdgeRows], faults' \in Nat, run' \in Runs,
         StageAtStep'
  PROVE  StepInv'
<1>0. TypeOK /\ LastOperation /\ RetriesCounted /\ CertificatesKnown /\ SnapshotsOfLast
  BY DEF StepInv
<1>1. TypeOK'
  BY <1>0 DEF TypeOK, db, env
<1>2. LastOperation' /\ RetriesCounted' /\ CertificatesKnown' /\ SnapshotsOfLast'
  BY <1>0 DEF LastOperation, RetriesCounted, CertificatesKnown,
              SnapshotsOfLast, db, Stage
<1> QED BY <1>1, <1>2 DEF StepInv

\* A snapshot that is deleted leaves the rest as it is.
LEMMA SnapsForgotten ==
  ASSUME StepInv, snaps' \subseteq snaps, UNCHANGED <<db, edge, ncerts, env, faults>>,
         run' \in Runs, StageAtStep'
  PROVE  StepInv'
<1>0. TypeOK /\ LastOperation /\ RetriesCounted /\ CertificatesKnown /\ SnapshotsOfLast
  BY DEF StepInv
<1>1. TypeOK'
  BY <1>0 DEF TypeOK, db, env
<1>2. LastOperation' /\ RetriesCounted' /\ CertificatesKnown' /\ SnapshotsOfLast'
  BY <1>0 DEF LastOperation, RetriesCounted, CertificatesKnown,
              SnapshotsOfLast, db, Stage
<1> QED BY <1>1, <1>2 DEF StepInv

-----------------------------------------------------------------------------
\* A compare-and-set changes one row, within the type, and keeps the others.
LEMMA UpdateExpectedRow ==
  ASSUME ops \in [OpIds -> OpRows], now \in Nat, NEW o \in OpIds, NEW expected,
         NEW row \in OpRows, UpdateExpected(o, expected, row)
  PROVE  /\ ops' \in [OpIds -> OpRows]
         /\ latest' = o /\ ops[o].stage = expected
         /\ \A p \in OpIds \ {o} : ops'[p] = ops[p]
         /\ ops'[o].kind = row.kind /\ ops'[o].stage = row.stage
         /\ ops'[o].policy = row.policy /\ ops'[o].cert = row.cert
         /\ ops'[o].exp = row.exp /\ ops'[o].retry = row.retry
         /\ ops'[o].nextAt = row.nextAt /\ ops'[o].recovery = row.recovery
  BY DEF UpdateExpected, OpRows, Settled, Stage

\* The row of the last operation is written: what the write may do to it so
\* that the table stays consistent.
RowWritten(stage, c, retry) ==
  /\ ops' \in [OpIds -> OpRows]
  /\ latest' = nops
  /\ \A p \in OpIds \ {nops} : ops'[p] = ops[p]
  /\ ops'[nops].kind = ops[nops].kind /\ ops'[nops].stage = stage
  /\ ops'[nops].policy = ops[nops].policy /\ ops'[nops].cert = c
  /\ ops'[nops].retry = retry

\* A change of the stage keeps what the operation refers to.
LEMMA SetStageRow ==
  ASSUME TypeOK, nops \in OpIds, NEW expected, NEW stage \in Stages,
         NEW recovery \in Recoveries,
         SetStage(nops, expected, stage, recovery)
  PROVE  /\ ops[nops].stage = expected
         /\ RowWritten(stage, ops[nops].cert, ops[nops].retry)
<1> DEFINE row == [ops[nops] EXCEPT !.stage = stage, !.recovery = recovery]
<1>0. ops \in [OpIds -> OpRows] /\ now \in Nat
  BY DEF TypeOK
<1>1. /\ row \in OpRows /\ row.kind = ops[nops].kind /\ row.stage = stage
      /\ row.policy = ops[nops].policy /\ row.cert = ops[nops].cert
      /\ row.retry = ops[nops].retry
  <2>1. ops[nops] \in OpRows
    BY <1>0
  <2> QED BY <2>1 DEF OpRows
<1>2. UpdateExpected(nops, expected, row)
  BY DEF SetStage
<1> HIDE DEF row
<1> QED BY <1>0, <1>1, <1>2, UpdateExpectedRow DEF RowWritten

\* A failure with backoff counts one more retry than the attempt before it.
LEMMA SetErrorRow ==
  ASSUME TypeOK, PolicyAssumption, nops \in OpIds, NEW attempt \in 0..MaxOps,
         attempt < MaxOps, BoundsAssumption,
         NEW recovery \in Recoveries, SetErrorWithRetry(nops, attempt, recovery)
  PROVE  RowWritten("ERROR", ops[nops].cert, attempt + 1)
<1> DEFINE row == [ops[nops] EXCEPT !.stage = "ERROR", !.recovery = recovery,
                     !.retry = attempt + 1, !.nextAt = now + DelayAfter(attempt)]
<1>0. ops \in [OpIds -> OpRows] /\ now \in Nat /\ nops \in 0..MaxOps
  BY DEF TypeOK
<1>1. /\ row \in OpRows /\ row.kind = ops[nops].kind /\ row.stage = "ERROR"
      /\ row.policy = ops[nops].policy /\ row.cert = ops[nops].cert
      /\ row.retry = attempt + 1
  <2>1. ops[nops] \in OpRows
    BY <1>0
  <2>2. attempt + 1 \in 0..MaxOps
    BY DEF BoundsAssumption
  <2>3. now + DelayAfter(attempt) \in Nat
    <3>1. DelayAfter(attempt) \in Nat
      BY DEF PolicyAssumption
    <3> QED BY <1>0, <3>1
  <2> QED BY <2>1, <2>2, <2>3 DEF OpRows, Stages
<1>2. UpdateExpected(nops, Stage(nops), row)
  BY DEF SetErrorWithRetry
<1> HIDE DEF row
<1> QED BY <1>0, <1>1, <1>2, UpdateExpectedRow DEF RowWritten

\* An operation gets the certificate that exists for it.
LEMMA SetCertCreatedRow ==
  ASSUME TypeOK, nops \in OpIds, NEW expected, NEW c \in 0..MaxCerts,
         SetCertCreated(nops, expected, c)
  PROVE  /\ ops[nops].stage = expected
         /\ RowWritten("CERT_CREATED", c, ops[nops].retry)
<1> DEFINE row == [ops[nops] EXCEPT !.stage = "CERT_CREATED", !.cert = c,
                                    !.recovery = "none"]
<1>0. ops \in [OpIds -> OpRows] /\ now \in Nat
  BY DEF TypeOK
<1>1. /\ row \in OpRows /\ row.kind = ops[nops].kind /\ row.stage = "CERT_CREATED"
      /\ row.policy = ops[nops].policy /\ row.cert = c
      /\ row.retry = ops[nops].retry
  <2>1. ops[nops] \in OpRows
    BY <1>0
  <2> QED BY <2>1 DEF OpRows, Stages, Recoveries
<1>2. UpdateExpected(nops, expected, row)
  BY DEF SetCertCreated
<1> HIDE DEF row
<1> QED BY <1>0, <1>1, <1>2, UpdateExpectedRow DEF RowWritten

\* A write to the last row that respects its kind and its certificate, while no
\* other row and no certificate changes, keeps the table consistent.
LEMMA RowKeeps ==
  ASSUME StepInv, nops \in OpIds, NEW stage \in Stages, NEW c, NEW retry,
         RowWritten(stage, c, retry),
         UNCHANGED <<nops, managed, snaps, edge, ncerts, env>>,
         faults' \in Nat, run' \in Runs,
         stage \notin {"NONE", "NEW", "RENEWING", "ACTIVE"},
         retry <= nops, stage # "ERROR" => retry = 0,
         ops[nops].kind = "renew" => c = ops[nops].cert,
         ops[nops].kind = "issue" =>
           IF stage \in {"CERT_CREATED", "POLICY_BOUND"} THEN c \in 1..ncerts ELSE c = 0,
         stage \in Settled \/ ops[nops].stage \notin Settled,
         snaps = {} \/ stage \in {"CERT_ISSUED", "CERT_CREATED", "ERROR"},
         StageAtStep'
  PROVE  StepInv'
<1>0. TypeOK /\ LastOperation /\ RetriesCounted /\ CertificatesKnown /\ SnapshotsOfLast
  BY DEF StepInv
<1>1. nops \in 0..MaxOps /\ ops \in [OpIds -> OpRows] /\ ops' \in [OpIds -> OpRows]
  BY <1>0 DEF TypeOK, RowWritten
<1>2. TypeOK'
  BY <1>0, <1>1 DEF TypeOK, RowWritten, env
<1>3. LastOperation'
  BY <1>0, <1>1 DEF LastOperation, RowWritten, Stage, OpIds
<1>4. RetriesCounted'
  BY <1>0, <1>1 DEF RetriesCounted, RowWritten, Stage, OpIds
<1>5. CertificatesKnown'
  <2>1. managed' = managed /\ ncerts' = ncerts
    OBVIOUS
  <2>2. ASSUME NEW o \in OpIds, o # nops
        PROVE  ops'[o] = ops[o]
    BY <2>2 DEF RowWritten
  <2>3. stage \in Settled \/ ops[nops].kind = "issue" => managed = NoManaged
                                \/ stage \in Settled
    BY <1>0 DEF CertificatesKnown, Stage
  <2>4. ops[nops].kind # "none"
    BY <1>0, <1>1 DEF CertificatesKnown, LastOperation, Stage, OpIds
  <2>5. ops[nops].kind \in Kinds
    BY <1>1 DEF OpRows
  <2> QED BY <1>0, <2>1, <2>2, <2>3, <2>4, <2>5
          DEF CertificatesKnown, RowWritten, Stage, Settled, Stages, Kinds
<1>6. SnapshotsOfLast'
  BY <1>0, <1>1 DEF SnapshotsOfLast, RowWritten, Stage, OpIds
<1> QED BY <1>2, <1>3, <1>4, <1>5, <1>6 DEF StepInv
-----------------------------------------------------------------------------
\* What every step below needs to know of the types.
LEMMA StepTypes ==
  ASSUME StepInv, BoundsAssumption
  PROVE  /\ TypeOK /\ SnapshotsOfLast /\ StageAtStep /\ LastOperation
         /\ RetriesCounted /\ CertificatesKnown
         /\ run \in Runs /\ faults \in Nat /\ edge \in [CertIds -> EdgeRows]
         /\ nops \in 0..MaxOps /\ nops \in Nat /\ ncerts \in 0..MaxCerts
         /\ MaxOps \in Nat /\ MaxCerts \in Nat
         /\ run.pc \in PCs
  BY DEF StepInv, TypeOK, BoundsAssumption, Runs

\* The start of a run, and the recovery of the rollback snapshots.
LEMMA RollbackKeeps ==
  ASSUME StepInv, BoundsAssumption, Start \/ RollbackStep
  PROVE  StepInv'
<1> USE DEF Here, At, NoSnapshotPCs, RestorePCs, IssuePCs, RenewPCs, DecidePCs
<1>0. /\ TypeOK /\ SnapshotsOfLast /\ StageAtStep /\ LastOperation /\ CertificatesKnown
      /\ run \in Runs /\ faults \in Nat /\ edge \in [CertIds -> EdgeRows]
      /\ nops \in 0..MaxOps /\ nops \in Nat
  BY StepTypes
<1>1. ASSUME NEW m \in Modes, StartRun(m)
      PROVE  StepInv'
  <2>1. UNCHANGED <<db, snaps, edge, ncerts, env, faults>>
    BY <1>1 DEF StartRun, edgeVars
  <2>2. run' \in Runs
    BY <1>1, <1>0 DEF StartRun, Idle, Runs, PCs, BoundsAssumption
  <2>3. StageAtStep'
    BY <1>1, <1>0, <2>1 DEF StartRun, Idle, StageAtStep, db
  <2> QED BY <1>0, <2>1, <2>2, <2>3, QuietKeeps
<1>2. CASE RollbackVerifyNew
  <2>1. UNCHANGED <<db, snaps, edge, ncerts, env>>
    BY <1>2 DEF RollbackVerifyNew, edgeVars
  <2>2. PICK s \in snaps : \/ /\ Serves(s.new)
                              /\ run' = [run EXCEPT !.pc = "rollback_read", !.cur = s.op]
                              /\ UNCHANGED faults
                           \/ /\ TLSTimeout(s.new)
                              /\ run' = [run EXCEPT !.pc = "restore", !.cur = s.op]
    BY <1>2 DEF RollbackVerifyNew
  <2>3. faults' \in Nat
    BY <1>0, <2>2, TimeoutTyped
  <2>4. /\ s.op = nops /\ ops[nops].kind = "renew"
        /\ Stage(nops) \in {"CERT_ISSUED", "CERT_CREATED", "ERROR"}
        /\ nops \in OpIds
    BY <1>0, <2>2 DEF SnapshotsOfLast, TypeOK, Snapshots
  <2>5. /\ run' \in Runs /\ run'.cur = nops /\ run'.attempt = run.attempt
        /\ run'.pc \in {"rollback_read", "restore"}
    BY <1>0, <2>2, <2>4 DEF Runs, PCs
  <2>6. StageAtStep'
    BY <1>0, <2>1, <2>4, <2>5 DEF StageAtStep, db, Stage, OpIds
  <2> QED BY <1>0, <2>1, <2>3, <2>5, <2>6, QuietKeeps
<1>3. CASE RollbackReadBack
  <2>1. run.pc = "rollback_read" /\ run.cur = nops /\ nops \in OpIds
        /\ ops[nops].kind = "renew"
    BY <1>0, <1>3 DEF RollbackReadBack, StageAtStep, OpIds
  <2>2. PICK s \in SnapshotOf(nops) :
       \/ /\ Content(s.cert) = s.new
          /\ IF Stage(s.op) = "CERT_ISSUED"
             THEN SetCertCreated(s.op, "CERT_ISSUED", ops[s.op].cert)
             ELSE UNCHANGED <<ops, latest>>
          /\ Goto("rollback_forget")
          /\ UNCHANGED faults
       \/ /\ IF Content(s.cert) = s.new THEN Fault("rpc") ELSE UNCHANGED faults
          /\ Exit
          /\ UNCHANGED <<ops, latest>>
    BY <1>3, <2>1 DEF RollbackReadBack
  <2>3. s \in snaps /\ s.op = nops
    BY <2>2 DEF SnapshotOf
  <2>4. UNCHANGED <<nops, managed, snaps, edge, ncerts, env>>
    BY <1>3 DEF RollbackReadBack, edgeVars
  <2>5. faults' \in Nat
    BY <1>0, <2>2, FaultTyped
  <2>6. CASE Goto("rollback_forget") /\ Stage(nops) = "CERT_ISSUED"
             /\ SetCertCreated(nops, "CERT_ISSUED", ops[nops].cert)
    <3>1. run' \in Runs /\ run'.cur = nops /\ run'.pc = "rollback_forget"
          /\ run'.attempt = run.attempt
      BY <1>0, <2>1, <2>6, GotoFields DEF PCs
    <3>2. ops[nops].cert \in 0..MaxCerts
      BY <1>0, <2>1 DEF TypeOK, OpRows
    <3>3. RowWritten("CERT_CREATED", ops[nops].cert, ops[nops].retry)
      BY <1>0, <2>1, <2>6, <3>2, SetCertCreatedRow
    <3>4. StageAtStep'
      BY <1>0, <2>1, <2>4, <3>1, <3>3 DEF StageAtStep, Stage, RowWritten
    <3>5. ops[nops].retry <= nops /\ ops[nops].retry = 0
      BY <1>0, <2>1, <2>6, StepTypes DEF RetriesCounted
    <3> QED BY <2>1, <2>4, <2>5, <2>6, <3>1, <3>3, <3>4, <3>5, RowKeeps
            DEF Stages, Stage, Settled
  <2>7. CASE Goto("rollback_forget") /\ UNCHANGED <<ops, latest>>
    <3>1. run' \in Runs /\ run'.cur = nops /\ run'.pc = "rollback_forget"
          /\ run'.attempt = run.attempt
      BY <1>0, <2>1, <2>7, GotoFields DEF PCs
    <3>2. StageAtStep'
      BY <1>0, <2>1, <2>4, <2>7, <3>1 DEF StageAtStep, Stage
    <3> QED BY <1>0, <2>4, <2>5, <2>7, <3>1, <3>2, QuietKeeps DEF db
  <2>8. CASE Exit /\ UNCHANGED <<ops, latest>>
    BY <1>0, <2>4, <2>5, <2>8, QuietKeeps, ExitFields, ExitKeepsStep DEF db
  <2> QED BY <2>2, <2>3, <2>6, <2>7, <2>8
<1>4. CASE RollbackForget
  <2>1. run.pc = "rollback_forget" /\ run.cur = nops /\ nops \in OpIds
    BY <1>0, <1>4 DEF RollbackForget, StageAtStep, OpIds
  <2>2. run' \in Runs /\ run'.cur = nops /\ run'.pc = "rollbacks"
        /\ run'.attempt = run.attempt
    BY <1>0, <1>4, <2>1, GotoFields DEF RollbackForget, PCs
  <2>3. UNCHANGED <<db, edge, ncerts, env, faults>> /\ snaps' \subseteq snaps
    BY <1>4 DEF RollbackForget, edgeVars
  <2>4. StageAtStep'
    BY <1>0, <2>2, <2>3 DEF StageAtStep, Stage, db
  <2> QED BY <2>2, <2>3, <2>4, SnapsForgotten
<1>5. CASE RollbacksDone
  <2>1. UNCHANGED <<db, snaps, edge, ncerts, env, faults>> /\ snaps = {}
    BY <1>5 DEF RollbacksDone, edgeVars
  <2>2. run' \in Runs /\ run'.cur = run.cur /\ run'.pc = "recover"
        /\ run'.attempt = run.attempt
    BY <1>0, <1>5 DEF RollbacksDone, Runs, PCs, InFlight
  <2>3. StageAtStep'
    BY <1>0, <2>1, <2>2 DEF StageAtStep, Stage, db
  <2> QED BY <1>0, <2>1, <2>2, <2>3, QuietKeeps
<1> QED BY <1>1, <1>2, <1>3, <1>4, <1>5 DEF Start, RollbackStep

\* Writing to the managed certificate that the last attempt failed changes none
\* of what it refers to.
LEMMA ManagedErrorKeeps ==
  ASSUME StepInv, RecordManagedError, managed # NoManaged,
         UNCHANGED <<ops, nops, latest, snaps, edge, ncerts, env, faults>>,
         run' \in Runs, StageAtStep'
  PROVE  StepInv'
<1>0. TypeOK /\ LastOperation /\ RetriesCounted /\ CertificatesKnown /\ SnapshotsOfLast
  BY DEF StepInv
<1>1. /\ managed' \in ManagedRows /\ managed'.state = "ERROR"
      /\ managed'.cert = managed.cert /\ managed'.policy = managed.policy
  BY <1>0 DEF RecordManagedError, TypeOK, ManagedRows
<1>2. managed' # NoManaged
  BY <1>1 DEF NoManaged
<1>3. TypeOK'
  BY <1>0, <1>1 DEF TypeOK, env
<1>4. LastOperation' /\ RetriesCounted' /\ SnapshotsOfLast'
  BY <1>0, <1>1 DEF LastOperation, RetriesCounted, SnapshotsOfLast, Stage
<1>5. CertificatesKnown'
  BY <1>0, <1>1, <1>2 DEF CertificatesKnown, Stage
<1> QED BY <1>3, <1>4, <1>5 DEF StepInv

\* Bringing back the old certificate.
LEMMA RestoreKeeps ==
  ASSUME StepInv, BoundsAssumption, PolicyAssumption, RestoreStep
  PROVE  StepInv'
<1> USE DEF Here, At, NoSnapshotPCs, RestorePCs, IssuePCs, RenewPCs, DecidePCs
<1>0. /\ TypeOK /\ SnapshotsOfLast /\ StageAtStep /\ LastOperation
      /\ RetriesCounted /\ CertificatesKnown
      /\ run \in Runs /\ faults \in Nat /\ edge \in [CertIds -> EdgeRows]
      /\ nops \in 0..MaxOps /\ nops \in Nat
  BY StepTypes
<1>1. run.pc \in RestorePCs => /\ run.cur = nops /\ nops \in OpIds
                               /\ ops[nops].kind = "renew"
                               /\ ops[nops].stage \in {"CERT_ISSUED", "CERT_CREATED", "ERROR"}
  BY <1>0 DEF StageAtStep, OpIds, Stage
<1>2. CASE RestoreUpdate
  <2>1. run.pc = "restore" /\ Goto("restore_tls")
    BY <1>2 DEF RestoreUpdate
  <2>2. PICK s \in SnapshotOf(run.cur) :
       \/ PutCert(s.cert, edge[s.cert].mark, s.old) /\ UNCHANGED faults
       \/ Fault("restore") /\ UNCHANGED edge
    BY <1>2 DEF RestoreUpdate
  <2>3. s.cert \in CertIds /\ s.old \in 0..MaxOps
    BY <1>0, <2>2 DEF SnapshotOf, TypeOK, Snapshots
  <2>4. edge' \in [CertIds -> EdgeRows] /\ faults' \in Nat
    <3>1. edge[s.cert].mark \in 0..MaxOps
      BY <1>0, <2>3 DEF EdgeRows
    <3> QED BY <1>0, <2>2, <2>3, <3>1, PutCertTyped, FaultTyped
  <2>5. UNCHANGED <<db, snaps, ncerts, env>>
    BY <1>2 DEF RestoreUpdate
  <2>6. run' \in Runs /\ run'.cur = nops /\ run'.pc = "restore_tls"
        /\ run'.attempt = run.attempt
    BY <1>0, <1>1, <2>1, GotoFields DEF PCs
  <2>7. StageAtStep'
    BY <1>0, <1>1, <2>1, <2>5, <2>6 DEF StageAtStep, Stage, db
  <2> QED BY <2>4, <2>5, <2>6, <2>7, QuietKeeps
<1>3. CASE RestoreVerifyOld
  <2>1. run.pc = "restore_tls" /\ UNCHANGED <<db, snaps, edge, ncerts, env>>
    BY <1>3 DEF RestoreVerifyOld, edgeVars
  <2>2. PICK s \in SnapshotOf(run.cur) :
       \/ Serves(s.old) /\ Goto("restore_op") /\ UNCHANGED faults
       \/ /\ TLSTimeout(s.old)
          /\ IF run.phase = "rollback" THEN Exit ELSE Fail("step")
    BY <1>3 DEF RestoreVerifyOld
  <2>3. faults' \in Nat
    BY <1>0, <2>2, TimeoutTyped
  <2>4. CASE Goto("restore_op")
    <3>1. run' \in Runs /\ run'.cur = nops /\ run'.pc = "restore_op"
          /\ run'.attempt = run.attempt
      BY <1>0, <1>1, <2>1, <2>4, GotoFields DEF PCs
    <3>2. StageAtStep'
      BY <1>0, <1>1, <2>1, <3>1 DEF StageAtStep, Stage, db
    <3> QED BY <1>0, <2>1, <2>3, <3>1, <3>2, QuietKeeps
  <2>5. CASE Exit
    BY <1>0, <2>1, <2>3, <2>5, QuietKeeps, ExitFields, ExitKeepsStep DEF db
  <2>6. CASE Fail("step")
    <3>1. run' \in Runs /\ run'.cur = nops /\ run'.pc = "record"
          /\ run'.attempt = run.attempt /\ run'.cause = "step"
      BY <1>0, <1>1, <2>1, <2>6, FailFields
    <3>2. StageAtStep'
      BY <1>0, <1>1, <2>1, <3>1 DEF StageAtStep, Stage, db
    <3> QED BY <1>0, <2>1, <2>3, <3>1, <3>2, QuietKeeps
  <2> QED BY <2>2, <2>4, <2>5, <2>6
<1>4. CASE RestoreRecordOperation
  <2>1. run.pc = "restore_op" /\ Goto("restore_managed")
        /\ UNCHANGED <<nops, managed, snaps, edge, ncerts, env, faults>>
    BY <1>4 DEF RestoreRecordOperation, edgeVars
  <2>2. run' \in Runs /\ run'.cur = nops /\ run'.pc = "restore_managed"
        /\ run'.attempt = run.attempt
    BY <1>0, <1>1, <2>1, GotoFields DEF PCs
  <2>3. CASE Stage(nops) = "ERROR" /\ UNCHANGED <<ops, latest>>
    <3>1. StageAtStep'
      BY <1>0, <1>1, <2>1, <2>2, <2>3 DEF StageAtStep, Stage
    <3> QED BY <1>0, <2>1, <2>2, <2>3, <3>1, QuietKeeps DEF db
  <2>4. CASE Stage(nops) # "ERROR"
             /\ SetErrorWithRetry(nops, ops[nops].retry, "retry-new-order")
    <3>1. ops[nops].retry = 0
      BY <1>0, <1>1, <2>1, <2>4 DEF RetriesCounted
    <3>2. RowWritten("ERROR", ops[nops].cert, 1)
      <4>1. SetErrorWithRetry(nops, 0, "retry-new-order") /\ 0 \in 0..MaxOps /\ 0 < MaxOps
        BY <2>4, <3>1, <1>1, <2>1 DEF OpIds, BoundsAssumption
      <4> QED BY <1>0, <1>1, <2>1, <4>1, SetErrorRow DEF Recoveries
    <3>3. StageAtStep'
      BY <1>0, <1>1, <2>1, <2>2, <3>2 DEF StageAtStep, Stage, RowWritten
    <3>4. 1 <= nops
      BY <1>0, <1>1, <2>1 DEF OpIds
    <3> QED BY <1>0, <1>1, <2>1, <2>2, <3>2, <3>3, <3>4, RowKeeps
            DEF Stages, Settled
  <2> QED BY <1>1, <1>4, <2>1, <2>3, <2>4 DEF RestoreRecordOperation
<1>5. CASE RestoreRecordManaged
  <2>1. run.pc = "restore_managed" /\ Goto("restore_forget") /\ RecordManagedError
        /\ UNCHANGED <<ops, nops, latest, snaps, edge, ncerts, env, faults>>
    BY <1>5 DEF RestoreRecordManaged, edgeVars
  <2>2. run' \in Runs /\ run'.cur = nops /\ run'.pc = "restore_forget"
        /\ run'.attempt = run.attempt
    BY <1>0, <1>1, <2>1, GotoFields DEF PCs
  <2>3. StageAtStep'
    BY <1>0, <1>1, <2>1, <2>2 DEF StageAtStep, Stage
  <2>4. managed # NoManaged
    BY <1>0, <1>1, <2>1 DEF CertificatesKnown
  <2> QED BY <2>1, <2>2, <2>3, <2>4, ManagedErrorKeeps
<1>6. CASE RestoreForget
  <2>1. run.pc = "restore_forget" /\ UNCHANGED <<db, edge, ncerts, env, faults>>
        /\ snaps' \subseteq snaps /\ (Goto("rollbacks") \/ Fail("step"))
    BY <1>6 DEF RestoreForget, edgeVars
  <2>2. run' \in Runs /\ run'.cur = nops /\ run'.attempt = run.attempt
        /\ (run'.pc = "rollbacks" \/ (run'.pc = "record" /\ run'.cause = "step"))
    <3>0. run.cur = nops
      BY <1>1, <2>1
    <3>1. CASE Goto("rollbacks")
      <4>1. "rollbacks" \in PCs
        BY DEF PCs
      <4> QED BY <1>0, <3>0, <3>1, <4>1, GotoFields
    <3>2. CASE Fail("step")
      BY <1>0, <3>0, <3>2, FailFields
    <3> QED BY <2>1, <3>1, <3>2
  <2>3. StageAtStep'
    BY <1>0, <1>1, <2>1, <2>2 DEF StageAtStep, Stage, db
  <2> QED BY <2>1, <2>2, <2>3, SnapsForgotten
<1> QED BY <1>2, <1>3, <1>4, <1>5, <1>6 DEF RestoreStep

\* Closing what an earlier run left in flight.
LEMMA RecoverKeeps ==
  ASSUME StepInv, RecoveryOwesAll, BoundsAssumption, PolicyAssumption, RecoverStep
  PROVE  StepInv'
<1> USE DEF Here, At, NoSnapshotPCs, RestorePCs, IssuePCs, RenewPCs, DecidePCs
<1>0. /\ TypeOK /\ SnapshotsOfLast /\ StageAtStep /\ LastOperation
      /\ RetriesCounted /\ CertificatesKnown
      /\ run \in Runs /\ faults \in Nat /\ edge \in [CertIds -> EdgeRows]
      /\ nops \in 0..MaxOps /\ nops \in Nat
  BY StepTypes
<1>1. ASSUME NEW o \in run.todo
      PROVE  /\ o = nops /\ nops \in OpIds /\ Stage(nops) \notin Settled
             /\ o \in InFlight
  BY <1>0 DEF RecoveryOwesAll, InFlight, LastOperation, OpIds, Settled
<1>2. CASE FailInterrupted
  <2>1. PICK o \in run.todo :
          /\ Stage(o) \in {"NEW", "RENEWING", "CHALLENGE_PRESENT"}
          /\ SetStage(o, Stage(o), "ERROR", "retry-new-order")
          /\ run' = [run EXCEPT !.todo = @ \ {o}]
    BY <1>2 DEF FailInterrupted
  <2>2. run.pc = "recover" /\ snaps = {}
        /\ UNCHANGED <<nops, managed, snaps, edge, ncerts, env, faults>>
    BY <1>0, <1>2 DEF FailInterrupted, edgeVars, StageAtStep
  <2>8. run' \in Runs /\ run'.pc = "recover" /\ run'.cur = run.cur
        /\ run'.attempt = run.attempt
    BY <1>0, <2>1, <2>2 DEF Runs
  <2>3. nops \in OpIds /\ Stage(nops) \in {"NEW", "RENEWING", "CHALLENGE_PRESENT"}
        /\ SetStage(nops, Stage(nops), "ERROR", "retry-new-order")
    BY <1>1, <2>1
  <2>4. RowWritten("ERROR", ops[nops].cert, ops[nops].retry)
    BY <1>0, <2>3, SetStageRow DEF Stages, Recoveries
  <2>5. StageAtStep'
    BY <1>0, <2>2, <2>3, <2>4, <2>8 DEF StageAtStep, Stage, RowWritten
  <2>6. ops[nops].retry <= nops /\ ops[nops].cert \in 0..MaxCerts
    BY <1>0, <2>3 DEF RetriesCounted, TypeOK, OpRows
  <2>7. ops[nops].kind = "issue" => ops[nops].cert = 0
    BY <1>0, <2>3 DEF CertificatesKnown
  <2> QED BY <1>0, <2>2, <2>3, <2>4, <2>5, <2>6, <2>7, <2>8, RowKeeps
          DEF Stages, Settled
<1>3. CASE ContinueInterrupted
  <2>1. PICK o \in run.todo :
          /\ Stage(o) \in {"CERT_ISSUED", "CERT_CREATED", "POLICY_BOUND"}
          /\ run' = [run EXCEPT !.pc = ContinueAt(o), !.cur = o, !.todo = @ \ {o}]
    BY <1>3 DEF ContinueInterrupted
  <2>2. run.pc = "recover" /\ snaps = {}
        /\ UNCHANGED <<db, snaps, edge, ncerts, env, faults>>
    BY <1>0, <1>3 DEF ContinueInterrupted, edgeVars, StageAtStep
  <2>3. /\ nops \in OpIds /\ nops > 0
        /\ Stage(nops) \in {"CERT_ISSUED", "CERT_CREATED", "POLICY_BOUND"}
        /\ run' = [run EXCEPT !.pc = ContinueAt(nops), !.cur = nops,
                              !.todo = @ \ {nops}]
    <3>1. o = nops /\ nops \in OpIds
      BY <1>1
    <3> QED BY <1>0, <2>1, <3>1 DEF OpIds
  <2>4. ops[nops].kind \in {"issue", "renew"}
    BY <1>0, <2>3 DEF CertificatesKnown, TypeOK, OpRows, Kinds
  <2>5. \/ /\ Stage(nops) = "CERT_ISSUED" /\ ops[nops].kind = "issue"
           /\ ContinueAt(nops) = "find"
        \/ /\ Stage(nops) = "CERT_ISSUED" /\ ops[nops].kind = "renew"
           /\ ContinueAt(nops) = "compare"
        \/ Stage(nops) = "CERT_CREATED" /\ ContinueAt(nops) = "binding"
        \/ Stage(nops) = "POLICY_BOUND" /\ ContinueAt(nops) = "activate"
    BY <2>3, <2>4 DEF ContinueAt
  <2>6. /\ run' \in Runs /\ run'.cur = nops /\ run'.attempt = run.attempt
        /\ run'.pc = ContinueAt(nops)
    BY <1>0, <2>3, <2>5 DEF Runs, PCs
  <2>7. StageAtStep'
    BY <1>0, <2>2, <2>3, <2>5, <2>6 DEF StageAtStep, Stage, db
  <2> QED BY <1>0, <2>2, <2>6, <2>7, QuietKeeps
<1>4. CASE RecoveryDone
  <2>1. run.pc = "recover" /\ snaps = {} /\ InFlight = {} /\ Goto("decide")
        /\ UNCHANGED <<db, snaps, edge, ncerts, env, faults>>
    BY <1>0, <1>4 DEF RecoveryDone, RecoveryOwesAll, edgeVars, StageAtStep
  <2>2. nops = 0 \/ Stage(nops) \in Settled
    BY <1>0, <2>1 DEF InFlight, LastOperation, OpIds
  <2>3. /\ run' \in Runs /\ run'.cur = run.cur /\ run'.attempt = run.attempt
        /\ run'.pc = "decide"
    BY <1>0, <2>1, GotoFields DEF PCs
  <2>4. StageAtStep'
    BY <1>0, <2>1, <2>2, <2>3 DEF StageAtStep, Stage, db
  <2> QED BY <1>0, <2>1, <2>3, <2>4, QuietKeeps
<1>5. CASE KeyUnavailable
  <2>1. /\ run.pc = "reissue" /\ run.cur = nops /\ nops \in OpIds /\ nops > 0
        /\ ops[nops].stage = "CERT_ISSUED" /\ snaps = {}
        /\ UNCHANGED <<nops, managed, snaps, edge, ncerts, env, faults>>
    BY <1>0, <1>5 DEF KeyUnavailable, StageAtStep, OpIds, edgeVars, Stage
  <2>2. ops[nops].retry = 0 /\ (ops[nops].kind = "issue" => ops[nops].cert = 0)
    BY <1>0, <2>1 DEF RetriesCounted, CertificatesKnown, Stage
  <2>3. RowWritten("ERROR", ops[nops].cert, 1)
    <3>1. SetErrorWithRetry(nops, 0, "retry-new-order") /\ 0 \in 0..MaxOps /\ 0 < MaxOps
      BY <1>5, <2>1, <2>2 DEF KeyUnavailable, OpIds, BoundsAssumption
    <3> QED BY <1>0, <2>1, <3>1, SetErrorRow DEF Recoveries
  <2>4. run' \in Runs /\ run'.cur = 0 /\ run'.pc = "recover" /\ run'.attempt = run.attempt
    <3>1. run' = [run EXCEPT !.pc = "recover", !.cur = 0, !.cause = "none"]
      BY <1>5 DEF KeyUnavailable
    <3>2. 0 \in 0..MaxOps
      BY StepTypes
    <3> QED BY <1>0, <3>1, <3>2 DEF Runs, PCs
  <2>5. StageAtStep'
    BY <1>0, <2>1, <2>3, <2>4 DEF StageAtStep, Stage, RowWritten
  <2> QED BY <1>0, <2>1, <2>2, <2>3, <2>4, <2>5, RowKeeps DEF Stages, Settled
<1> QED BY <1>2, <1>3, <1>4, <1>5 DEF RecoverStep

\* A new operation gets the next row, when no other is in flight.
LEMMA CreateKeeps ==
  ASSUME StepInv, BoundsAssumption,
         NEW kind \in {"issue", "renew"}, NEW stage \in {"NEW", "RENEWING"},
         NEW policy \in Policies \cup {"none"}, NEW c \in 0..MaxCerts,
         nops < MaxOps, CreateOperation(kind, stage, policy, c),
         kind = "issue" => stage = "NEW" /\ c = 0 /\ managed = NoManaged,
         kind = "renew" => /\ stage = "RENEWING" /\ managed # NoManaged
                           /\ c = managed.cert /\ policy = managed.policy,
         snaps = {}, UNCHANGED <<managed, snaps, edge, ncerts, env, faults>>,
         run' = [run EXCEPT !.pc = "present", !.cur = nops + 1, !.phase = "fresh"]
  PROVE  StepInv'
<1> DEFINE row == [NoOp EXCEPT !.kind = kind, !.stage = stage, !.policy = policy,
                               !.cert = c]
<1>0. /\ TypeOK /\ StageAtStep /\ LastOperation /\ RetriesCounted /\ CertificatesKnown
      /\ run \in Runs /\ nops \in 0..MaxOps /\ nops \in Nat /\ MaxOps \in Nat
  BY StepTypes
<1>1. nops + 1 \in OpIds /\ nops' = nops + 1 /\ latest' = nops + 1 /\ InFlight = {}
      /\ ops' = [ops EXCEPT ![nops + 1] = row]
  BY <1>0 DEF CreateOperation, OpIds
<1>2. /\ row \in OpRows /\ row.kind = kind /\ row.stage = stage
      /\ row.policy = policy /\ row.cert = c /\ row.retry = 0
  <2>1. NoOp \in OpRows /\ NoOp.retry = 0
    <3>1. MaxOps \in Nat /\ MaxCerts \in Nat
      BY StepTypes
    <3> QED BY <3>1 DEF NoOp, OpRows, Kinds, Stages, Recoveries
  <2> QED BY <2>1 DEF OpRows, Kinds, Stages
<1> HIDE DEF row
<1>3. /\ ops' \in [OpIds -> OpRows] /\ ops'[nops + 1] = row
      /\ \A o \in OpIds : o # nops + 1 => ops'[o] = ops[o]
  BY <1>0, <1>1, <1>2 DEF TypeOK
<1>4. run' \in Runs /\ run'.cur = nops + 1 /\ run'.pc = "present"
      /\ run'.attempt = run.attempt
  <2>1. nops + 1 \in 0..MaxOps
    BY <1>0
  <2> QED BY <1>0, <2>1 DEF Runs, PCs
<1>5. \A o \in OpIds : o <= nops => Stage(o) \in Settled
  BY <1>0, <1>1 DEF InFlight, LastOperation, OpIds
<1>6. TypeOK'
  BY <1>0, <1>1, <1>3, <1>4 DEF TypeOK, env, OpIds
<1>7. LastOperation'
  BY <1>0, <1>1, <1>2, <1>3, <1>5 DEF LastOperation, Stage, OpIds
<1>8. RetriesCounted'
  BY <1>0, <1>1, <1>2, <1>3 DEF RetriesCounted, Stage, OpIds
<1>9. CertificatesKnown'
  BY <1>0, <1>1, <1>2, <1>3, <1>5 DEF CertificatesKnown, Stage, OpIds, Settled
<1>10. SnapshotsOfLast'
  BY DEF SnapshotsOfLast
<1>11. StageAtStep'
  <2>1. run.attempt < nops' /\ run'.attempt <= nops' /\ snaps' = {}
        /\ ops'[nops'].stage = stage
    BY <1>0, <1>1, <1>2, <1>3, <1>4 DEF StageAtStep, Runs, Stage, OpIds
  <2> QED BY <1>0, <1>1, <1>2, <1>3, <1>4, <2>1
     DEF StageAtStep, Stage, OpIds, Here, At, NoSnapshotPCs, RestorePCs,
         IssuePCs, RenewPCs, DecidePCs
<1> QED BY <1>6, <1>7, <1>8, <1>9, <1>10, <1>11 DEF StepInv

\* Deciding whether this run has anything to do.
LEMMA DecideKeeps ==
  ASSUME StepInv, BoundsAssumption, PolicyAssumption, DecideStep
  PROVE  StepInv'
<1> USE DEF Here, At, NoSnapshotPCs, RestorePCs, IssuePCs, RenewPCs, DecidePCs
<1>0. /\ TypeOK /\ SnapshotsOfLast /\ StageAtStep /\ LastOperation
      /\ RetriesCounted /\ CertificatesKnown
      /\ run \in Runs /\ faults \in Nat /\ edge \in [CertIds -> EdgeRows]
      /\ nops \in 0..MaxOps /\ nops \in Nat /\ MaxOps \in Nat /\ MaxCerts \in Nat
  BY StepTypes
<1>1. run.pc \in DecidePCs => /\ snaps = {}
                              /\ nops = 0 \/ (nops \in OpIds /\ Stage(nops) \in Settled)
  BY <1>0 DEF StageAtStep, OpIds
<1>2. ASSUME NEW a, a \in 0..nops, UNCHANGED <<snaps, nops, managed>>,
             run.pc \in DecidePCs, nops = 0 \/ Stage(nops)' \in Settled,
             run' = [run EXCEPT !.pc = "discover", !.attempt = a]
      PROVE  run' \in Runs /\ StageAtStep'
  <2>1. /\ run' \in Runs /\ run'.cur = run.cur /\ run'.attempt = a
        /\ run'.pc = "discover"
    <3>1. a \in 0..MaxOps
      BY <1>0, <1>2
    <3> QED BY <1>0, <1>2, <3>1 DEF Runs, PCs
  <2>2. StageAtStep'
    BY <1>0, <1>1, <1>2, <2>1 DEF StageAtStep
  <2> QED BY <2>1, <2>2
<1>3. CASE DecideFirstIssue
  <2>1. run.pc = "decide" /\ UNCHANGED <<nops, latest, managed, snaps, edge, ncerts, env, faults>>
        /\ latest = nops
    BY <1>0, <1>3 DEF DecideFirstIssue, LastOperation, edgeVars
  <2>2. CASE UNCHANGED ops
    <3>1. CASE Exit
      BY <1>0, <2>1, <2>2, <3>1, QuietKeeps, ExitFields, ExitKeepsStep DEF db
    <3>2. ASSUME NEW a \in FirstIssueAttempt,
                 run' = [run EXCEPT !.pc = "discover", !.attempt = a]
          PROVE  StepInv'
      <4>1. a \in 0..nops
        BY <1>0, <1>1, <2>1, <3>2 DEF FirstIssueAttempt, RetriesCounted, TypeOK, OpRows
      <4>2. nops = 0 \/ Stage(nops)' \in Settled
        BY <1>1, <2>1, <2>2 DEF Stage
      <4>3. run' \in Runs /\ StageAtStep'
        BY <1>2, <2>1, <3>2, <4>1, <4>2
      <4> QED BY <1>0, <2>1, <2>2, <4>3, QuietKeeps DEF db
    <3> QED BY <1>3, <3>1, <3>2 DEF DecideFirstIssue
  <2>3. CASE nops # 0 /\ FirstIssueFailure(nops)
             /\ ops' = [ops EXCEPT ![nops].recovery = "needs-attention"]
    <3>1. nops \in OpIds /\ ops[nops].kind = "issue" /\ ops[nops].stage = "ERROR"
          /\ ops[nops].cert = 0
      BY <1>1, <2>1, <2>3 DEF FirstIssueFailure, Stage
    <3>2. RowWritten("ERROR", 0, ops[nops].retry)
      <4>1. ops[nops] \in OpRows /\ ops \in [OpIds -> OpRows]
        BY <1>0, <3>1 DEF TypeOK
      <4>2. ops' = [ops EXCEPT ![nops] = [ops[nops] EXCEPT !.recovery = "needs-attention"]]
        BY <2>3
      <4>3. [ops[nops] EXCEPT !.recovery = "needs-attention"] \in OpRows
        BY <4>1 DEF OpRows, Recoveries
      <4>4. ops' \in [OpIds -> OpRows]
        BY <4>1, <4>2, <4>3
      <4> QED BY <2>1, <3>1, <4>1, <4>2, <4>4 DEF RowWritten, OpRows
    <3>3. ops[nops].retry \in 0..nops
      BY <1>0, <3>1 DEF RetriesCounted, TypeOK, OpRows
    <3>4. nops = 0 \/ Stage(nops)' \in Settled
      BY <2>1, <3>2 DEF Stage, RowWritten, Settled
    <3>5. run' \in Runs /\ StageAtStep'
      <4>1. CASE Exit
        BY <1>0, <2>1, <4>1, ExitFields, ExitKeepsStep
      <4>2. ASSUME NEW a \in FirstIssueAttempt,
                   run' = [run EXCEPT !.pc = "discover", !.attempt = a]
            PROVE  run' \in Runs /\ StageAtStep'
        <5>1. a = 0 \/ a = ops[nops].retry
          BY <2>1, <4>2 DEF FirstIssueAttempt
        <5>2. a \in 0..nops
          BY <1>0, <3>3, <5>1
        <5> QED BY <1>2, <2>1, <3>4, <4>2, <5>2
      <4> QED BY <1>3, <4>1, <4>2 DEF DecideFirstIssue
    <3> QED BY <1>0, <1>1, <2>1, <3>1, <3>2, <3>3, <3>5, RowKeeps DEF Stages, Settled
  <2> QED BY <1>3, <2>1, <2>2, <2>3 DEF DecideFirstIssue, NormalizeFirstIssueFailure
<1>4. CASE DecideRenewal
  <2>1. run.pc = "decide" /\ UNCHANGED <<db, snaps, edge, ncerts, env, faults>>
        /\ latest = nops
    BY <1>0, <1>4 DEF DecideRenewal, LastOperation, edgeVars
  <2>2. CASE Exit
    BY <1>0, <2>1, <2>2, QuietKeeps, ExitFields, ExitKeepsStep DEF db
  <2>3. CASE run' = [run EXCEPT !.pc = "discover", !.attempt = Backoff.attempt]
    <3>1. Backoff.attempt \in 0..nops
      BY <1>0, <1>1, <2>1 DEF Backoff, RetriesCounted, TypeOK, OpRows
    <3>2. nops = 0 \/ Stage(nops)' \in Settled
      BY <1>1, <2>1 DEF Stage, db
    <3>3. run' \in Runs /\ StageAtStep'
      BY <1>2, <2>1, <2>3, <3>1, <3>2 DEF db
    <3> QED BY <1>0, <2>1, <3>3, QuietKeeps
  <2> QED BY <1>4, <2>2, <2>3 DEF DecideRenewal
<1>5. CASE ReadFails
  <2>1. UNCHANGED <<db, snaps, edge, ncerts, env>> /\ faults' \in Nat /\ Exit
    BY <1>0, <1>5, FaultTyped DEF ReadFails, edgeVars
  <2> QED BY <1>0, <2>1, QuietKeeps, ExitFields, ExitKeepsStep DEF db
<1>6. CASE StartIssue
  <2>1. /\ managed = NoManaged /\ nops < MaxOps
        /\ CreateOperation("issue", "NEW", target, 0) /\ snaps = {}
        /\ UNCHANGED <<managed, snaps, edge, ncerts, env, faults>>
        /\ run' = [run EXCEPT !.pc = "present", !.cur = nops + 1, !.phase = "fresh"]
    BY <1>1, <1>6 DEF StartIssue, edgeVars
  <2>2. target \in Policies \cup {"none"} /\ 0 \in 0..MaxCerts
    BY <1>0 DEF TypeOK
  <2> QED BY <2>1, <2>2, CreateKeeps
<1>7. CASE DiscoverManaged
  <2>1. /\ run.pc = "discover" /\ managed # NoManaged /\ (Goto("check") \/ Exit)
        /\ UNCHANGED <<db, snaps, edge, ncerts, env, faults>>
    BY <1>7 DEF DiscoverManaged, edgeVars
  <2>2. CASE Exit
    BY <1>0, <2>1, <2>2, QuietKeeps, ExitFields, ExitKeepsStep DEF db
  <2>3. CASE Goto("check")
    <3>1. /\ run' \in Runs /\ run'.cur = run.cur /\ run'.attempt = run.attempt
          /\ run'.pc = "check"
      BY <1>0, <2>3, GotoFields DEF PCs
    <3>2. StageAtStep'
      BY <1>0, <1>1, <2>1, <3>1 DEF StageAtStep, Stage, db
    <3> QED BY <1>0, <2>1, <3>1, <3>2, QuietKeeps
  <2> QED BY <2>1, <2>2, <2>3
<1>8. CASE StartRenew
  <2>1. /\ managed # NoManaged /\ nops < MaxOps
        /\ CreateOperation("renew", "RENEWING", managed.policy, managed.cert)
        /\ snaps = {} /\ UNCHANGED <<managed, snaps, edge, ncerts, env, faults>>
        /\ run' = [run EXCEPT !.pc = "present", !.cur = nops + 1, !.phase = "fresh"]
    BY <1>0, <1>1, <1>8 DEF StartRenew, edgeVars, StageAtStep
  <2>2. managed.policy \in Policies \cup {"none"} /\ managed.cert \in 0..MaxCerts
    BY <1>0 DEF TypeOK, ManagedRows
  <2> QED BY <2>1, <2>2, CreateKeeps
<1>9. CASE NothingToDo
  <2>1. UNCHANGED <<db, snaps, edge, ncerts, env, faults>> /\ Exit
    BY <1>9 DEF NothingToDo, edgeVars
  <2> QED BY <1>0, <2>1, QuietKeeps, ExitFields, ExitKeepsStep DEF db
<1> QED BY <1>3, <1>4, <1>5, <1>6, <1>7, <1>8, <1>9 DEF DecideStep

\* The order with the CA.
LEMMA ObtainKeeps ==
  ASSUME StepInv, BoundsAssumption, PolicyAssumption, ObtainStep
  PROVE  StepInv'
<1> USE DEF Here, At, NoSnapshotPCs, RestorePCs, IssuePCs, RenewPCs, DecidePCs
<1>0. /\ TypeOK /\ SnapshotsOfLast /\ StageAtStep /\ LastOperation
      /\ RetriesCounted /\ CertificatesKnown
      /\ run \in Runs /\ faults \in Nat /\ edge \in [CertIds -> EdgeRows]
      /\ nops \in 0..MaxOps /\ nops \in Nat /\ MaxOps \in Nat
  BY StepTypes
<1>1. run.pc \in {"present", "order"} =>
        /\ run.cur = nops /\ nops \in OpIds /\ nops > 0 /\ snaps = {}
        /\ ops[nops].stage \in {"NEW", "RENEWING", "CHALLENGE_PRESENT"}
        /\ ops[nops].kind \in {"issue", "renew"}
        /\ ops[nops].retry = 0 /\ (ops[nops].kind = "issue" => ops[nops].cert = 0)
        /\ run.attempt < nops
  <2>1. run.pc \in {"present", "order"} =>
          /\ run.cur = nops /\ nops \in OpIds /\ nops > 0 /\ snaps = {}
          /\ ops[nops].stage \in {"NEW", "RENEWING", "CHALLENGE_PRESENT"}
          /\ run.attempt < nops
    BY <1>0 DEF StageAtStep, OpIds, Stage
  <2> QED BY <1>0, <2>1 DEF RetriesCounted, CertificatesKnown, Stage, TypeOK,
                            OpRows, Kinds
<1>2. CASE PresentChallenge
  <2>1. run.pc = "present" /\ Goto("order")
        /\ SetStage(nops, Stage(nops), "CHALLENGE_PRESENT", "awaiting-acme")
        /\ UNCHANGED <<nops, managed, snaps, edge, ncerts, env, faults>>
    BY <1>1, <1>2 DEF PresentChallenge, edgeVars
  <2>2. RowWritten("CHALLENGE_PRESENT", ops[nops].cert, ops[nops].retry)
    BY <1>0, <1>1, <2>1, SetStageRow DEF Stages, Recoveries
  <2>3. run' \in Runs /\ run'.pc = "order" /\ run'.cur = run.cur
        /\ run'.attempt = run.attempt
    BY <1>0, <2>1, GotoFields DEF PCs
  <2>4. StageAtStep'
    BY <1>0, <1>1, <2>1, <2>2, <2>3 DEF StageAtStep, Stage, RowWritten
  <2> QED BY <1>0, <1>1, <2>1, <2>2, <2>3, <2>4, RowKeeps DEF Stages, Settled
<1>3. CASE OrderFails
  <2>1. run.pc = "order" /\ ((Goto("order_failed") /\ ops[nops].kind = "renew") \/ Exit)
        /\ faults' \in Nat /\ UNCHANGED <<nops, managed, snaps, edge, ncerts, env>>
    BY <1>0, <1>1, <1>3, FaultTyped DEF OrderFails, edgeVars
  <2>2. PICK r \in Recoveries : SetErrorWithRetry(nops, run.attempt, r)
    BY <1>1, <1>3, <2>1 DEF OrderFails, Recoveries
  <2>3. RowWritten("ERROR", ops[nops].cert, run.attempt + 1)
    <3>1. run.attempt \in 0..MaxOps /\ run.attempt < MaxOps
      BY <1>0, <1>1, <2>1 DEF Runs
    <3> QED BY <1>0, <1>1, <2>1, <2>2, <3>1, SetErrorRow
  <2>4. run.attempt + 1 <= nops
    BY <1>0, <1>1, <2>1 DEF Runs
  <2>5. run' \in Runs /\ StageAtStep'
    <3>1. CASE Exit
      BY <1>0, <2>1, <3>1, ExitFields, ExitKeepsStep
    <3>2. CASE Goto("order_failed") /\ ops[nops].kind = "renew"
      <4>1. run' \in Runs /\ run'.pc = "order_failed" /\ run'.cur = run.cur
            /\ run'.attempt = run.attempt
        BY <1>0, <3>2, GotoFields DEF PCs
      <4>2. StageAtStep'
        BY <1>0, <1>1, <2>1, <2>3, <3>2, <4>1 DEF StageAtStep, Stage, RowWritten
      <4> QED BY <4>1, <4>2
    <3> QED BY <2>1, <3>1, <3>2
  <2> QED BY <1>0, <1>1, <2>1, <2>3, <2>4, <2>5, RowKeeps DEF Stages, Settled
<1>4. CASE OrderFailureRecorded
  <2>1. run.pc = "order_failed" /\ Exit /\ RecordManagedError
        /\ UNCHANGED <<ops, nops, latest, snaps, edge, ncerts, env, faults>>
    BY <1>4 DEF OrderFailureRecorded, edgeVars
  <2>2. managed # NoManaged
    BY <1>0, <2>1 DEF StageAtStep, CertificatesKnown, OpIds
  <2> QED BY <1>0, <2>1, <2>2, ManagedErrorKeeps, ExitFields, ExitKeepsStep
<1>5. CASE CertificateInvalid
  <2>1. run.pc = "order" /\ Exit /\ faults' \in Nat
        /\ SetStage(nops, "CHALLENGE_PRESENT", "ERROR", "manual-review")
        /\ UNCHANGED <<nops, managed, snaps, edge, ncerts, env>>
    BY <1>0, <1>1, <1>5, FaultTyped DEF CertificateInvalid, edgeVars
  <2>2. RowWritten("ERROR", ops[nops].cert, ops[nops].retry)
    BY <1>0, <1>1, <2>1, SetStageRow DEF Stages, Recoveries
  <2>3. run' \in Runs /\ StageAtStep'
    BY <1>0, <2>1, ExitFields, ExitKeepsStep
  <2> QED BY <1>0, <1>1, <2>1, <2>2, <2>3, RowKeeps DEF Stages, Settled
<1>6. CASE SaveIssued
  <2>1. run.pc = "order" /\ UNCHANGED <<nops, managed, snaps, edge, ncerts, env, faults>>
        /\ UpdateExpected(nops, "CHALLENGE_PRESENT",
             [ops[nops] EXCEPT !.stage = "CERT_ISSUED", !.exp = now + Life,
                               !.recovery = "none"])
        /\ run' = [run EXCEPT !.key = TRUE,
               !.pc = IF ops[run.cur].kind = "issue" THEN "find" ELSE "compare"]
    BY <1>1, <1>6 DEF SaveIssued, edgeVars
  <2>2. RowWritten("CERT_ISSUED", ops[nops].cert, ops[nops].retry)
    <3> DEFINE row == [ops[nops] EXCEPT !.stage = "CERT_ISSUED", !.exp = now + Life,
                               !.recovery = "none"]
    <3>1. /\ row \in OpRows /\ row.kind = ops[nops].kind /\ row.stage = "CERT_ISSUED"
          /\ row.policy = ops[nops].policy /\ row.cert = ops[nops].cert
          /\ row.retry = ops[nops].retry
      <4>1. ops[nops] \in OpRows /\ now + Life \in Nat
        BY <1>0, <1>1, <2>1 DEF TypeOK, PolicyAssumption
      <4> QED BY <4>1 DEF OpRows, Stages, Recoveries
    <3>2. ops \in [OpIds -> OpRows] /\ now \in Nat
      BY <1>0 DEF TypeOK
    <3>3. UpdateExpected(nops, "CHALLENGE_PRESENT", row)
      BY <2>1
    <3> HIDE DEF row
    <3> QED BY <1>1, <2>1, <3>1, <3>2, <3>3, UpdateExpectedRow DEF RowWritten
  <2>3. /\ run' \in Runs /\ run'.cur = nops /\ run'.attempt = run.attempt
        /\ \/ run'.pc = "find" /\ ops[nops].kind = "issue"
           \/ run'.pc = "compare" /\ ops[nops].kind = "renew"
    BY <1>0, <1>1, <2>1 DEF Runs, PCs
  <2>4. StageAtStep'
    BY <1>0, <1>1, <2>1, <2>2, <2>3 DEF StageAtStep, Stage, RowWritten
  <2> QED BY <1>0, <1>1, <2>1, <2>2, <2>3, <2>4, RowKeeps DEF Stages, Settled
<1> QED BY <1>2, <1>3, <1>4, <1>5, <1>6 DEF ObtainStep

\* The operation becomes ACTIVE and the managed row describes its certificate.
LEMMA SetActiveKeeps ==
  ASSUME StepInv, BoundsAssumption, PolicyAssumption, SetActive
  PROVE  StepInv'
<1> USE DEF Here, At, NoSnapshotPCs, RestorePCs, IssuePCs, RenewPCs, DecidePCs
<1>0. /\ TypeOK /\ SnapshotsOfLast /\ StageAtStep /\ LastOperation
      /\ RetriesCounted /\ CertificatesKnown
      /\ run \in Runs /\ nops \in 0..MaxOps /\ nops \in Nat /\ MaxOps \in Nat
      /\ ncerts \in 0..MaxCerts /\ MaxCerts \in Nat
  BY StepTypes
<1>1. /\ run.pc = "activate" /\ run.cur = nops /\ nops \in OpIds /\ nops > 0
      /\ ops[nops].stage = "POLICY_BOUND" /\ snaps = {}
      /\ UNCHANGED <<nops, snaps, edge, ncerts, env, faults>>
  BY <1>0 DEF SetActive, StageAtStep, OpIds, Stage, edgeVars
<1>2. /\ ops[nops] \in OpRows /\ ops[nops].retry = 0
      /\ ops[nops].kind \in {"issue", "renew"}
      /\ ops[nops].kind = "issue" => ops[nops].cert \in 1..ncerts /\ managed = NoManaged
      /\ ops[nops].kind = "renew" => /\ managed # NoManaged
                                     /\ ops[nops].cert = managed.cert
                                     /\ ops[nops].policy = managed.policy
      /\ managed # NoManaged => managed.cert \in 1..ncerts
  <2>1. ops[nops] \in OpRows
    BY <1>0, <1>1 DEF TypeOK
  <2> QED BY <1>0, <1>1, <2>1 DEF RetriesCounted, CertificatesKnown, Stage, Settled,
                                  OpRows, Kinds
<1>3. RowWritten("ACTIVE", ops[nops].cert, ops[nops].retry)
  <2>1. SetStage(nops, "POLICY_BOUND", "ACTIVE", "none")
    BY <1>1 DEF SetActive
  <2> QED BY <1>0, <1>1, <2>1, SetStageRow DEF Stages, Recoveries
<1>4. /\ managed' \in ManagedRows /\ managed' # NoManaged
      /\ managed'.cert = ops[nops].cert /\ managed'.policy = ops[nops].policy
  <2>1. PICK j \in Jitters :
          managed' = [state |-> "ACTIVE", policy |-> ops[nops].policy,
                      cert |-> ops[nops].cert, exp |-> ops[nops].exp,
                      next |-> ops[nops].exp - RenewBefore + j]
    BY <1>1 DEF SetActive
  <2>2. ops[nops].exp - RenewBefore + j \in Int
    BY <1>2 DEF PolicyAssumption, OpRows
  <2> QED BY <1>2, <2>1, <2>2 DEF ManagedRows, NoManaged, OpRows
<1>5. run' \in Runs /\ StageAtStep'
  <2>1. CASE Exit
    BY <1>0, <1>1, <2>1, ExitFields, ExitKeepsStep
  <2>2. CASE run' = [run EXCEPT !.pc = "recover", !.cur = 0]
    <3>1. run' \in Runs /\ run'.pc = "recover" /\ run'.cur = 0
          /\ run'.attempt = run.attempt
      <4>1. 0 \in 0..MaxOps
        BY <1>0
      <4> QED BY <1>0, <2>2, <4>1 DEF Runs, PCs
    <3>2. StageAtStep'
      BY <1>0, <1>1, <1>3, <3>1 DEF StageAtStep, Stage, RowWritten
    <3> QED BY <3>1, <3>2
  <2> QED BY <2>1, <2>2 DEF SetActive
<1>6. TypeOK'
  BY <1>0, <1>1, <1>3, <1>4, <1>5 DEF TypeOK, RowWritten, env
<1>7. LastOperation'
  BY <1>0, <1>1, <1>3 DEF LastOperation, RowWritten, Stage, OpIds
<1>8. RetriesCounted'
  <2>1. ops'[nops].retry = 0 /\ \A o \in OpIds \ {nops} : ops'[o] = ops[o]
    BY <1>2, <1>3 DEF RowWritten
  <2>2. ASSUME NEW o \in OpIds
        PROVE  ops'[o].retry <= o /\ (ops'[o].stage # "ERROR" => ops'[o].retry = 0)
    <3>1. CASE o = nops
      BY <1>0, <2>1, <3>1
    <3>2. CASE o # nops
      BY <1>0, <2>1, <3>2 DEF RetriesCounted, Stage
    <3> QED BY <3>1, <3>2
  <2> QED BY <2>2 DEF RetriesCounted, Stage
<1>9. CertificatesKnown'
  <2>1. managed'.cert \in 1..ncerts /\ ncerts' = ncerts
    BY <1>1, <1>2, <1>4
  <2>2. ASSUME NEW o \in OpIds, o # nops
        PROVE  /\ ops'[o] = ops[o]
               /\ Stage(o) \in Settled \/ Stage(o) = "NONE"
    <3>1. ops'[o] = ops[o]
      BY <1>3, <2>2 DEF RowWritten
    <3>2. o < nops \/ o > nops
      BY <1>0, <2>2 DEF OpIds
    <3> QED BY <1>0, <3>1, <3>2 DEF LastOperation
  <2>3. ASSUME NEW o \in OpIds, o # nops, ops[o].kind = "renew"
        PROVE  ops[o].cert = managed'.cert /\ ops[o].policy = managed'.policy
    BY <1>0, <1>2, <1>4, <2>3 DEF CertificatesKnown
  <2> QED BY <1>0, <1>1, <1>2, <1>3, <1>4, <2>1, <2>2, <2>3
          DEF CertificatesKnown, RowWritten, Stage, Settled
<1>10. SnapshotsOfLast'
  BY <1>1 DEF SnapshotsOfLast
<1> QED BY <1>5, <1>6, <1>7, <1>8, <1>9, <1>10 DEF StepInv

\* Creating, updating, binding and activating the certificate.
LEMMA ContinueKeeps ==
  ASSUME StepInv, BoundsAssumption, PolicyAssumption, ContinueStep
  PROVE  StepInv'
<1> USE DEF Here, At, NoSnapshotPCs, RestorePCs, IssuePCs, RenewPCs, DecidePCs
<1>0. /\ TypeOK /\ SnapshotsOfLast /\ StageAtStep /\ LastOperation
      /\ RetriesCounted /\ CertificatesKnown
      /\ run \in Runs /\ faults \in Nat /\ edge \in [CertIds -> EdgeRows]
      /\ nops \in 0..MaxOps /\ nops \in Nat /\ MaxOps \in Nat
      /\ ncerts \in 0..MaxCerts /\ MaxCerts \in Nat
  BY StepTypes
<1>1. run.pc \in IssuePCs \cup RenewPCs =>
        /\ run.cur = nops /\ nops \in OpIds /\ nops > 0
        /\ ops[nops].stage = "CERT_ISSUED" /\ ops[nops].retry = 0
        /\ run.pc \in IssuePCs => /\ ops[nops].kind = "issue" /\ snaps = {}
                                  /\ ops[nops].cert = 0 /\ managed = NoManaged
        /\ run.pc \in RenewPCs => /\ ops[nops].kind = "renew" /\ managed # NoManaged
                                  /\ ops[nops].cert = managed.cert
                                  /\ managed.cert \in CertIds
                                  /\ ops[nops].cert \in 0..MaxCerts
  <2>1. run.pc \in IssuePCs \cup RenewPCs =>
          /\ run.cur = nops /\ nops \in OpIds /\ nops > 0
          /\ ops[nops].stage = "CERT_ISSUED"
          /\ run.pc \in IssuePCs => ops[nops].kind = "issue" /\ snaps = {}
          /\ run.pc \in RenewPCs => ops[nops].kind = "renew"
    BY <1>0 DEF StageAtStep, OpIds, Stage
  <2> QED BY <1>0, <2>1 DEF RetriesCounted, CertificatesKnown, Stage, CertIds, Settled
\* A failure leads to the step that records it, with everything else unchanged.
<1>2. ASSUME NEW cause \in {"step", "reissue", "unbound"}, Fail(cause),
             run.cur = nops, nops > 0,
             Stage(nops) \in {"CERT_ISSUED", "CERT_CREATED", "POLICY_BOUND"},
             cause = "reissue" => Stage(nops) = "CERT_ISSUED" /\ snaps = {},
             UNCHANGED <<db, snaps>>, ncerts' \in Nat
      PROVE  run' \in Runs /\ StageAtStep'
  <2>1. run' \in Runs /\ run'.pc = "record" /\ run'.cur = nops
        /\ run'.attempt = run.attempt /\ run'.cause = cause
    BY <1>0, <1>2, FailFields
  <2>2. StageAtStep'
    BY <1>0, <1>2, <2>1 DEF StageAtStep, Stage, db
  <2> QED BY <2>1, <2>2
<1>3. CASE FindByMarker
  <2>1. run.pc = "find" /\ UNCHANGED <<nops, managed, snaps, edge, ncerts, env>>
        /\ faults' \in Nat
    BY <1>0, <1>3, FaultTyped DEF FindByMarker, edgeVars
  <2>2. \/ /\ Goto("binding")
           /\ \E c \in 1..ncerts : SetCertCreated(nops, "CERT_ISSUED", c)
        \/ Fail("step") /\ UNCHANGED <<ops, latest>>
        \/ Goto("create") /\ UNCHANGED <<ops, latest>>
        \/ Fail("reissue") /\ UNCHANGED <<ops, latest>>
    BY <1>1, <1>3, <2>1 DEF FindByMarker, Marked
  <2>3. ASSUME Goto("binding"), NEW c \in 1..ncerts,
               SetCertCreated(nops, "CERT_ISSUED", c)
        PROVE  StepInv'
    <3>1. c \in 0..MaxCerts
      BY <1>0
    <3>2. RowWritten("CERT_CREATED", c, ops[nops].retry)
      BY <1>0, <1>1, <2>1, <2>3, <3>1, SetCertCreatedRow
    <3>3. run' \in Runs /\ run'.pc = "binding" /\ run'.cur = run.cur
          /\ run'.attempt = run.attempt
      BY <1>0, <2>3, GotoFields DEF PCs
    <3>4. StageAtStep'
      BY <1>0, <1>1, <2>1, <3>2, <3>3 DEF StageAtStep, Stage, RowWritten
    <3> QED BY <1>0, <1>1, <2>1, <3>2, <3>3, <3>4, RowKeeps DEF Stages, Settled
  <2>4. CASE Goto("create") /\ UNCHANGED <<ops, latest>>
    <3>1. run' \in Runs /\ run'.pc = "create" /\ run'.cur = run.cur
          /\ run'.attempt = run.attempt
      BY <1>0, <2>4, GotoFields DEF PCs
    <3>2. StageAtStep'
      BY <1>0, <1>1, <2>1, <2>4, <3>1 DEF StageAtStep, Stage
    <3> QED BY <1>0, <2>1, <2>4, <3>1, <3>2, QuietKeeps DEF db
  <2>5. CASE (Fail("step") \/ Fail("reissue")) /\ UNCHANGED <<ops, latest>>
    <3>1. run' \in Runs /\ StageAtStep'
      BY <1>0, <1>1, <1>2, <2>1, <2>5 DEF Stage, db
    <3> QED BY <1>0, <2>1, <2>5, <3>1, QuietKeeps DEF db
  <2> QED BY <2>2, <2>3, <2>4, <2>5
<1>4. CASE CreateCertificate
  <2>1. run.pc = "create" /\ UNCHANGED <<db, snaps, env>> /\ faults' \in Nat
    BY <1>0, <1>4, FaultTyped DEF CreateCertificate
  <2>2. \/ /\ ncerts < MaxCerts /\ ncerts' = ncerts + 1
           /\ PutCert(ncerts + 1, nops, nops)
           /\ \/ run' = [run EXCEPT !.pc = "created", !.got = ncerts + 1]
              \/ Fail("step")
        \/ Fail("step") /\ UNCHANGED <<edge, ncerts>>
    BY <1>1, <1>4, <2>1 DEF CreateCertificate, edgeVars
  <2>3. CASE Fail("step") /\ UNCHANGED <<edge, ncerts>>
    <3>1. run' \in Runs /\ StageAtStep'
      BY <1>0, <1>1, <1>2, <2>1, <2>3 DEF Stage
    <3> QED BY <1>0, <2>1, <2>3, <3>1, QuietKeeps
  <2>4. CASE ncerts < MaxCerts /\ ncerts' = ncerts + 1
             /\ PutCert(ncerts + 1, nops, nops)
             /\ ( \/ run' = [run EXCEPT !.pc = "created", !.got = ncerts + 1]
                  \/ Fail("step"))
    <3>1. edge' \in [CertIds -> EdgeRows]
      <4>1. ncerts + 1 \in CertIds /\ nops \in 0..MaxOps
        BY <1>0, <2>4 DEF CertIds
      <4> QED BY <1>0, <2>4, <4>1, PutCertTyped
    <3>2. ncerts' \in 0..MaxCerts /\ 1..ncerts \subseteq 1..ncerts'
      BY <1>0, <2>4
    <3>3. run' \in Runs /\ StageAtStep'
      <4>1. CASE Fail("step")
        BY <1>0, <1>1, <1>2, <2>1, <3>2, <4>1 DEF Stage
      <4>2. CASE run' = [run EXCEPT !.pc = "created", !.got = ncerts + 1]
        <5>1. ncerts + 1 \in 0..MaxCerts /\ ncerts + 1 \in 1..ncerts'
          BY <1>0, <2>4
        <5>2. run' \in Runs /\ run'.pc = "created" /\ run'.cur = run.cur
              /\ run'.attempt = run.attempt /\ run'.got = ncerts + 1
          BY <1>0, <4>2, <5>1 DEF Runs, PCs
        <5>3. StageAtStep'
          BY <1>0, <1>1, <2>1, <5>1, <5>2 DEF StageAtStep, Stage, db
        <5> QED BY <5>2, <5>3
      <4> QED BY <2>4, <4>1, <4>2
    <3>4. TypeOK'
      BY <1>0, <2>1, <3>1, <3>2, <3>3 DEF TypeOK, db, env
    <3>5. LastOperation' /\ RetriesCounted' /\ SnapshotsOfLast'
      BY <1>0, <2>1 DEF LastOperation, RetriesCounted, SnapshotsOfLast, Stage, db
    <3>6. CertificatesKnown'
      BY <1>0, <2>1, <3>2 DEF CertificatesKnown, Stage, db
    <3> QED BY <3>3, <3>4, <3>5, <3>6 DEF StepInv
  <2> QED BY <2>2, <2>3, <2>4
<1>5. CASE RecordCreated
  <2>1. run.pc = "created" /\ UNCHANGED <<nops, managed, snaps, edge, ncerts, env, faults>>
        /\ Goto("binding") /\ SetCertCreated(nops, "CERT_ISSUED", run.got)
    BY <1>1, <1>5 DEF RecordCreated, edgeVars
  <2>2. run.got \in 1..ncerts /\ run.got \in 0..MaxCerts
    BY <1>0, <2>1 DEF StageAtStep, Runs
  <2>3. RowWritten("CERT_CREATED", run.got, ops[nops].retry)
    BY <1>0, <1>1, <2>1, <2>2, SetCertCreatedRow
  <2>4. run' \in Runs /\ run'.pc = "binding" /\ run'.cur = run.cur
        /\ run'.attempt = run.attempt
    BY <1>0, <2>1, GotoFields DEF PCs
  <2>5. StageAtStep'
    BY <1>0, <1>1, <2>1, <2>3, <2>4 DEF StageAtStep, Stage, RowWritten
  <2> QED BY <1>0, <1>1, <2>1, <2>2, <2>3, <2>4, <2>5, RowKeeps DEF Stages, Settled
<1>6. CASE CompareLive
  <2>1. run.pc = "compare" /\ UNCHANGED <<nops, managed, edge, ncerts, env>>
        /\ faults' \in Nat /\ snaps = {}
    BY <1>0, <1>6, FaultTyped, TimeoutTyped DEF CompareLive, edgeVars, StageAtStep
  <2>2. \/ /\ SetCertCreated(nops, "CERT_ISSUED", ops[nops].cert)
           /\ Goto("binding") /\ UNCHANGED snaps
        \/ (Fail("step") \/ Fail("reissue")) /\ UNCHANGED <<ops, latest, snaps>>
        \/ /\ snaps' = snaps \cup {[op |-> nops, cert |-> ops[nops].cert,
                                    new |-> nops, old |-> Content(ops[nops].cert)]}
           /\ Goto("update") /\ UNCHANGED <<ops, latest>>
    BY <1>1, <1>6, <2>1 DEF CompareLive
  <2>3. CASE SetCertCreated(nops, "CERT_ISSUED", ops[nops].cert)
             /\ Goto("binding") /\ UNCHANGED snaps
    <3>1. RowWritten("CERT_CREATED", ops[nops].cert, ops[nops].retry)
      BY <1>0, <1>1, <2>1, <2>3, SetCertCreatedRow
    <3>2. run' \in Runs /\ run'.pc = "binding" /\ run'.cur = run.cur
          /\ run'.attempt = run.attempt
      BY <1>0, <2>3, GotoFields DEF PCs
    <3>3. StageAtStep'
      BY <1>0, <1>1, <2>1, <2>3, <3>1, <3>2 DEF StageAtStep, Stage, RowWritten
    <3> QED BY <1>0, <1>1, <2>1, <2>3, <3>1, <3>2, <3>3, RowKeeps DEF Stages, Settled
  <2>4. CASE (Fail("step") \/ Fail("reissue")) /\ UNCHANGED <<ops, latest, snaps>>
    <3>1. run' \in Runs /\ StageAtStep'
      BY <1>0, <1>1, <1>2, <2>1, <2>4 DEF Stage, db
    <3> QED BY <1>0, <2>1, <2>4, <3>1, QuietKeeps DEF db
  <2>5. CASE snaps' = snaps \cup {[op |-> nops, cert |-> ops[nops].cert,
                                   new |-> nops, old |-> Content(ops[nops].cert)]}
             /\ Goto("update") /\ UNCHANGED <<ops, latest>>
    <3>1. run' \in Runs /\ run'.pc = "update" /\ run'.cur = run.cur
          /\ run'.attempt = run.attempt
      BY <1>0, <2>5, GotoFields DEF PCs
    <3>2. snaps' \in SUBSET Snapshots
      <4>1. Content(ops[nops].cert) \in 0..MaxOps
        BY <1>0, ContentTyped
      <4> QED BY <1>1, <2>1, <2>5, <4>1 DEF Snapshots
    <3>3. TypeOK'
      BY <1>0, <2>1, <2>5, <3>1, <3>2 DEF TypeOK, env
    <3>4. LastOperation' /\ RetriesCounted' /\ CertificatesKnown'
      BY <1>0, <2>1, <2>5 DEF LastOperation, RetriesCounted, CertificatesKnown, Stage
    <3>5. SnapshotsOfLast'
      BY <1>1, <2>1, <2>5 DEF SnapshotsOfLast, Stage
    <3>6. StageAtStep'
      BY <1>0, <1>1, <2>1, <2>5, <3>1 DEF StageAtStep, Stage
    <3> QED BY <3>3, <3>4, <3>5, <3>6 DEF StepInv
  <2> QED BY <2>2, <2>3, <2>4, <2>5
<1>7. CASE UpdateCertificate
  <2>1. run.pc = "update" /\ UNCHANGED <<db, snaps, ncerts, env>> /\ faults' \in Nat
        /\ (Goto("read_back") \/ Goto("restore"))
    BY <1>0, <1>7, FaultTyped DEF UpdateCertificate
  <2>2. edge' \in [CertIds -> EdgeRows]
    <3>1. edge[ops[nops].cert].mark \in 0..MaxOps
      BY <1>0, <1>1, <2>1 DEF EdgeRows
    <3>2. PutCert(ops[nops].cert, edge[ops[nops].cert].mark, nops) \/ UNCHANGED edge
      BY <1>1, <1>7, <2>1 DEF UpdateCertificate
    <3> QED BY <1>0, <1>1, <2>1, <3>1, <3>2, PutCertTyped
  <2>3. run' \in Runs /\ run'.pc \in {"read_back", "restore"} /\ run'.cur = run.cur
        /\ run'.attempt = run.attempt
    BY <1>0, <2>1, GotoFields DEF PCs
  <2>4. StageAtStep'
    BY <1>0, <1>1, <2>1, <2>3 DEF StageAtStep, Stage, db
  <2> QED BY <2>1, <2>2, <2>3, <2>4, QuietKeeps
<1>8. CASE ReadBack
  <2>1. run.pc = "read_back" /\ UNCHANGED <<db, snaps, edge, ncerts, env>>
        /\ faults' \in Nat /\ (Goto("updated") \/ Goto("restore"))
    BY <1>0, <1>8, FaultTyped, TimeoutTyped DEF ReadBack, edgeVars
  <2>2. run' \in Runs /\ run'.pc \in {"updated", "restore"} /\ run'.cur = run.cur
        /\ run'.attempt = run.attempt
    BY <1>0, <2>1, GotoFields DEF PCs
  <2>3. StageAtStep'
    BY <1>0, <1>1, <2>1, <2>2 DEF StageAtStep, Stage, db
  <2> QED BY <1>0, <2>1, <2>2, <2>3, QuietKeeps
<1>9. CASE RecordUpdated
  <2>1. run.pc = "updated" /\ UNCHANGED <<nops, managed, snaps, edge, ncerts, env, faults>>
        /\ Goto("forget") /\ SetCertCreated(nops, "CERT_ISSUED", ops[nops].cert)
    BY <1>1, <1>9 DEF RecordUpdated, edgeVars
  <2>2. RowWritten("CERT_CREATED", ops[nops].cert, ops[nops].retry)
    BY <1>0, <1>1, <2>1, SetCertCreatedRow
  <2>3. run' \in Runs /\ run'.pc = "forget" /\ run'.cur = run.cur
        /\ run'.attempt = run.attempt
    BY <1>0, <2>1, GotoFields DEF PCs
  <2>4. StageAtStep'
    BY <1>0, <1>1, <2>1, <2>2, <2>3 DEF StageAtStep, Stage, RowWritten
  <2> QED BY <1>0, <1>1, <2>1, <2>2, <2>3, <2>4, RowKeeps DEF Stages, Settled
<1>10. CASE ForgetSnapshot
  <2>1. run.pc = "forget" /\ Goto("binding") /\ snaps' = snaps \ SnapshotOf(run.cur)
        /\ UNCHANGED <<db, edge, ncerts, env, faults>>
    BY <1>10 DEF ForgetSnapshot, edgeVars
  <2>2. snaps' = {} /\ snaps' \subseteq snaps
    BY <1>0, <2>1 DEF SnapshotsOfLast, SnapshotOf, StageAtStep
  <2>3. run' \in Runs /\ run'.pc = "binding" /\ run'.cur = run.cur
        /\ run'.attempt = run.attempt
    BY <1>0, <2>1, GotoFields DEF PCs
  <2>4. StageAtStep'
    BY <1>0, <2>1, <2>2, <2>3 DEF StageAtStep, Stage, db
  <2> QED BY <2>1, <2>2, <2>3, <2>4, SnapsForgotten
<1>11. CASE VerifyBinding
  <2>1. run.pc = "binding" /\ UNCHANGED <<db, snaps, edge, ncerts, env>>
        /\ faults' \in Nat /\ (Goto("bind") \/ Fail("step") \/ Fail("unbound"))
    BY <1>0, <1>11, FaultTyped, TimeoutTyped DEF VerifyBinding, edgeVars
  <2>2. CASE Goto("bind")
    <3>1. run' \in Runs /\ run'.pc = "bind" /\ run'.cur = run.cur
          /\ run'.attempt = run.attempt
      BY <1>0, <2>2, GotoFields DEF PCs
    <3>2. StageAtStep'
      BY <1>0, <2>1, <3>1 DEF StageAtStep, Stage, db
    <3> QED BY <1>0, <2>1, <3>1, <3>2, QuietKeeps
  <2>3. CASE Fail("step") \/ Fail("unbound")
    <3>1. run.cur = nops /\ nops > 0 /\ Stage(nops) = "CERT_CREATED"
      BY <1>0, <2>1 DEF StageAtStep
    <3>2. run' \in Runs /\ StageAtStep'
      BY <1>0, <1>2, <2>1, <2>3, <3>1
    <3> QED BY <1>0, <2>1, <3>2, QuietKeeps
  <2> QED BY <2>1, <2>2, <2>3
<1>12. CASE SetPolicyBound
  <2>1. run.pc = "bind" /\ UNCHANGED <<nops, managed, snaps, edge, ncerts, env, faults>>
        /\ Goto("activate") /\ run.cur = nops /\ nops \in OpIds
        /\ ops[nops].stage = "CERT_CREATED" /\ snaps = {}
    BY <1>0, <1>12 DEF SetPolicyBound, edgeVars, StageAtStep, OpIds, Stage
  <2>2. RowWritten("POLICY_BOUND", ops[nops].cert, ops[nops].retry)
    BY <1>0, <1>12, <2>1, SetStageRow DEF SetPolicyBound, Stages, Recoveries
  <2>3. run' \in Runs /\ run'.pc = "activate" /\ run'.cur = run.cur
        /\ run'.attempt = run.attempt
    BY <1>0, <2>1, GotoFields DEF PCs
  <2>4. StageAtStep'
    BY <1>0, <2>1, <2>2, <2>3 DEF StageAtStep, Stage, RowWritten
  <2>5. ops[nops].retry = 0 /\ (ops[nops].kind = "issue" => ops[nops].cert \in 1..ncerts)
    BY <1>0, <2>1 DEF RetriesCounted, CertificatesKnown, Stage
  <2> QED BY <1>0, <2>1, <2>2, <2>3, <2>4, <2>5, RowKeeps DEF Stages, Settled
<1>13. CASE SetActive
  BY <1>0, <1>13, SetActiveKeeps
<1>14. CASE RecordOperationFailure
  <2>1. /\ run.pc = "record" /\ UNCHANGED <<nops, managed, snaps, edge, ncerts, env, faults>>
        /\ run.cur = nops /\ nops \in OpIds /\ nops > 0
        /\ ops[nops].stage \in {"CERT_ISSUED", "CERT_CREATED", "POLICY_BOUND", "ERROR"}
        /\ run.cause = "reissue" => ops[nops].stage = "CERT_ISSUED" /\ snaps = {}
    BY <1>0, <1>14 DEF RecordOperationFailure, edgeVars, StageAtStep, OpIds, Stage
  <2>2. PICK r \in Recoveries : SetStage(nops, Stage(nops), Stage(nops), r)
    BY <1>14, <2>1 DEF RecordOperationFailure, Recoveries
  <2>3. RowWritten(ops[nops].stage, ops[nops].cert, ops[nops].retry)
    BY <1>0, <2>1, <2>2, SetStageRow DEF Stages, Stage
  <2>4. run' \in Runs /\ StageAtStep'
    <3>1. CASE Exit
      BY <1>0, <2>1, <3>1, ExitFields, ExitKeepsStep
    <3>2. CASE Goto("reissue") /\ run.cause = "reissue"
      <4>1. run' \in Runs /\ run'.pc = "reissue" /\ run'.cur = run.cur
            /\ run'.attempt = run.attempt
        BY <1>0, <3>2, GotoFields DEF PCs
      <4>2. StageAtStep'
        BY <1>0, <2>1, <2>3, <3>2, <4>1 DEF StageAtStep, Stage, RowWritten
      <4> QED BY <4>1, <4>2
    <3> QED BY <1>14, <3>1, <3>2 DEF RecordOperationFailure
  <2>5. /\ ops[nops].retry <= nops /\ (ops[nops].stage # "ERROR" => ops[nops].retry = 0)
        /\ ops[nops].kind = "issue" =>
             IF ops[nops].stage \in {"CERT_CREATED", "POLICY_BOUND"}
             THEN ops[nops].cert \in 1..ncerts ELSE ops[nops].cert = 0
    BY <1>0, <2>1 DEF RetriesCounted, CertificatesKnown, Stage
  <2>6. snaps = {} \/ ops[nops].stage \in {"CERT_ISSUED", "CERT_CREATED", "ERROR"}
    BY <1>0, <2>1 DEF SnapshotsOfLast, Stage
  <2> QED BY <1>0, <2>1, <2>3, <2>4, <2>5, <2>6, RowKeeps DEF Stages, Settled
<1> QED BY <1>3, <1>4, <1>5, <1>6, <1>7, <1>8, <1>9, <1>10, <1>11, <1>12, <1>13,
           <1>14 DEF ContinueStep

\* A failed local write or the death of the process.
LEMMA FailureKeeps ==
  ASSUME StepInv, BoundsAssumption, DiskFails \/ Crash
  PROVE  StepInv'
<1> USE DEF Here, At, NoSnapshotPCs, RestorePCs, IssuePCs, RenewPCs, DecidePCs
<1>0. /\ TypeOK /\ SnapshotsOfLast /\ StageAtStep
      /\ run \in Runs /\ faults \in Nat /\ edge \in [CertIds -> EdgeRows]
      /\ nops \in 0..MaxOps /\ nops \in Nat
  BY StepTypes
<1>1. UNCHANGED <<db, snaps, edge, ncerts, env>> /\ faults' \in Nat
  BY <1>0, FaultTyped DEF DiskFails, Crash, edgeVars
<1>2. CASE Exit
  BY <1>0, <1>1, <1>2, QuietKeeps, ExitFields, ExitKeepsStep DEF db
<1>3. CASE Fail("step") /\ run.pc \in WritesInContinue \cup WritesInRestore
  <2>1. /\ run' \in Runs /\ run'.pc = "record" /\ run'.cur = run.cur
        /\ run'.attempt = run.attempt /\ run'.cause = "step"
    BY <1>0, <1>3, FailFields
  <2>2. StageAtStep'
    BY <1>0, <1>1, <1>3, <2>1
       DEF StageAtStep, Stage, db, WritesInContinue, WritesInRestore
  <2> QED BY <1>0, <1>1, <2>1, <2>2, QuietKeeps
<1> QED BY <1>2, <1>3 DEF DiskFails, Crash

\* What the administrator, the node and the clock do.
LEMMA EnvironmentKeeps ==
  ASSUME StepInv, BoundsAssumption, Environment
  PROVE  StepInv'
<1>0. /\ TypeOK /\ LastOperation /\ RetriesCounted /\ CertificatesKnown
      /\ SnapshotsOfLast /\ StageAtStep /\ faults \in Nat
      /\ ncerts \in 0..MaxCerts /\ MaxCerts \in Nat
  BY StepTypes DEF StepInv
<1>1. UNCHANGED <<ops, nops, latest, managed, snaps, edge, ncerts, run>>
  BY DEF Environment, AdminBind, AdminUnbind, AdminMove, Propagate, Tick, db, edgeVars
<1>2. LastOperation' /\ RetriesCounted' /\ CertificatesKnown' /\ SnapshotsOfLast'
      /\ StageAtStep'
  BY <1>0, <1>1 DEF LastOperation, RetriesCounted, CertificatesKnown,
     SnapshotsOfLast, StageAtStep, Stage, Here, At
<1>3. faults' \in Nat
  BY <1>0, FaultTyped DEF Environment, AdminBind, AdminUnbind, AdminMove, Propagate, Tick
<1>4. /\ bound' \in [Policies -> 0..MaxCerts] /\ target' \in Policies
      /\ node' \in 0..MaxOps /\ seen' \in SUBSET (0..MaxOps) /\ now' \in Nat
  <2>0. /\ bound \in [Policies -> 0..MaxCerts] /\ target \in Policies
        /\ node \in 0..MaxOps /\ seen \in SUBSET (0..MaxOps) /\ now \in Nat
    BY <1>0 DEF TypeOK
  <2>1. CASE AdminBind
    BY <1>0, <2>0, <2>1 DEF AdminBind
  <2>2. CASE AdminUnbind
    <3>1. 0 \in 0..MaxCerts
      BY <1>0
    <3> QED BY <2>0, <2>2, <3>1 DEF AdminUnbind
  <2>3. CASE AdminMove
    BY <2>0, <2>3 DEF AdminMove
  <2>4. CASE Propagate
    <3>1. Configured \in 0..MaxOps
      BY <1>0, ContentTyped DEF Configured
    <3> QED BY <2>0, <2>4, <3>1 DEF Propagate
  <2>5. CASE Tick
    BY <2>0, <2>5 DEF Tick
  <2> QED BY <2>1, <2>2, <2>3, <2>4, <2>5 DEF Environment
<1>5. TypeOK'
  BY <1>0, <1>1, <1>3, <1>4 DEF TypeOK
<1> QED BY <1>2, <1>5 DEF StepInv

-----------------------------------------------------------------------------
\* In the beginning nothing was ever ordered.
LEMMA InitHolds ==
  ASSUME Init, BoundsAssumption
  PROVE  IInv
<1> USE DEF Init
<1>0. MaxOps \in Nat /\ MaxCerts \in Nat
  BY DEF BoundsAssumption
<1>1. NoOp \in OpRows /\ NoManaged \in ManagedRows /\ Idle \in Runs /\ NoCert \in EdgeRows
  BY <1>0 DEF NoOp, OpRows, Kinds, Stages, Recoveries, NoManaged, ManagedRows,
              Idle, Runs, PCs, NoCert, EdgeRows
<1>2. TypeOK
  BY <1>0, <1>1 DEF TypeOK
<1>3. \A o \in OpIds : ops[o] = NoOp /\ o > 0
  BY DEF OpIds
<1>4. LastOperation /\ RetriesCounted /\ CertificatesKnown /\ SnapshotsOfLast
  BY <1>3 DEF LastOperation, RetriesCounted, CertificatesKnown, SnapshotsOfLast,
              Stage, NoOp, OpIds
<1>5. StageAtStep
  BY DEF StageAtStep, Idle, Here, At, NoSnapshotPCs, RestorePCs, IssuePCs,
         RenewPCs, DecidePCs
<1>6. RecoveryOwesAll
  BY DEF RecoveryOwesAll, Idle, At
<1> QED BY <1>2, <1>4, <1>5, <1>6 DEF IInv, StepInv

\* The step that lists the operations, and those that go through the list, keep
\* it equal to what is in flight.
LEMMA ListKept ==
  ASSUME StepInv, RecoveryOwesAll, BoundsAssumption, PolicyAssumption,
         \/ RollbacksDone \/ FailInterrupted \/ ContinueInterrupted
         \/ KeyUnavailable \/ SetActive
  PROVE  RecoveryOwesAll'
<1> USE DEF At
<1>0. /\ TypeOK /\ StageAtStep /\ LastOperation /\ RetriesCounted
      /\ ops \in [OpIds -> OpRows] /\ run \in Runs /\ nops \in Nat
  BY StepTypes DEF TypeOK
<1>1. CASE RollbacksDone
  <2>1. run'.pc = "recover" /\ run'.todo = InFlight /\ ops' = ops
    BY <1>0, <1>1 DEF RollbacksDone, Runs, db
  <2> QED BY <2>1 DEF RecoveryOwesAll, InFlight, Stage
<1>2. CASE FailInterrupted
  <2>1. run.todo = InFlight
    BY <1>2 DEF FailInterrupted, RecoveryOwesAll
  <2>2. PICK o \in InFlight :
          /\ SetStage(o, Stage(o), "ERROR", "retry-new-order")
          /\ run' = [run EXCEPT !.todo = @ \ {o}]
    BY <1>2, <2>1 DEF FailInterrupted
  <2>3. run'.pc = "recover" /\ run'.todo = InFlight \ {o}
    BY <1>0, <1>2, <2>1, <2>2 DEF FailInterrupted, Runs
  <2>4. o \in OpIds /\ Stage(o)' = "ERROR" /\ \A p \in OpIds \ {o} : ops'[p] = ops[p]
    BY <1>0, <2>2 DEF SetStage, UpdateExpected, Stage, OpRows, InFlight
  <2>5. \A p \in OpIds : p \in InFlight' <=> p \in InFlight \ {o}
    BY <2>4 DEF InFlight, Stage, Settled
  <2> QED BY <2>3, <2>5 DEF RecoveryOwesAll, InFlight
<1>3. CASE ContinueInterrupted
  <2>1. run.todo = InFlight
    BY <1>3 DEF ContinueInterrupted, RecoveryOwesAll
  <2>2. PICK o \in InFlight :
          run' = [run EXCEPT !.pc = ContinueAt(o), !.cur = o, !.todo = @ \ {o}]
    BY <1>3, <2>1 DEF ContinueInterrupted
  <2>3. \A p \in InFlight : p = nops
    BY <1>0 DEF InFlight, LastOperation, OpIds, Settled
  <2>4. run'.todo = {} /\ run'.pc = ContinueAt(o)
    BY <1>0, <2>1, <2>2, <2>3 DEF Runs
  <2>5. ContinueAt(o) # "recover"
    BY DEF ContinueAt
  <2> QED BY <2>4, <2>5 DEF RecoveryOwesAll
<1>4. ASSUME run'.todo = {}, nops \in OpIds, ops'[nops].stage \in Settled,
             \A p \in OpIds \ {nops} : ops'[p] = ops[p]
      PROVE  RecoveryOwesAll'
  <2>1. \A p \in OpIds : Stage(p)' \in Settled \cup {"NONE"}
    <3> SUFFICES ASSUME NEW p \in OpIds, p # nops
                 PROVE  Stage(p) \in Settled \cup {"NONE"}
      BY <1>4 DEF Stage
    <3> QED BY <1>0 DEF LastOperation, OpIds
  <2>2. InFlight' = {}
    BY <2>1 DEF InFlight, Stage
  <2> QED BY <1>4, <2>2 DEF RecoveryOwesAll
<1>5. CASE KeyUnavailable
  <2>1. run.pc = "reissue"
    BY <1>5 DEF KeyUnavailable
  <2>2. run.cur = nops /\ nops \in OpIds /\ run.todo = {}
    BY <1>0, <2>1 DEF StageAtStep, Here, OpIds, RecoveryOwesAll, TypeOK
  <2>3. run'.todo = {}
    BY <1>0, <1>5, <2>2 DEF KeyUnavailable, Runs
  <2>4. /\ ops'[nops].stage \in Settled
        /\ \A p \in OpIds \ {nops} : ops'[p] = ops[p]
    <3>1. SetErrorWithRetry(nops, ops[nops].retry, "retry-new-order")
      BY <1>5, <2>2 DEF KeyUnavailable
    <3>2. ops[nops].retry = 0 /\ 0 \in 0..MaxOps /\ 0 < MaxOps
      <4>1. Stage(nops) = "CERT_ISSUED"
        BY <1>0, <2>1 DEF StageAtStep, Here
      <4> QED BY <1>0, <2>2, <4>1 DEF RetriesCounted, OpIds, BoundsAssumption
    <3>3. RowWritten("ERROR", ops[nops].cert, 1)
      BY <1>0, <2>2, <3>1, <3>2, SetErrorRow DEF Recoveries
    <3> QED BY <3>3 DEF RowWritten, Settled
  <2> QED BY <1>4, <2>2, <2>3, <2>4
<1>6. CASE SetActive
  <2>1. run.pc = "activate"
    BY <1>6 DEF SetActive
  <2>2. run.cur = nops /\ nops \in OpIds /\ run.todo = {}
    BY <1>0, <2>1 DEF StageAtStep, Here, OpIds, RecoveryOwesAll, TypeOK
  <2>3. run'.todo = {}
    <3>1. run' = Idle \/ run' = [run EXCEPT !.pc = "recover", !.cur = 0]
      BY <1>6 DEF SetActive, Exit
    <3>2. CASE run' = Idle
      BY <3>2 DEF Idle
    <3>3. CASE run' = [run EXCEPT !.pc = "recover", !.cur = 0]
      BY <1>0, <2>2, <3>3 DEF Runs
    <3> QED BY <3>1, <3>2, <3>3
  <2>4. /\ ops'[nops].stage \in Settled
        /\ \A p \in OpIds \ {nops} : ops'[p] = ops[p]
    <3>1. SetStage(nops, "POLICY_BOUND", "ACTIVE", "none")
      BY <1>6, <2>2 DEF SetActive
    <3>2. RowWritten("ACTIVE", ops[nops].cert, ops[nops].retry)
      BY <1>0, <2>2, <3>1, SetStageRow DEF Stages, Recoveries
    <3> QED BY <3>2 DEF RowWritten, Settled
  <2> QED BY <1>4, <2>2, <2>3, <2>4
<1> QED BY <1>1, <1>2, <1>3, <1>5, <1>6

\* Every other step of the process leaves the recovery or is outside of it, and
\* no step of the world touches the operations.
LEMMA ListElsewhere ==
  ASSUME StepInv, RecoveryOwesAll, BoundsAssumption, [Next]_vars,
         ~RollbacksDone, ~FailInterrupted, ~ContinueInterrupted,
         ~KeyUnavailable, ~SetActive
  PROVE  RecoveryOwesAll'
<1> USE DEF At
<1>0. run \in Runs /\ (run.pc # "recover" => run.todo = {})
  BY StepTypes DEF RecoveryOwesAll
<1>1. CASE Environment \/ UNCHANGED vars
  <2>1. run' = run /\ ops' = ops
    BY <1>1 DEF Environment, AdminBind, AdminUnbind, AdminMove, Propagate, Tick, vars, db
  <2> QED BY <2>1 DEF RecoveryOwesAll, InFlight, Stage
<1>2. ASSUME run'.todo = {}, run'.pc # "recover"
      PROVE  RecoveryOwesAll'
  BY <1>2 DEF RecoveryOwesAll
<1>3. CASE Exit
  BY <1>2, <1>3 DEF Exit, Idle
<1>4. CASE Start
  BY <1>2, <1>4 DEF Start, StartRun, Idle
<1>5. CASE RollbackStep \/ RestoreStep
  BY <1>0, <1>2, <1>3, <1>5
     DEF RollbackStep, RollbackVerifyNew, RollbackReadBack, RollbackForget, RestoreStep,
         RestoreUpdate, RestoreVerifyOld, RestoreRecordOperation, RestoreRecordManaged,
         RestoreForget, Goto, Fail, Runs
<1>6. CASE RecoverStep
  BY <1>0, <1>2, <1>6 DEF RecoverStep, RecoveryDone, Goto, Runs
<1>7. CASE DecideStep \/ ObtainStep
  BY <1>0, <1>2, <1>3, <1>7
     DEF DecideStep, DecideFirstIssue, DecideRenewal, ReadFails, StartIssue,
         DiscoverManaged, StartRenew, NothingToDo, ObtainStep, PresentChallenge,
         OrderFails, OrderFailureRecorded, CertificateInvalid, SaveIssued, Goto, Runs
<1>8. CASE ContinueStep
  BY <1>0, <1>2, <1>3, <1>8
     DEF ContinueStep, FindByMarker, CreateCertificate, RecordCreated, CompareLive,
         UpdateCertificate, ReadBack, RecordUpdated, ForgetSnapshot, VerifyBinding,
         SetPolicyBound, RecordOperationFailure, Goto, Fail, Runs
<1>9. CASE DiskFails \/ Crash
  BY <1>0, <1>2, <1>3, <1>9
     DEF DiskFails, Crash, Fail, WritesInContinue, WritesInRestore, Runs
<1> QED BY <1>1, <1>4, <1>5, <1>6, <1>7, <1>8, <1>9 DEF Next, RunStep

\* What the properties and the later modules need to know of the types.
LEMMA Types ==
  ASSUME IInv, BoundsAssumption
  PROVE  /\ TypeOK /\ SnapshotsOfLast /\ StageAtStep /\ LastOperation
         /\ RetriesCounted /\ CertificatesKnown
         /\ run \in Runs /\ faults \in Nat /\ edge \in [CertIds -> EdgeRows]
         /\ nops \in 0..MaxOps /\ nops \in Nat /\ ncerts \in 0..MaxCerts
         /\ MaxOps \in Nat /\ MaxCerts \in Nat
         /\ run.pc \in PCs
  BY StepTypes DEF IInv

\* What a recovery has still to go through is in flight.
LEMMA ListedInFlight ==
  ASSUME IInv, At("recover")
  PROVE  run.todo = InFlight
  BY DEF IInv, RecoveryOwesAll

\* Every step keeps the invariant, one lemma for each group of actions.
LEMMA StepInvKept ==
  ASSUME StepInv, RecoveryOwesAll, BoundsAssumption, PolicyAssumption, [Next]_vars
  PROVE  StepInv'
<1>1. CASE Start \/ RollbackStep
  BY <1>1, RollbackKeeps
<1>2. CASE RestoreStep
  BY <1>2, RestoreKeeps
<1>3. CASE RecoverStep
  BY <1>3, RecoverKeeps
<1>4. CASE DecideStep
  BY <1>4, DecideKeeps
<1>5. CASE ObtainStep
  BY <1>5, ObtainKeeps
<1>6. CASE ContinueStep
  BY <1>6, ContinueKeeps
<1>7. CASE DiskFails \/ Crash
  BY <1>7, FailureKeeps
<1>8. CASE Environment
  BY <1>8, EnvironmentKeeps
<1>9. CASE UNCHANGED vars
  <2>1. UNCHANGED <<db, snaps, ncerts, env>> /\ edge' = edge /\ faults' = faults
        /\ run' = run
    BY <1>9 DEF vars, edgeVars
  <2>2. StageAtStep'
    BY <2>1 DEF StepInv, StageAtStep, Stage, Here, At, db
  <2> QED BY <2>1, <2>2, StepTypes, QuietKeeps
<1> QED BY <1>1, <1>2, <1>3, <1>4, <1>5, <1>6, <1>7, <1>8, <1>9 DEF Next, RunStep

\* Every step keeps the invariant, and the list of the recovery with it.
LEMMA NextKeeps ==
  ASSUME IInv, BoundsAssumption, PolicyAssumption, [Next]_vars
  PROVE  IInv'
<1>1. StepInv /\ RecoveryOwesAll
  BY DEF IInv
<1> QED BY <1>1, StepInvKept, ListKept, ListElsewhere DEF IInv

\* The inductive invariant holds in every reachable state: only the last
\* operation can be unsettled, and the step the process is at says where it is.
THEOREM Inductive == Spec => []IInv
<1>1. Init => IInv
  BY InitHolds, BoundsAssumption
<1>2. IInv /\ [Next]_vars => IInv'
  BY NextKeeps, BoundsAssumption, PolicyAssumption
<1> QED BY <1>1, <1>2, PTL DEF Spec

\* Every variable stays in its type; in particular every retry counter is at
\* most the number of operations, whatever fails and however often.
THEOREM Typing == Spec => []TypeOK
<1>1. IInv => TypeOK
  BY DEF IInv, StepInv
<1> QED BY <1>1, Inductive, PTL

\* A run that has gone once through the operations it listed has none left in
\* flight, whatever step the runs before it died at: the unique index never
\* refuses the INSERT that follows.
THEOREM RecoveryComplete == Spec => []RecoverySettles
<1>1. IInv => RecoverySettles
  <2> SUFFICES ASSUME IInv, run.pc \in DecidePCs
               PROVE  InFlight = {}
    BY DEF RecoverySettles, DecidePCs
  <2>1. LastOperation /\ nops \in Nat /\ (nops = 0 \/ Stage(nops) \in Settled)
    BY Types, BoundsAssumption DEF StageAtStep
  <2> QED BY <2>1 DEF LastOperation, InFlight, OpIds
<1> QED BY <1>1, Inductive, PTL

\* The stage that a compare-and-set expects is the one in the database: no run,
\* recovered or not, stops at a conflicting stage.
THEOREM NoConflict == Spec => []CASNeverConflicts
<1>1. IInv => CASNeverConflicts
  BY DEF IInv, StepInv, StageAtStep, CASNeverConflicts, Here, At, IssuePCs, RenewPCs
<1> QED BY <1>1, Inductive, PTL

\* A failed first issue has no certificate on record, so the operator can always
\* order again: runFirstIssue never refuses for good.
THEOREM FirstIssueRetriable == Spec => []FirstIssueNeverRefused
<1>1. IInv => FirstIssueNeverRefused
  <2> SUFFICES ASSUME IInv
               PROVE  FirstIssueNeverRefused
    OBVIOUS
  <2>0. /\ CertificatesKnown /\ LastOperation /\ StageAtStep /\ nops \in Nat
        /\ nops \in 0..MaxOps /\ TypeOK
    BY Types, BoundsAssumption
  <2>1. \A o \in OpIds : ops[o].kind = "issue" /\ Stage(o) = "ERROR"
                            => ops[o].cert = 0
    BY <2>0 DEF CertificatesKnown
  <2>2. ASSUME At("decide"), managed = NoManaged, latest # 0
        PROVE  FirstIssueFailure(latest)
    <3>1. latest = nops /\ nops \in OpIds /\ Stage(nops) \in Settled
      BY <2>0, <2>2 DEF LastOperation, StageAtStep, DecidePCs, At, OpIds
    <3>2. Stage(nops) = "ERROR"
      BY <2>0, <2>2, <3>1 DEF CertificatesKnown, Settled
    <3>3. ops[nops].kind = "issue"
      BY <2>0, <2>2, <3>1, <3>2 DEF CertificatesKnown, TypeOK, OpRows, Kinds
    <3> QED BY <2>1, <3>1, <3>2, <3>3 DEF FirstIssueFailure
  <2> QED BY <2>1, <2>2 DEF FirstIssueNeverRefused
<1> QED BY <1>1, Inductive, PTL
=============================================================================
