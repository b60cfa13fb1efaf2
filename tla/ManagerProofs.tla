---------------------------- MODULE ManagerProofs ----------------------------
(***************************************************************************)
(* Why the safety properties of Manager hold, for any number of sessions,  *)
(* targets, lock files and faults: as long as no lock file that somebody   *)
(* has open was replaced, whoever is past the lock is alone, and so is the *)
(* core that outlives a killed session.                                    *)
(***************************************************************************)
EXTENDS Manager, FiniteSetTheorems, TLAPS

Locked(p) == proc[p].pc \notin Unlocked

Waits == {"loop_wait", "dry_wait", "order_wait", "again_wait"}

\* Who has the lock file open, who is past the lock and whose core runs.
Exclusive ==
  ~replaced =>
    /\ \A p \in Procs : proc[p].fd \in {0, lockFile}
    /\ \A p, q \in Procs : Locked(p) /\ Locked(q) => p = q
    /\ \A c \in ManagerCores :
         /\ c.fd = lockFile /\ lockFile # 0
         /\ c.of = "nobody" => \A p \in Procs : ~Locked(p)
         /\ c.of # "nobody" => proc[c.of].pc \in Waits
    /\ \A c, d \in ManagerCores : c = d

\* What run_all can come across, and what a session orders for.
AllConfirmed ==
  /\ configs \subseteq confirmed /\ backup.configs \subseteq confirmed
  /\ \A p \in Procs :
       /\ proc[p].todo \subseteq confirmed
       /\ proc[p].pc \in {"loop_run", "order", "order_wait", "bind", "again"} =>
            proc[p].target \in confirmed
  /\ OnlyConfirmedRuns

ManagerInv == TypeOK /\ Exclusive /\ AllConfirmed

ProcsTyped ==
  /\ proc \in [Procs -> ProcStates]
  /\ \A p \in Procs : /\ Locked(p) => proc[p].fd # 0
                      /\ proc[p].pc \in WithTarget => proc[p].target \in Targets

-----------------------------------------------------------------------------
(* Types                                                                   *)

LEMMA GoToTyped ==
  ASSUME TypeOK, NEW p \in Procs, NEW step \in Steps, GoTo(p, step),
         step \in Unlocked \/ Locked(p),
         step \in WithTarget => proc[p].pc \in WithTarget
  PROVE  ProcsTyped'
<1>1. [proc[p] EXCEPT !.pc = step] \in ProcStates
  BY DEF TypeOK, ProcStates
<1>2. proc' = [proc EXCEPT ![p] = [proc[p] EXCEPT !.pc = step]]
  BY DEF GoTo
<1>3. proc' \in [Procs -> ProcStates]
  BY <1>1, <1>2 DEF TypeOK
<1>4. /\ proc'[p].pc = step /\ proc'[p].fd = proc[p].fd
        /\ proc'[p].target = proc[p].target
  BY <1>2 DEF TypeOK, ProcStates
<1>5. \A q \in Procs \ {p} : proc'[q] = proc[q]
  BY <1>2 DEF TypeOK
<1>6. QED
  BY <1>3, <1>4, <1>5 DEF ProcsTyped, Locked, TypeOK

LEMMA LeaveTyped ==
  ASSUME TypeOK, NEW p \in Procs, Leave(p)
  PROVE  ProcsTyped'
<1>1. Idle \in ProcStates /\ Idle.pc \in Unlocked \ WithTarget
  BY ManagerAssumption DEF Idle, ProcStates, Steps, Unlocked, WithTarget
<1>2. proc' \in [Procs -> ProcStates]
  BY <1>1 DEF TypeOK, Leave
<1>3. proc'[p] = Idle /\ \A q \in Procs \ {p} : proc'[q] = proc[q]
  BY DEF TypeOK, Leave
<1>4. QED
  BY <1>1, <1>2, <1>3 DEF ProcsTyped, Locked, TypeOK

LEMMA OpenTyped ==
  ASSUME TypeOK, NEW p \in Procs, OpenLock(p)
  PROVE  ProcsTyped'
<1>1. CASE proc' = [proc EXCEPT ![p].fd = lockFile]
  <2>1. [proc[p] EXCEPT !.fd = lockFile] \in ProcStates
    BY DEF TypeOK, ProcStates
  <2>2. proc' \in [Procs -> ProcStates]
    BY <1>1, <2>1 DEF TypeOK
  <2>3. /\ proc'[p].pc = proc[p].pc /\ proc[p].pc \in Unlocked \ WithTarget
        /\ \A q \in Procs \ {p} : proc'[q] = proc[q]
    BY <1>1 DEF OpenLock, TypeOK, ProcStates, Unlocked, Operations, WithTarget
  <2>4. QED
    BY <2>2, <2>3 DEF ProcsTyped, Locked, TypeOK
<1>2. QED
  BY <1>1, LeaveTyped DEF OpenLock

LEMMA TryTyped ==
  ASSUME TypeOK, NEW p \in Procs, TryLock(p)
  PROVE  ProcsTyped'
<1> DEFINE todo == IF p = Timer THEN configs ELSE {}
           s == [proc[p] EXCEPT !.pc = AfterLock[proc[p].pc], !.todo = todo]
<1>1. CASE proc' = [proc EXCEPT ![p].pc = AfterLock[proc[p].pc], ![p].todo = todo]
  <2>1. AfterLock[proc[p].pc] \in Steps /\ todo \in SUBSET Targets
    BY DEF TryLock, AfterLock, Operations, Steps, Sections, TypeOK
  <2>2. s \in ProcStates /\ s.fd = proc[p].fd /\ s.pc = AfterLock[proc[p].pc]
    BY <2>1 DEF TypeOK, ProcStates
  <2>3. proc' = [proc EXCEPT ![p] = s]
    BY <1>1 DEF TypeOK
  <2> HIDE DEF s
  <2>4. proc' \in [Procs -> ProcStates]
    BY <2>2, <2>3 DEF TypeOK
  <2>5. proc'[p] = s /\ \A q \in Procs \ {p} : proc'[q] = proc[q]
    BY <2>3 DEF TypeOK
  <2>6. AfterLock[proc[p].pc] \notin WithTarget
    BY DEF TryLock, AfterLock, Operations, WithTarget
  <2>7. QED
    BY <2>2, <2>4, <2>5, <2>6 DEF TryLock, ProcsTyped, Locked, TypeOK
<1>2. QED
  BY <1>1, LeaveTyped DEF TryLock

LEMMA ServiceTyped ==
  ASSUME TypeOK, Service \/ ServiceTimeout PROVE ProcsTyped'
<1> USE DEF At
<1>0. Timer \in Procs
  BY DEF Procs
<1>1. CASE StartService
  BY <1>0, <1>1, GoToTyped DEF StartService, Steps, Unlocked, WithTarget
<1>2. CASE OpenLock(Timer)
  BY <1>0, <1>2, OpenTyped DEF OpenLock
<1>3. CASE TryLock(Timer)
  BY <1>0, <1>3, TryTyped
<1>4. CASE NextTarget
  <2>1. PICK t \in proc[Timer].todo :
          proc' = [proc EXCEPT ![Timer].target = t, ![Timer].todo = @ \ {t},
                               ![Timer].pc = "loop_run"]
    BY <1>4 DEF NextTarget
  <2> DEFINE s == [proc[Timer] EXCEPT !.target = t, !.todo = @ \ {t}, !.pc = "loop_run"]
  <2>2. s \in ProcStates /\ s.fd = proc[Timer].fd /\ s.target = t /\ t \in Targets
    BY <1>0 DEF TypeOK, ProcStates, Steps, WithTarget
  <2>3. proc' = [proc EXCEPT ![Timer] = s]
    BY <1>0, <2>1 DEF TypeOK
  <2>4. proc[Timer].fd # 0
    BY <1>0, <1>4 DEF NextTarget, TypeOK, Unlocked, Operations
  <2> HIDE DEF s
  <2>5. proc' \in [Procs -> ProcStates]
    BY <2>2, <2>3 DEF TypeOK
  <2>6. proc'[Timer] = s /\ \A q \in Procs \ {Timer} : proc'[q] = proc[q]
    BY <1>0, <2>3 DEF TypeOK
  <2>7. QED
    BY <2>2, <2>4, <2>5, <2>6 DEF ProcsTyped, Locked, TypeOK
<1>5. CASE RunTarget \/ TargetDone
  BY <1>0, <1>5, GoToTyped DEF RunTarget, RunCore, TargetDone, CoreDone, Steps,
     WithTarget, Locked, Unlocked, Operations
<1>6. CASE AllDone \/ ServiceTimeout
  BY <1>0, <1>6, LeaveTyped DEF AllDone, ServiceTimeout
<1>7. QED
  BY <1>1, <1>2, <1>3, <1>4, <1>5, <1>6 DEF Service

LEMMA SessionTyped ==
  ASSUME TypeOK, NEW p \in Sessions, StartOperation(p) \/ Session(p) \/ KillSession(p)
  PROVE  ProcsTyped'
<1> USE DEF At
<1>0. p \in Procs /\ Timer \in Procs /\ p # Timer
  BY ManagerAssumption DEF Procs, Timer
<1>1. CASE StartOperation(p)
  <2>1. PICK op \in Operations : GoTo(p, op)
    BY <1>1 DEF StartOperation
  <2>2. QED
    BY <1>0, <2>1, GoToTyped DEF Steps, Unlocked, Operations, WithTarget
<1>2. CASE OpenLock(p) \/ TryLock(p)
  BY <1>0, <1>2, OpenTyped, TryTyped
<1>3. CASE Select(p)
  <2>1. CASE \E t \in Targets :
               proc' = [proc EXCEPT ![p].pc = "dry", ![p].target = t,
                                    ![p].new = t \notin configs]
    <3>1. PICK t \in Targets :
            proc' = [proc EXCEPT ![p].pc = "dry", ![p].target = t,
                                 ![p].new = t \notin configs]
      BY <2>1
    <3> DEFINE s == [proc[p] EXCEPT !.pc = "dry", !.target = t, !.new = t \notin configs]
    <3>2. s \in ProcStates /\ s.fd = proc[p].fd /\ s.target = t
      <4>1. (t \notin configs) \in BOOLEAN
        OBVIOUS
      <4>2. QED
        BY <1>0, <4>1 DEF TypeOK, ProcStates, Steps, WithTarget
    <3>3. proc' = [proc EXCEPT ![p] = s]
      BY <1>0, <3>1 DEF TypeOK
    <3>4. proc[p].fd # 0
      BY <1>0, <1>3 DEF Select, TypeOK, Unlocked, Operations
    <3> HIDE DEF s
    <3>5. proc' \in [Procs -> ProcStates]
      BY <3>2, <3>3 DEF TypeOK
    <3>6. proc'[p] = s /\ \A q \in Procs \ {p} : proc'[q] = proc[q]
      BY <1>0, <3>3 DEF TypeOK
    <3>7. QED
      BY <3>2, <3>4, <3>5, <3>6 DEF ProcsTyped, Locked, TypeOK
  <2>2. QED
    BY <1>0, <1>3, <2>1, LeaveTyped DEF Select
<1>4. CASE Leave(p)
  BY <1>0, <1>4, LeaveTyped
<1>5. CASE \E step \in Steps : /\ GoTo(p, step) /\ Locked(p)
                               /\ step \in WithTarget => proc[p].pc \in WithTarget
  <2>1. PICK step \in Steps : /\ GoTo(p, step) /\ Locked(p)
                              /\ step \in WithTarget => proc[p].pc \in WithTarget
    BY <1>5
  <2>2. QED
    BY <1>0, <2>1, GoToTyped
<1>6. CASE NewWebsite(p)
  BY <1>3, <1>4, <1>5, <1>6
  DEF NewWebsite, DryRun, DryRunDone, AnswerNo, AnswerYes, Order, OrderDone, AnswerBound,
      OrderAgain, AgainDone, RunCore, CoreDone, Steps, WithTarget, Locked, Unlocked,
      Operations
<1>7. CASE Archive(p) \/ RestoreConfig(p) \/ RestoreState(p) \/ RemoveData(p)
           \/ KillSession(p)
  BY <1>4, <1>5, <1>7
  DEF Archive, RestoreConfig, RestoreState, RemoveData, KillSession, Steps, Sections,
      WithTarget, Locked, Unlocked, Operations
<1>8. CASE RemovePrograms(p)
  <2>1. proc' = [proc EXCEPT ![p] = [proc[p] EXCEPT !.pc = "n_ask"], ![Timer] = Idle]
    BY <1>0, <1>8 DEF RemovePrograms, TypeOK
  <2>2. [proc[p] EXCEPT !.pc = "n_ask"] \in ProcStates /\ Idle \in ProcStates
    BY <1>0, ManagerAssumption DEF Idle, ProcStates, Steps, Unlocked, Sections, TypeOK
  <2>3. proc' \in [Procs -> ProcStates]
    BY <1>0, <2>1, <2>2 DEF TypeOK
  <2>4. /\ proc'[p].fd = proc[p].fd /\ proc'[p].pc = "n_ask" /\ proc'[Timer].pc = "idle"
        /\ \A q \in Procs \ {p, Timer} : proc'[q] = proc[q]
    BY <1>0, <2>1 DEF TypeOK, ProcStates, Idle
  <2>5. proc[p].fd # 0
    BY <1>0, <1>8 DEF RemovePrograms, TypeOK, Unlocked, Operations
  <2>6. QED
    BY <2>3, <2>4, <2>5 DEF ProcsTyped, Locked, TypeOK, Unlocked, WithTarget
<1>9. QED
  BY <1>1, <1>2, <1>6, <1>7, <1>8 DEF Session

\* The variables but proc.
Files ==
  /\ lockFile \in 0..MaxInodes /\ ninodes \in 0..MaxInodes
  /\ cores \subseteq Cores
  /\ backup \in [configs : SUBSET Targets, pending : SUBSET Targets]
  /\ configs \subseteq Targets /\ pending \subseteq Targets
  /\ ran \subseteq Targets /\ confirmed \subseteq Targets
  /\ installed \in BOOLEAN /\ replaced \in BOOLEAN
  /\ nops \in 0..MaxOps /\ faults \in 0..MaxFaults

LEMMA CoreRunTyped ==
  ASSUME TypeOK, NEW p \in Procs, NEW step, NEW mode \in {"timer", "dry", "apply"},
         step \in WithTarget, At(p, step),
         cores' \in {cores, cores \cup {Core(p, mode)}},
         UNCHANGED <<lockFile, ninodes, configs, pending, backup, installed, ran,
                     confirmed, replaced, nops, faults>>
  PROVE  Files'
<1>1. Core(p, mode) \in Cores
  BY DEF At, Core, Cores, TypeOK, ProcStates
<1>2. cores' \subseteq Cores
  BY <1>1 DEF TypeOK
<1>3. QED
  BY <1>2 DEF Files, TypeOK

LEMMA FilesTyped ==
  ASSUME TypeOK, [Next]_vars PROVE Files'
<1> USE ManagerAssumption DEF TypeOK
<1>0. Timer \in Procs /\ Sessions \subseteq Procs
  BY DEF Procs
<1>2. ASSUME Service \/ ServiceTimeout PROVE Files'
  <2>1. CASE StartService \/ OpenLock(Timer) \/ TryLock(Timer) \/ NextTarget \/ AllDone
    BY <2>1 DEF StartService, OpenLock, TryLock, NextTarget, AllDone, Files
  <2>2. CASE RunTarget
    BY <1>0, <2>2, CoreRunTyped DEF RunTarget, RunCore, WithTarget
  <2>3. CASE TargetDone
    BY <1>0, <2>3 DEF TargetDone, CoreDone, At, WithTarget, Files
  <2>4. CASE ServiceTimeout
    BY <2>4 DEF ServiceTimeout, Fault, Files
  <2>5. QED
    BY <1>2, <2>1, <2>2, <2>3, <2>4 DEF Service
<1>3. ASSUME NEW p \in Sessions, StartOperation(p) \/ Session(p) \/ KillSession(p)
      PROVE  Files'
  <2>1. CASE StartOperation(p)
    BY <2>1 DEF StartOperation, Files
  <2>2. CASE OpenLock(p) \/ TryLock(p)
    BY <2>2 DEF OpenLock, TryLock, Files
  <2>3. CASE Select(p) \/ AnswerNo(p) \/ AnswerBound(p)
    BY <2>3 DEF Select, AnswerNo, AnswerBound, Files
  <2>4. CASE DryRun(p) \/ Order(p) \/ OrderAgain(p)
    <3>1. CASE DryRun(p)
      BY <1>0, <3>1, CoreRunTyped DEF DryRun, RunCore, WithTarget
    <3>2. CASE Order(p)
      BY <1>0, <3>2, CoreRunTyped DEF Order, RunCore, WithTarget
    <3>3. CASE OrderAgain(p)
      BY <1>0, <3>3, CoreRunTyped DEF OrderAgain, RunCore, WithTarget
    <3>4. QED
      BY <2>4, <3>1, <3>2, <3>3
  <2>5. CASE DryRunDone(p) \/ OrderDone(p) \/ AgainDone(p)
    BY <2>5 DEF DryRunDone, OrderDone, AgainDone, CoreDone, Files
  <2>6. CASE AnswerYes(p)
    <3>1. proc[p].target \in Targets
      BY <1>0, <2>6 DEF AnswerYes, At, WithTarget
    <3>2. configs' \subseteq Targets /\ pending' \subseteq Targets
      BY <2>6, <3>1 DEF AnswerYes
    <3>3. confirmed' \subseteq Targets
      BY <2>6, <3>1 DEF AnswerYes
    <3>4. QED
      BY <2>6, <3>2, <3>3 DEF AnswerYes, Files
  <2>7. CASE Archive(p) \/ RestoreConfig(p)
    <3>1. backup.configs \subseteq Targets /\ backup.pending \subseteq Targets
      OBVIOUS
    <3>2. [configs |-> configs, pending |-> pending]
            \in [configs : SUBSET Targets, pending : SUBSET Targets]
      OBVIOUS
    <3>3. CASE Archive(p)
      BY <2>7, <3>2, <3>3 DEF Archive, Files
    <3>4. CASE RestoreConfig(p)
      <4>1. configs' \subseteq Targets /\ pending' \subseteq Targets
        BY <3>1, <3>4 DEF RestoreConfig
      <4>2. QED
        BY <3>4, <4>1 DEF RestoreConfig, Files
    <3>5. QED
      BY <2>7, <3>3, <3>4
  <2>8. CASE RestoreState(p) \/ RemovePrograms(p) \/ RemoveData(p)
    <3>1. CASE RestoreState(p)
      BY <3>1 DEF RestoreState, Files
    <3>2. CASE RemovePrograms(p)
      BY <3>2 DEF RemovePrograms, Files
    <3>3. CASE RemoveData(p)
      <4>1. replaced' \in BOOLEAN
        BY ONLY <3>3, TypeOK, ZenonT(30) DEF RemoveData, TypeOK
      <4>2. configs' \subseteq Targets /\ pending' \subseteq Targets
        BY ONLY <3>3, TypeOK DEF RemoveData, TypeOK
      <4>3. lockFile' \in 0..MaxInodes
        BY <3>3 DEF RemoveData
      <4>4. QED
        BY <3>3, <4>1, <4>2, <4>3 DEF RemoveData, Files
    <3>4. QED
      BY <2>8, <3>1, <3>2, <3>3
  <2>9. CASE KillSession(p)
    <3>1. \A c \in cores : Orphan(c) \in Cores
      BY DEF Orphan, Cores
    <3>2. cores' \subseteq Cores
      BY <2>9, <3>1 DEF KillSession
    <3>3. QED
      BY <2>9, <3>2 DEF KillSession, Fault, Files
  <2>10. QED
    BY <1>3, <2>1, <2>2, <2>3, <2>4, <2>5, <2>6, <2>7, <2>8, <2>9 DEF Session, NewWebsite
<1>4. ASSUME NEW t \in Targets, RunByHand(t) PROVE Files'
  <2>1. [target |-> t, fd |-> 0, of |-> "nobody", mode |-> "manual"] \in Cores
    BY DEF Cores
  <2>2. QED
    BY <1>4, <2>1 DEF RunByHand, Files
<1>5. CASE CoresEnd
  BY <1>5 DEF CoresEnd, CoreEnds, Files
<1>6. CASE Reinstall \/ ResumeInstall
  <2>1. lockFile' \in 0..MaxInodes /\ ninodes' \in 0..MaxInodes
    BY <1>6 DEF Reinstall, ResumeInstall, NewLockFile
  <2>2. replaced' \in BOOLEAN /\ installed' \in BOOLEAN
    BY ONLY <1>6, TypeOK, ZenonT(30) DEF Reinstall, ResumeInstall, TypeOK
  <2>3. faults' \in 0..MaxFaults
    BY <1>6 DEF Reinstall, ResumeInstall, Fault
  <2>4. QED
    BY <1>6, <2>1, <2>2, <2>3 DEF Reinstall, ResumeInstall, Files
<1>7. CASE UNCHANGED vars
  BY <1>7 DEF vars, Files
<1>8. QED
  BY <1>2, <1>3, <1>4, <1>5, <1>6, <1>7 DEF Next

LEMMA TypedStep ==
  ASSUME TypeOK, [Next]_vars PROVE TypeOK'
<1>1. CASE Service \/ ServiceTimeout \/ \E p \in Sessions :
             StartOperation(p) \/ Session(p) \/ KillSession(p)
  BY <1>1, FilesTyped, ServiceTyped, SessionTyped DEF Files, ProcsTyped, TypeOK, Locked
<1>2. CASE UNCHANGED proc
  BY <1>2, FilesTyped DEF Files, TypeOK
<1>3. CASE CoresEnd \/ Reinstall \/ ResumeInstall \/ (\E t \in Targets : RunByHand(t))
           \/ UNCHANGED vars
  BY <1>2, <1>3 DEF CoresEnd, CoreEnds, Reinstall, ResumeInstall, RunByHand, vars
<1>4. QED
  BY <1>1, <1>3 DEF Next

-----------------------------------------------------------------------------
(* The lock                                                                *)

\* A process past the lock that waits for no core is alone.
LEMMA Alone ==
  ASSUME TypeOK, Exclusive, ~replaced, NEW p \in Procs, Locked(p), proc[p].pc \notin Waits
  PROVE  ManagerCores = {}
<1> SUFFICES ASSUME NEW c \in ManagerCores PROVE FALSE
  OBVIOUS
<1>1. c.of \in Procs \cup {"nobody"}
  BY DEF ManagerCores, TypeOK, Cores
<1>2. c.of # "nobody" => Locked(c.of)
  BY DEF Exclusive, Waits, Locked, Unlocked, Operations
<1>3. QED
  BY <1>1, <1>2 DEF Exclusive

\* One process moves on or leaves, and no core starts.
LEMMA OneMoves ==
  ASSUME TypeOK, Exclusive, NEW p \in Procs, replaced' = replaced,
         ~replaced => lockFile' = lockFile,
         \A q \in Procs \ {p} : proc'[q] = proc[q],
         proc'[p].fd \in {0, lockFile, proc[p].fd},
         Locked(p)' => Locked(p),
         cores' \subseteq cores,
         proc[p].pc \notin Waits \/ \A c \in cores' : c.of # p
  PROVE  Exclusive'
<1> SUFFICES ASSUME ~replaced PROVE Exclusive'
  BY DEF Exclusive
<1> USE DEF Exclusive
<1>1. lockFile' = lockFile /\ ManagerCores' \subseteq ManagerCores
  BY DEF ManagerCores
<1>2. \A q \in Procs : proc'[q].fd \in {0, lockFile} /\ (Locked(q)' => Locked(q))
  BY DEF Locked
<1>3. p # "nobody"
  BY ManagerAssumption DEF Procs, Timer
<1>4. \A c \in ManagerCores' : c.of # p
  BY <1>1, <1>3 DEF ManagerCores
<1>5. \A c \in ManagerCores : c.of \in Procs \cup {"nobody"}
  BY DEF ManagerCores, TypeOK, Cores
<1>6. ASSUME NEW c \in ManagerCores', c.of # "nobody" PROVE proc'[c.of].pc \in Waits
  BY <1>1, <1>4, <1>5, <1>6
<1>7. QED
  BY <1>1, <1>2, <1>6

\* A process that has nobody beside it starts a core and waits for it.
LEMMA CoreRuns ==
  ASSUME TypeOK, Exclusive, NEW p \in Procs, NEW step, NEW mode, NEW wait \in Waits,
         step \notin Unlocked, step \notin Waits, At(p, step),
         \/ GoTo(p, wait) /\ cores' = cores \cup {Core(p, mode)}
         \/ (GoTo(p, wait) \/ Leave(p)) /\ UNCHANGED cores,
         UNCHANGED <<lockFile, replaced>>
  PROVE  Exclusive'
<1>1. Locked(p) /\ proc[p].pc \notin Waits /\ proc[p].fd # 0
  BY DEF At, Locked, TypeOK
<1>2. CASE (GoTo(p, wait) \/ Leave(p)) /\ UNCHANGED cores
  <2>1. /\ proc'[p].fd \in {0, proc[p].fd}
        /\ \A q \in Procs \ {p} : proc'[q] = proc[q]
    BY <1>2 DEF GoTo, Leave, TypeOK, ProcStates, Idle
  <2>2. QED
    BY <1>1, <1>2, <2>1, OneMoves
<1>3. CASE GoTo(p, wait) /\ cores' = cores \cup {Core(p, mode)}
  <2> SUFFICES ASSUME ~replaced PROVE Exclusive'
    BY DEF Exclusive
  <2>1. ManagerCores = {}
    BY <1>1, Alone
  <2>2. ManagerCores' \subseteq {Core(p, mode)}
    BY <1>3, <2>1 DEF ManagerCores
  <2>3. /\ proc'[p].pc = wait /\ proc'[p].fd = proc[p].fd
        /\ \A q \in Procs \ {p} : proc'[q] = proc[q]
    BY <1>3 DEF GoTo, TypeOK, ProcStates
  <2>4. Core(p, mode).fd = lockFile /\ lockFile # 0 /\ Core(p, mode).of = p
    BY <1>1 DEF Core, Exclusive
  <2>5. lockFile' = lockFile
    OBVIOUS
  <2>6. p # "nobody"
    BY ManagerAssumption DEF Procs, Timer
  <2>7. \A q \in Procs : Locked(q)' => q = p
    BY <1>1, <2>3 DEF Locked, Exclusive
  <2>8. \A q \in Procs : proc'[q].fd \in {0, lockFile'}
    BY <2>3, <2>5 DEF Exclusive
  <2> HIDE DEF Exclusive
  <2>9. QED
    BY <2>2, <2>3, <2>4, <2>5, <2>6, <2>7, <2>8 DEF Exclusive
<1>4. QED
  BY <1>2, <1>3

\* flock succeeds: nobody has the file locked, and no core has it open.
LEMMA LockTaken ==
  ASSUME TypeOK, Exclusive, NEW p \in Procs, TryLock(p)
  PROVE  Exclusive'
<1>1. CASE Leave(p)
  <2>1. proc'[p].fd = 0 /\ \A q \in Procs \ {p} : proc'[q] = proc[q]
    BY <1>1 DEF Leave, TypeOK, Idle
  <2>2. proc'[p].pc \in Unlocked
    BY <1>1 DEF Leave, TypeOK, Idle, Unlocked
  <2>3. proc[p].pc \notin Waits
    BY DEF TryLock, Operations, Waits
  <2>4. QED
    BY <2>1, <2>2, <2>3, OneMoves DEF TryLock, Locked
<1>2. CASE Free(proc[p].fd)
  <2> SUFFICES ASSUME ~replaced PROVE Exclusive'
    BY DEF Exclusive, TryLock
  <2>1. proc[p].fd = lockFile /\ lockFile # 0
    BY DEF Exclusive, TryLock
  <2>2. \A q \in Procs : ~Locked(q)
    BY <1>2, <2>1 DEF Free, Holds, Locked, Exclusive, TypeOK
  <2>3. ManagerCores = {}
    BY <1>2, <2>1 DEF Free, ManagerCores, Exclusive
  <2>4. ManagerCores' = {} /\ lockFile' = lockFile
    BY <2>3 DEF TryLock, ManagerCores
  <2>5. proc'[p].fd = proc[p].fd /\ \A q \in Procs \ {p} : proc'[q] = proc[q]
    BY <1>2 DEF TryLock, TypeOK, ProcStates
  <2>6. \A q \in Procs : Locked(q)' => q = p
    BY <2>2, <2>5 DEF Locked
  <2>7. \A q \in Procs : proc'[q].fd \in {0, lockFile'}
    BY <2>4, <2>5 DEF Exclusive
  <2>8. QED
    BY <2>4, <2>6, <2>7 DEF Exclusive
<1>3. QED
  BY <1>1, <1>2 DEF TryLock

\* The next step of a process, its end included, with no new core.
LEMMA Moved ==
  ASSUME TypeOK, Exclusive, NEW p \in Procs, NEW step,
         GoTo(p, step) \/ Leave(p), step \in Unlocked \/ Locked(p),
         UNCHANGED <<lockFile, replaced>>, cores' \subseteq cores,
         proc[p].pc \notin Waits \/ \A c \in cores' : c.of # p
  PROVE  Exclusive'
<1>1. /\ proc'[p].fd \in {0, proc[p].fd}
      /\ \A q \in Procs \ {p} : proc'[q] = proc[q]
  BY DEF GoTo, Leave, TypeOK, ProcStates, Idle
<1>2. proc'[p].pc \in {step, "idle"}
  BY DEF GoTo, Leave, TypeOK, ProcStates, Idle
<1>3. Locked(p)' => Locked(p)
  BY <1>2 DEF Locked, Unlocked
<1>4. QED
  BY <1>1, <1>3, OneMoves

LEMMA LockOpened ==
  ASSUME TypeOK, Exclusive, NEW p \in Procs, OpenLock(p)
  PROVE  Exclusive'
<1>1. /\ proc'[p].fd \in {0, lockFile}
      /\ \A q \in Procs \ {p} : proc'[q] = proc[q]
  BY DEF OpenLock, Leave, TypeOK, ProcStates, Idle
<1>2. proc'[p].pc \in {proc[p].pc, "idle"}
  BY DEF OpenLock, Leave, TypeOK, ProcStates, Idle
<1>3. (Locked(p)' => Locked(p)) /\ proc[p].pc \notin Waits
  BY <1>2 DEF OpenLock, Locked, Unlocked, Operations, Waits
<1>4. QED
  BY <1>1, <1>3, OneMoves DEF OpenLock

LEMMA ServiceLocks ==
  ASSUME TypeOK, Exclusive, Service \/ ServiceTimeout PROVE Exclusive'
<1> USE DEF At
<1>0. Timer \in Procs
  BY DEF Procs
<1>1. CASE StartService
  BY <1>0, <1>1, Moved DEF StartService, Unlocked, Waits
<1>2. CASE OpenLock(Timer)
  BY <1>0, <1>2, LockOpened
<1>3. CASE TryLock(Timer)
  BY <1>0, <1>3, LockTaken
<1>4. CASE NextTarget
  <2>1. /\ proc'[Timer].fd = proc[Timer].fd
        /\ \A q \in Procs \ {Timer} : proc'[q] = proc[q]
    BY <1>0, <1>4 DEF NextTarget, TypeOK, ProcStates
  <2>2. Locked(Timer) /\ proc[Timer].pc \notin Waits
    BY <1>4 DEF NextTarget, Locked, Unlocked, Operations, Waits
  <2>3. QED
    BY <1>0, <1>4, <2>1, <2>2, OneMoves DEF NextTarget
<1>5. CASE RunTarget
  BY <1>0, <1>5, CoreRuns DEF RunTarget, RunCore, Waits, Unlocked, Operations
<1>6. CASE TargetDone
  <2>1. \A c \in cores' : c.of # Timer
    BY <1>6 DEF TargetDone, CoreDone
  <2>2. QED
    BY <1>0, <1>6, <2>1, Moved DEF TargetDone, CoreDone, Locked, Unlocked, Operations
<1>7. CASE AllDone
  BY <1>0, <1>7, Moved DEF AllDone, Waits, Locked, Unlocked, Operations
<1>8. CASE ServiceTimeout
  <2>1. \A c \in cores' : c.of # Timer
    BY <1>8 DEF ServiceTimeout
  <2>2. QED
    BY <1>0, <1>8, <2>1, Moved DEF ServiceTimeout, Unlocked
<1>9. QED
  BY <1>1, <1>2, <1>3, <1>4, <1>5, <1>6, <1>7, <1>8 DEF Service

\* A killed session leaves at most its one core behind, which has the lock.
LEMMA SessionKilled ==
  ASSUME TypeOK, Exclusive, NEW p \in Sessions, KillSession(p)
  PROVE  Exclusive'
<1> DEFINE mine == {c \in cores : c.of = p}
<1>0. p \in Procs
  BY DEF Procs
<1>1. CASE cores' = cores \ mine
  <2>1. cores' \subseteq cores /\ \A c \in cores' : c.of # p
    BY <1>1
  <2>2. Leave(p) /\ "idle" \in Unlocked /\ UNCHANGED <<lockFile, replaced>>
    BY DEF KillSession, Unlocked
  <2>3. QED
    BY <1>0, <2>1, <2>2, Moved
<1>2. CASE cores' = (cores \ mine) \cup {Orphan(c) : c \in mine}
  <2> SUFFICES ASSUME ~replaced PROVE Exclusive'
    BY DEF Exclusive, KillSession
  <2>1. lockFile' = lockFile
    BY DEF KillSession
  <2>2. /\ proc'[p].fd = 0 /\ proc'[p].pc \in Unlocked
        /\ \A q \in Procs \ {p} : proc'[q] = proc[q]
    BY <1>0 DEF KillSession, Leave, TypeOK, Idle, Unlocked
  <2>3. \A c \in cores : Orphan(c).of = "nobody" /\ Orphan(c).fd = c.fd
                         /\ Orphan(c).mode = c.mode
    BY DEF Orphan, TypeOK, Cores
  <2>4. p # "nobody"
    BY ManagerAssumption
  <2>5. \A q \in Procs : /\ proc'[q].fd \in {0, lockFile'}
                         /\ Locked(q)' => Locked(q) /\ q # p
    BY <2>1, <2>2 DEF Exclusive, Locked
  <2>6. CASE \E c \in ManagerCores : c.of = p
    <3>1. PICK c \in ManagerCores : c.of = p
      BY <2>6
    <3>2. ManagerCores' = {Orphan(c)}
      <4>1. ManagerCores = {c} /\ c \in mine
        BY <3>1 DEF Exclusive, ManagerCores
      <4>2. QED
        BY <1>2, <2>3, <4>1 DEF ManagerCores
    <3>3. Locked(p)
      BY <2>4, <3>1 DEF Exclusive, Waits, Locked, Unlocked, Operations
    <3>4. \A q \in Procs : ~Locked(q)'
      BY <1>0, <2>5, <3>3 DEF Exclusive
    <3>5. Orphan(c).fd = lockFile /\ lockFile # 0 /\ Orphan(c).of = "nobody"
      BY <2>3, <3>1 DEF Exclusive, ManagerCores
    <3>6. QED
      BY <2>1, <2>5, <3>2, <3>4, <3>5 DEF Exclusive
  <2>7. CASE \A c \in ManagerCores : c.of # p
    <3>1. ManagerCores' = ManagerCores
      BY <1>2, <2>3, <2>7 DEF ManagerCores
    <3>2. \A c \in ManagerCores : c.of # "nobody" => proc'[c.of] = proc[c.of]
      BY <2>2, <2>7 DEF ManagerCores, TypeOK, Cores
    <3>3. QED
      BY <2>1, <2>5, <3>1, <3>2 DEF Exclusive
  <2>8. QED
    BY <2>6, <2>7
<1>3. QED
  BY <1>1, <1>2 DEF KillSession

LEMMA SessionLocks ==
  ASSUME TypeOK, Exclusive, NEW p \in Sessions,
         StartOperation(p) \/ Session(p) \/ KillSession(p)
  PROVE  Exclusive'
<1> USE DEF At
<1>0. p \in Procs /\ Timer \in Procs /\ p # Timer
  BY ManagerAssumption DEF Procs, Timer
<1>1. CASE StartOperation(p)
  <2>1. PICK op \in Operations : GoTo(p, op)
    BY <1>1 DEF StartOperation
  <2>2. QED
    BY <1>0, <1>1, <2>1, Moved DEF StartOperation, Unlocked, Waits
<1>2. CASE OpenLock(p) \/ TryLock(p)
  BY <1>0, <1>2, LockOpened, LockTaken
<1>3. CASE Select(p)
  <2>1. Locked(p) /\ proc[p].pc \notin Waits
    BY <1>3 DEF Select, Locked, Unlocked, Operations, Waits
  <2>2. /\ proc'[p].fd \in {0, proc[p].fd}
        /\ \A q \in Procs \ {p} : proc'[q] = proc[q]
    <3>1. CASE Leave(p)
      BY <1>0, <3>1 DEF Leave, TypeOK, Idle
    <3>2. CASE \E t \in Targets, new \in BOOLEAN :
                 proc' = [proc EXCEPT ![p].pc = "dry", ![p].target = t, ![p].new = new]
      BY <1>0, <3>2 DEF TypeOK, ProcStates
    <3>3. \A t : (t \notin configs) \in BOOLEAN
      OBVIOUS
    <3>4. QED
      BY <1>3, <3>1, <3>2, <3>3, Zenon DEF Select
  <2>3. QED
    BY <1>0, <1>3, <2>1, <2>2, OneMoves DEF Select
<1>4. CASE DryRun(p) \/ Order(p) \/ OrderAgain(p)
  <2>1. CASE DryRun(p)
    BY <1>0, <2>1, CoreRuns DEF DryRun, RunCore, Waits, Unlocked, Operations
  <2>2. CASE Order(p)
    BY <1>0, <2>2, CoreRuns DEF Order, RunCore, Waits, Unlocked, Operations
  <2>3. CASE OrderAgain(p)
    BY <1>0, <2>3, CoreRuns DEF OrderAgain, RunCore, Waits, Unlocked, Operations
  <2>4. QED
    BY <1>4, <2>1, <2>2, <2>3
<1>5. CASE DryRunDone(p) \/ OrderDone(p) \/ AgainDone(p)
  <2>1. /\ \A c \in cores' : c.of # p
        /\ cores' \subseteq cores /\ UNCHANGED <<lockFile, replaced>>
        /\ Locked(p)
    BY <1>5 DEF DryRunDone, OrderDone, AgainDone, CoreDone, Locked, Unlocked, Operations
  <2>2. PICK step \in Steps : GoTo(p, step) \/ Leave(p)
    BY <1>5 DEF DryRunDone, OrderDone, AgainDone, Steps, WithTarget
  <2>3. QED
    BY <1>0, <2>1, <2>2, Moved
<1>6. CASE AnswerNo(p) \/ AnswerYes(p) \/ AnswerBound(p) \/ Archive(p) \/ RestoreConfig(p)
  <2>1. /\ cores' = cores /\ UNCHANGED <<lockFile, replaced>>
        /\ Locked(p) /\ proc[p].pc \notin Waits
    BY <1>6 DEF AnswerNo, AnswerYes, AnswerBound, Archive, RestoreConfig, Locked,
       Unlocked, Operations, Waits
  <2>2. PICK step \in Steps : GoTo(p, step) \/ Leave(p)
    BY <1>6 DEF AnswerNo, AnswerYes, AnswerBound, Archive, RestoreConfig, Steps,
       WithTarget, Sections
  <2>3. QED
    BY <1>0, <2>1, <2>2, Moved
<1>7. CASE RestoreState(p)
  <2>1. Locked(p) /\ proc[p].pc \notin Waits
    BY <1>7 DEF RestoreState, Locked, Unlocked, Operations, Waits
  <2>2. ~replaced => lockFile # 0
    BY <1>0, <2>1 DEF Exclusive, TypeOK, Locked
  <2>3. /\ proc'[p].fd = 0 /\ proc'[p].pc \in Unlocked
        /\ \A q \in Procs \ {p} : proc'[q] = proc[q]
    BY <1>0, <1>7 DEF RestoreState, Leave, TypeOK, Idle, Unlocked
  <2>4. QED
    BY <1>0, <1>7, <2>1, <2>2, <2>3, OneMoves DEF RestoreState
<1>8. CASE RemovePrograms(p)
  <2> SUFFICES ASSUME ~replaced PROVE Exclusive'
    BY <1>8 DEF RemovePrograms, Exclusive
  <2>1. /\ proc'[p].fd = proc[p].fd /\ proc'[Timer].fd = 0 /\ proc'[Timer].pc = "idle"
        /\ \A q \in Procs \ {p, Timer} : proc'[q] = proc[q]
    BY <1>0, <1>8 DEF RemovePrograms, TypeOK, ProcStates, Idle
  <2>2. ManagerCores = {}
    BY <1>0, <1>8, Alone DEF RemovePrograms, Locked, Unlocked, Operations, Waits
  <2>3. ManagerCores' = {} /\ lockFile' = lockFile
    BY <1>8, <2>2 DEF RemovePrograms, ManagerCores
  <2>4. Locked(p)
    BY <1>8 DEF RemovePrograms, Locked, Unlocked, Operations
  <2>5. \A q \in Procs : /\ proc'[q].fd \in {0, lockFile'}
                         /\ Locked(q)' => q = p
    BY <1>0, <2>1, <2>3, <2>4 DEF Exclusive, Locked, Unlocked
  <2>6. QED
    BY <2>3, <2>5 DEF Exclusive
<1>9. CASE RemoveData(p)
  <2> SUFFICES ASSUME ~replaced' PROVE Exclusive'
    BY DEF Exclusive
  <2>1. ~replaced
    BY <1>9 DEF RemoveData
  <2>2. Locked(p) /\ proc[p].pc \notin Waits
    BY <1>9 DEF RemoveData, Locked, Unlocked, Operations, Waits
  <2>3. ManagerCores' = {}
    BY <1>0, <1>9, <2>1, <2>2, Alone DEF RemoveData, ManagerCores
  <2>4. /\ proc'[p] = Idle /\ Idle.fd = 0 /\ Idle.pc = "idle"
        /\ \A q \in Procs \ {p} : proc'[q] = proc[q]
    BY <1>0, <1>9 DEF RemoveData, Leave, TypeOK, Idle
  <2>5. \A q \in Procs : ~Locked(q)'
    BY <1>0, <2>1, <2>2, <2>4 DEF Exclusive, Locked, Unlocked
  <2>6. \A q \in Procs : proc'[q].fd \in {0, lockFile'}
    <3>1. CASE lockFile' = lockFile
      BY <2>1, <2>4, <3>1 DEF Exclusive
    <3>2. CASE \A q \in Procs \ {p} : proc[q].fd # lockFile
      BY <2>1, <2>4, <3>2 DEF Exclusive
    <3>3. QED
      BY <1>9, <3>1, <3>2 DEF RemoveData, LockFileOpen
  <2>7. QED
    BY <2>3, <2>5, <2>6 DEF Exclusive
<1>10. CASE KillSession(p)
  BY <1>10, SessionKilled
<1>11. QED
  BY <1>1, <1>2, <1>3, <1>4, <1>5, <1>6, <1>7, <1>8, <1>9, <1>10 DEF Session, NewWebsite

\* A new lock file while nobody has one open, or the end of what is promised.
LEMMA NewLockIsFree ==
  ASSUME TypeOK, Exclusive, UNCHANGED <<proc, cores>>, lockFile = 0 \/ ~LockFileOpen(Procs)
  PROVE  Exclusive' \/ replaced
<1> SUFFICES ASSUME ~replaced PROVE Exclusive'
  OBVIOUS
<1>1. \A p \in Procs : proc[p].fd = 0
  BY DEF Exclusive, LockFileOpen
<1>2. ManagerCores = {}
  BY DEF Exclusive, LockFileOpen, ManagerCores
<1>3. \A p \in Procs : proc'[p].fd = 0 /\ ~Locked(p)'
  BY <1>1 DEF TypeOK, Locked
<1>4. ManagerCores' = {}
  BY <1>2 DEF ManagerCores
<1>5. QED
  BY <1>3, <1>4 DEF Exclusive

LEMMA ExclusiveStep ==
  ASSUME TypeOK, Exclusive, [Next]_vars PROVE Exclusive'
<1>1. CASE Service \/ ServiceTimeout
  BY <1>1, ServiceLocks
<1>2. CASE \E p \in Sessions : StartOperation(p) \/ Session(p) \/ KillSession(p)
  BY <1>2, SessionLocks
<1>3. CASE CoresEnd \/ UNCHANGED vars
  <2>1. UNCHANGED <<proc, lockFile, replaced>> /\ ManagerCores' \subseteq ManagerCores
    BY <1>3 DEF CoresEnd, CoreEnds, ManagerCores, vars
  <2>2. QED
    BY <2>1 DEF Exclusive, Locked
<1>4. CASE \E t \in Targets : RunByHand(t)
  <2>1. UNCHANGED <<proc, lockFile, replaced>> /\ ManagerCores' = ManagerCores
    BY <1>4 DEF RunByHand, ManagerCores
  <2>2. QED
    BY <2>1 DEF Exclusive, Locked
<1>5. CASE Reinstall
  BY <1>5, NewLockIsFree DEF Reinstall, Exclusive
<1>6. CASE ResumeInstall
  <2>1. UNCHANGED <<proc, cores>> /\ (replaced' = (replaced \/ LockFileOpen(Procs)))
    BY <1>6 DEF ResumeInstall
  <2>2. QED
    BY <2>1, NewLockIsFree DEF Exclusive
<1>7. QED
  BY <1>1, <1>2, <1>3, <1>4, <1>5, <1>6 DEF Next

-----------------------------------------------------------------------------
(* Confirmation                                                            *)

Ordering == {"loop_run", "order", "order_wait", "bind", "again"}

\* A process moves on; it orders only for a target it had a yes for before.
LEMMA StillConfirmed ==
  ASSUME TypeOK, AllConfirmed, NEW p \in Procs,
         \A q \in Procs \ {p} : proc'[q] = proc[q],
         proc'[p].todo \subseteq confirmed',
         proc'[p].pc \in Ordering => proc'[p].target \in confirmed',
         configs' \subseteq confirmed', backup'.configs \subseteq confirmed',
         confirmed \subseteq confirmed',
         \A c \in cores' \ cores : c.mode # "dry" => c.target \in confirmed'
  PROVE  AllConfirmed'
<1>1. \A q \in Procs :
        /\ proc'[q].todo \subseteq confirmed'
        /\ proc'[q].pc \in {"loop_run", "order", "order_wait", "bind", "again"} =>
             proc'[q].target \in confirmed'
  BY DEF AllConfirmed, Ordering
<1>2. OnlyConfirmedRuns'
  BY DEF AllConfirmed, OnlyConfirmedRuns
<1>3. QED
  BY <1>1, <1>2 DEF AllConfirmed

\* The next step of a process that confirms nothing and writes no file run_all reads.
LEMMA MovedConfirmed ==
  ASSUME TypeOK, AllConfirmed, NEW p \in Procs, NEW step,
         GoTo(p, step) \/ Leave(p),
         step \in Ordering => proc[p].pc \in Ordering,
         UNCHANGED <<configs, backup, confirmed>>,
         \A c \in cores' \ cores : c.mode # "dry" => c.target \in confirmed
  PROVE  AllConfirmed'
<1>1. \A q \in Procs \ {p} : proc'[q] = proc[q]
  BY DEF GoTo, Leave, TypeOK
<1>2. CASE GoTo(p, step)
  <2>1. /\ proc'[p].pc = step /\ proc'[p].todo = proc[p].todo
        /\ proc'[p].target = proc[p].target
    BY <1>2 DEF GoTo, TypeOK, ProcStates
  <2>2. QED
    BY <1>1, <2>1, StillConfirmed DEF AllConfirmed, Ordering
<1>3. CASE Leave(p)
  <2>1. proc'[p].pc = "idle" /\ proc'[p].todo = {}
    BY <1>3 DEF Leave, TypeOK, Idle
  <2>2. QED
    BY <1>1, <2>1, StillConfirmed DEF AllConfirmed, Ordering
<1>4. QED
  BY <1>2, <1>3

LEMMA LockConfirmed ==
  ASSUME TypeOK, AllConfirmed, NEW p \in Procs, OpenLock(p) \/ TryLock(p)
  PROVE  AllConfirmed'
<1>1. UNCHANGED <<configs, backup, confirmed, cores>>
  BY DEF OpenLock, TryLock
<1>2. \A q \in Procs \ {p} : proc'[q] = proc[q]
  BY DEF OpenLock, TryLock, Leave, TypeOK
<1>3. /\ proc'[p].todo \in {proc[p].todo, configs, {}}
      /\ proc'[p].pc \notin Ordering
  <2>1. CASE Leave(p)
    BY <2>1 DEF Leave, TypeOK, Idle, Ordering
  <2>2. CASE proc' = [proc EXCEPT ![p].fd = lockFile]
    BY <2>2 DEF OpenLock, TryLock, TypeOK, ProcStates, Ordering, Operations
  <2>3. CASE proc' = [proc EXCEPT ![p].pc = AfterLock[proc[p].pc],
                                  ![p].todo = IF p = Timer THEN configs ELSE {}]
    <3>1. AfterLock[proc[p].pc] \notin Ordering
      BY DEF OpenLock, TryLock, AfterLock, Ordering, Operations
    <3>2. QED
      BY <2>3, <3>1 DEF TypeOK, ProcStates
  <2>4. QED
    BY <2>1, <2>2, <2>3 DEF OpenLock, TryLock
<1>4. QED
  BY <1>1, <1>2, <1>3, StillConfirmed DEF AllConfirmed

\* A core that is started works on the target of its process.
LEMMA CoreConfirmed ==
  ASSUME TypeOK, AllConfirmed, NEW p \in Procs, NEW step, NEW mode, NEW wait,
         At(p, step), step \in Ordering \/ (mode = "dry" /\ wait \notin Ordering),
         cores' \in {cores, cores \cup {Core(p, mode)}},
         GoTo(p, wait) \/ Leave(p), UNCHANGED <<configs, backup, confirmed>>
  PROVE  AllConfirmed'
<1>1. Core(p, mode).target = proc[p].target /\ Core(p, mode).mode = mode
  BY DEF Core
<1>2. step \in Ordering => proc[p].target \in confirmed
  BY DEF At, AllConfirmed, Ordering
<1>3. \A c \in cores' \ cores : c.mode # "dry" => c.target \in confirmed
  BY <1>1, <1>2
<1>4. QED
  BY <1>3, MovedConfirmed DEF At

LEMMA ServiceConfirmed ==
  ASSUME TypeOK, AllConfirmed, Service \/ ServiceTimeout PROVE AllConfirmed'
<1>0. Timer \in Procs
  BY DEF Procs
<1>1. CASE OpenLock(Timer) \/ TryLock(Timer)
  BY <1>0, <1>1, LockConfirmed
<1>2. CASE StartService
  BY <1>0, <1>2, MovedConfirmed DEF StartService, Ordering
<1>3. CASE NextTarget
  <2>1. PICK t \in proc[Timer].todo :
          proc' = [proc EXCEPT ![Timer].target = t, ![Timer].todo = @ \ {t},
                               ![Timer].pc = "loop_run"]
    BY <1>3 DEF NextTarget
  <2>2. /\ proc'[Timer].target = t /\ proc'[Timer].todo = proc[Timer].todo \ {t}
        /\ \A q \in Procs \ {Timer} : proc'[q] = proc[q]
    BY <1>0, <2>1 DEF TypeOK, ProcStates
  <2>3. proc[Timer].todo \subseteq confirmed
    BY <1>0 DEF AllConfirmed
  <2>4. UNCHANGED <<configs, backup, confirmed, cores>>
    BY <1>3 DEF NextTarget
  <2>5. QED
    BY <1>0, <2>2, <2>3, <2>4, StillConfirmed DEF AllConfirmed
<1>4. CASE RunTarget
  BY <1>0, <1>4, CoreConfirmed DEF RunTarget, RunCore, Ordering
<1>5. CASE TargetDone \/ AllDone \/ ServiceTimeout
  BY <1>0, <1>5, MovedConfirmed DEF TargetDone, AllDone, ServiceTimeout, CoreDone, Ordering
<1>6. QED
  BY <1>1, <1>2, <1>3, <1>4, <1>5 DEF Service

LEMMA SessionConfirmed ==
  ASSUME TypeOK, AllConfirmed, NEW p \in Sessions,
         StartOperation(p) \/ Session(p) \/ KillSession(p)
  PROVE  AllConfirmed'
<1>0. p \in Procs /\ Timer \in Procs /\ p # Timer
  BY ManagerAssumption DEF Procs, Timer
<1>1. CASE OpenLock(p) \/ TryLock(p)
  BY <1>0, <1>1, LockConfirmed
<1>2. CASE StartOperation(p)
  <2>1. PICK op \in Operations : GoTo(p, op)
    BY <1>2 DEF StartOperation
  <2>2. QED
    BY <1>0, <1>2, <2>1, MovedConfirmed DEF StartOperation, Operations, Ordering
<1>3. CASE Select(p)
  <2>1. CASE Leave(p)
    BY <1>0, <1>3, <2>1, MovedConfirmed DEF Select
  <2>2. CASE \E t \in Targets, new \in BOOLEAN :
               proc' = [proc EXCEPT ![p].pc = "dry", ![p].target = t, ![p].new = new]
    <3>1. /\ proc'[p].pc = "dry" /\ proc'[p].todo = proc[p].todo
          /\ \A q \in Procs \ {p} : proc'[q] = proc[q]
      BY <1>0, <2>2 DEF TypeOK, ProcStates
    <3>2. UNCHANGED <<configs, backup, confirmed, cores>>
      BY <1>3 DEF Select
    <3>3. QED
      BY <1>0, <3>1, <3>2, StillConfirmed DEF AllConfirmed, Ordering
  <2>3. \A t : (t \notin configs) \in BOOLEAN
    OBVIOUS
  <2>4. QED
    BY <1>3, <2>1, <2>2, <2>3, Zenon DEF Select
<1>4. CASE DryRun(p)
  BY <1>0, <1>4, CoreConfirmed DEF DryRun, RunCore, Ordering
<1>5. CASE Order(p)
  BY <1>0, <1>5, CoreConfirmed DEF Order, RunCore, Ordering
<1>6. CASE OrderAgain(p)
  BY <1>0, <1>6, CoreConfirmed DEF OrderAgain, RunCore, Ordering
<1>7. CASE DryRunDone(p) \/ OrderDone(p) \/ AgainDone(p) \/ AnswerNo(p) \/ AnswerBound(p)
           \/ RestoreState(p)
  <2>1. PICK step \in Steps :
          /\ GoTo(p, step) \/ Leave(p)
          /\ step \in Ordering => proc[p].pc \in Ordering
    BY <1>7 DEF DryRunDone, OrderDone, AgainDone, AnswerNo, AnswerBound, RestoreState,
       CoreDone, At, Ordering, Steps, WithTarget
  <2>2. UNCHANGED <<configs, backup, confirmed>> /\ cores' \subseteq cores
    BY <1>7 DEF DryRunDone, OrderDone, AgainDone, AnswerNo, AnswerBound, RestoreState,
       CoreDone
  <2>3. QED
    BY <1>0, <2>1, <2>2, MovedConfirmed
<1>8. CASE AnswerYes(p)
  <2>1. /\ proc'[p].todo = proc[p].todo /\ proc'[p].target = proc[p].target
        /\ \A q \in Procs \ {p} : proc'[q] = proc[q]
    BY <1>0, <1>8 DEF AnswerYes, GoTo, TypeOK, ProcStates
  <2>2. /\ confirmed' = confirmed \cup {proc[p].target} /\ UNCHANGED <<backup, cores>>
        /\ configs' \subseteq configs \cup {proc[p].target}
    BY <1>8 DEF AnswerYes
  <2>3. QED
    BY <1>0, <2>1, <2>2, StillConfirmed DEF AllConfirmed
<1>9. CASE Archive(p) \/ RestoreConfig(p)
  <2>1. \A q \in Procs \ {p} : proc'[q] = proc[q]
    BY <1>0, <1>9 DEF Archive, RestoreConfig, GoTo, Leave, TypeOK
  <2>2. proc'[p].pc \notin Ordering /\ proc'[p].todo \in {{}, proc[p].todo}
    BY <1>0, <1>9 DEF Archive, RestoreConfig, GoTo, Leave, TypeOK, ProcStates, Idle, Ordering
  <2>3. configs' \subseteq confirmed /\ backup'.configs \subseteq confirmed
    BY <1>9 DEF Archive, RestoreConfig, AllConfirmed
  <2>4. UNCHANGED <<confirmed, cores>>
    BY <1>9 DEF Archive, RestoreConfig
  <2>5. QED
    BY <1>0, <2>1, <2>2, <2>3, <2>4, StillConfirmed DEF AllConfirmed
<1>10. CASE RemovePrograms(p)
  <2>1. /\ proc'[p].pc = "n_ask" /\ proc'[p].todo = proc[p].todo
        /\ proc'[Timer].pc = "idle" /\ proc'[Timer].todo = {}
        /\ \A q \in Procs \ {p, Timer} : proc'[q] = proc[q]
    BY <1>0, <1>10 DEF RemovePrograms, TypeOK, ProcStates, Idle
  <2>2. UNCHANGED <<configs, backup, confirmed>> /\ cores' \subseteq cores
    BY <1>10 DEF RemovePrograms
  <2>3. OnlyConfirmedRuns'
    BY <2>2 DEF AllConfirmed, OnlyConfirmedRuns
  <2>4. QED
    BY <2>1, <2>2, <2>3 DEF AllConfirmed
<1>11. CASE RemoveData(p)
  <2>1. /\ proc'[p].pc = "idle" /\ proc'[p].todo = {}
        /\ \A q \in Procs \ {p} : proc'[q] = proc[q]
    BY <1>0, <1>11 DEF RemoveData, Leave, TypeOK, Idle
  <2>2. configs' \subseteq configs /\ UNCHANGED <<backup, confirmed, cores>>
    BY <1>11 DEF RemoveData
  <2>3. QED
    BY <1>0, <2>1, <2>2, StillConfirmed DEF AllConfirmed, Ordering
<1>12. CASE KillSession(p)
  <2>1. \A c \in cores : Orphan(c).mode = c.mode /\ Orphan(c).target = c.target
    BY DEF Orphan, TypeOK, Cores
  <2>2. \A c \in cores' \ cores : c.mode # "dry" => c.target \in confirmed
    BY <1>12, <2>1 DEF KillSession, AllConfirmed, OnlyConfirmedRuns
  <2>3. Leave(p) /\ "idle" \notin Ordering /\ UNCHANGED <<configs, backup, confirmed>>
    BY <1>12 DEF KillSession, Ordering
  <2>4. QED
    BY <1>0, <2>2, <2>3, MovedConfirmed
<1>13. QED
  BY <1>1, <1>2, <1>3, <1>4, <1>5, <1>6, <1>7, <1>8, <1>9, <1>10, <1>11, <1>12
  DEF Session, NewWebsite

LEMMA ConfirmedStep ==
  ASSUME TypeOK, AllConfirmed, [Next]_vars PROVE AllConfirmed'
<1>1. CASE Service \/ ServiceTimeout
  BY <1>1, ServiceConfirmed
<1>2. CASE \E p \in Sessions : StartOperation(p) \/ Session(p) \/ KillSession(p)
  BY <1>2, SessionConfirmed
<1>3. CASE CoresEnd \/ Reinstall \/ ResumeInstall \/ UNCHANGED vars
  <2>1. UNCHANGED <<proc, configs, backup, confirmed>> /\ cores' \subseteq cores
    BY <1>3 DEF CoresEnd, CoreEnds, Reinstall, ResumeInstall, vars
  <2>2. QED
    BY <2>1 DEF AllConfirmed, OnlyConfirmedRuns
<1>4. CASE \E t \in Targets : RunByHand(t)
  <2>1. PICK t \in configs : cores' = cores \cup
          {[target |-> t, fd |-> 0, of |-> "nobody", mode |-> "manual"]}
    BY <1>4 DEF RunByHand
  <2>2. UNCHANGED <<proc, configs, backup, confirmed>>
    BY <1>4 DEF RunByHand
  <2>3. OnlyConfirmedRuns'
    BY <2>1, <2>2 DEF AllConfirmed, OnlyConfirmedRuns
  <2>4. QED
    BY <2>2, <2>3 DEF AllConfirmed
<1>5. QED
  BY <1>1, <1>2, <1>3, <1>4 DEF Next

-----------------------------------------------------------------------------
\* Every reachable state of the sessions, the service and their cores satisfies
\* ManagerInv.
THEOREM ManagerInductive == Spec => []ManagerInv
<1>1. Init => ManagerInv
  <2> SUFFICES ASSUME Init PROVE ManagerInv
    OBVIOUS
  <2>1. Idle \in ProcStates
    BY ManagerAssumption DEF Idle, ProcStates, Steps, Unlocked
  <2>2. \A p \in Procs : proc[p] = Idle
    BY DEF Init
  <2>3. TypeOK
    <3>1. proc \in [Procs -> ProcStates]
      BY <2>1 DEF Init
    <3>2. \A p \in Procs : /\ proc[p].pc \notin Unlocked => proc[p].fd # 0
                           /\ proc[p].pc \in WithTarget => proc[p].target \in Targets
      BY <2>2 DEF Idle, Unlocked, WithTarget
    <3>3. /\ lockFile \in 0..MaxInodes /\ ninodes \in 0..MaxInodes
          /\ nops \in 0..MaxOps /\ faults \in 0..MaxFaults
      BY ManagerAssumption DEF Init
    <3>4. backup \in [configs : SUBSET Targets, pending : SUBSET Targets]
      BY DEF Init
    <3>5. installed \in BOOLEAN /\ replaced \in BOOLEAN
      BY Zenon DEF Init
    <3>6. QED
      BY <3>1, <3>2, <3>3, <3>4, <3>5 DEF Init, TypeOK
  <2>4. ManagerCores = {} /\ \A p \in Procs : ~Locked(p)
    BY <2>2 DEF Init, ManagerCores, Locked, Idle, Unlocked
  <2>5. Exclusive
    BY <2>2, <2>4 DEF Exclusive, Idle
  <2>6. AllConfirmed
    BY <2>2 DEF Init, AllConfirmed, Idle, OnlyConfirmedRuns
  <2>7. QED
    BY <2>3, <2>5, <2>6 DEF ManagerInv
<1>2. ManagerInv /\ [Next]_vars => ManagerInv'
  BY TypedStep, ExclusiveStep, ConfirmedStep DEF ManagerInv
<1>3. QED
  BY <1>1, <1>2, PTL DEF Spec

\* flock on manager.lock, which each core inherits, serializes what sessions and
\* run_all start, until somebody's open lock file has been replaced.
THEOREM LockSerializes == Spec => []Serialized
<1>1. ASSUME ManagerInv, ~replaced PROVE Serialized
  <2>1. Cardinality(ManagerCores) <= 1
    <3>1. \A c, d \in ManagerCores : c = d
      BY <1>1 DEF ManagerInv, Exclusive
    <3>2. CASE ManagerCores = {}
      BY <3>2, FS_EmptySet
    <3>3. CASE \E c \in ManagerCores : ManagerCores = {c}
      <4>1. PICK c \in ManagerCores : ManagerCores = {c}
        BY <3>3
      <4>2. Cardinality({c}) = 1
        BY FS_Singleton
      <4>3. QED
        BY <4>1, <4>2
    <3>4. QED
      BY <3>1, <3>2, <3>3
  <2>2. ASSUME NEW p \in Procs, proc[p].pc \in Sections
        PROVE  /\ ManagerCores = {}
               /\ \A q \in Procs \ {p} : proc[q].pc \notin Sections
    <3>1. \A step \in Sections : step \notin Unlocked /\ step \notin Waits
      BY DEF Sections, Unlocked, Operations, Waits
    <3>2. Locked(p) /\ proc[p].pc \notin Waits
      BY <2>2, <3>1 DEF Locked
    <3>3. ManagerCores = {}
      BY <1>1, <3>2, Alone DEF ManagerInv
    <3>4. \A q \in Procs \ {p} : ~Locked(q)
      BY <1>1, <3>2 DEF ManagerInv, Exclusive
    <3>5. QED
      BY <3>1, <3>3, <3>4 DEF Locked
  <2>3. QED
    BY <2>1, <2>2 DEF Serialized
<1>2. ManagerInv => Serialized
  BY <1>1 DEF Serialized
<1>3. QED
  BY <1>2, ManagerInductive, PTL

\* run_all and the sessions order only for targets somebody has said yes to:
\* apply_new_website keeps a new configuration in .pending until then, and an
\* archive never holds an unconfirmed one where run_all looks.
THEOREM OrdersAreConfirmed == Spec => []OnlyConfirmedRuns
<1>1. ManagerInv => OnlyConfirmedRuns
  BY DEF ManagerInv, AllConfirmed
<1>2. QED
  BY <1>1, ManagerInductive, PTL
=============================================================================
