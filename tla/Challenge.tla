------------------------------ MODULE Challenge ------------------------------
(***************************************************************************)
(* HTTP-01 challenges: the provider and its recovery in                    *)
(* src/internal/challenge/provider.go over the table                       *)
(* edgeACMEAuthentications (mysql.go), which is shared with GoEdge and     *)
(* with the managers of other targets, and over the journal                *)
(* pending_challenges (src/internal/state/challenge.go).                   *)
(*                                                                         *)
(* A run recovers the journal, then lets operation o present a challenge,  *)
(* waits for the CA and cleans up.  Row ids can be used again once free.   *)
(***************************************************************************)
EXTENDS Integers, FiniteSets

CONSTANTS
  Tokens,       \* tokens the CA hands out; one can return in a later order
  MaxOps,       \* bound: operations that present a challenge
  MaxId,        \* bound: row ids
  MaxForeign,   \* bound: rows others hold at the same time
  MaxFaults,    \* bound: faults in one behaviour
  Faults        \* kinds of fault that can happen

FaultKinds == {"crash",         \* the process is killed
               "mysql",         \* a MySQL statement fails and has no effect
               "lost_insert",   \* the INSERT is applied and its reply is lost
               "lost_delete",   \* the DELETE is applied and its reply is lost
               "disk",          \* a write to the journal fails
               "vanish"}        \* someone else deletes a row of this service

ASSUME ChallengeAssumption ==
  /\ {MaxOps, MaxId, MaxForeign, MaxFaults} \subseteq Nat
  /\ Faults \subseteq FaultKinds

VARIABLES
  rows,      \* edgeACMEAuthentications; by = 0 marks the rows of others
  journal,   \* pending_challenges
  clock,     \* seconds
  nops,      \* operations so far
  proc,      \* the process: step, purpose of a deletion, entry and row id
  gone,      \* history: operations whose row someone else deleted
  faults

vars == <<rows, journal, clock, nops, proc, gone, faults>>

Stopped == [pc |-> "idle", phase |-> "none", op |-> 0, row |-> 0]

FreeIds == (1..MaxId) \ {r.id : r \in rows}

Ours == {r \in rows : r.by # 0}
Others == rows \ Ours

Entry(o) == CHOOSE e \in journal : e.op = o

\* Mutant: the row is selected by its id alone.
SelectedById(id, token) == {r \in rows : r.id = id}

\* DELETE ... WHERE id=? AND taskId=0 AND domain=? AND token=?
Selected(id, token) ==
  {r \in rows : r.id = id /\ r.task = 0 /\ r.domain = "self" /\ r.token = token}

\* FindOwned
Owned(e) == {r \in rows : /\ r.task = 0 /\ r.domain = "self"
                          /\ r.token = e.token /\ r.created = e.created}

Fault(k) == k \in Faults /\ faults < MaxFaults /\ faults' = faults + 1

At(pc) == proc.pc = pc
Goto(pc) == proc' = [proc EXCEPT !.pc = pc]
Stop == proc' = Stopped

\* The error of a deletion ends the run, except that CleanUp only warns.
Done == IF proc.phase = "recover" THEN proc' = [Stopped EXCEPT !.pc = "recover"]
                                  ELSE Stop

-----------------------------------------------------------------------------
Start ==
  /\ proc = Stopped
  /\ Goto("recover")
  /\ UNCHANGED <<rows, journal, clock, nops, faults, gone>>

\* Mutant: an entry without a row id is not recovered.
RecoverNextKnown ==
  /\ At("recover")
  /\ \E e \in journal :
       e.row > 0 /\ proc' = [Stopped EXCEPT !.pc = "resolve", !.phase = "recover",
                                            !.op = e.op]
  /\ UNCHANGED <<rows, journal, clock, nops, faults, gone>>

\* Recover: the next entry of the journal.
RecoverNext ==
  /\ At("recover")
  /\ \E e \in journal :
       proc' = [Stopped EXCEPT !.pc = "resolve", !.phase = "recover", !.op = e.op]
  /\ UNCHANGED <<rows, journal, clock, nops, faults, gone>>

\* Mutant: a run orders with entries still in the journal.
RecoverDoneEarly ==
  /\ At("recover")
  /\ IF nops < MaxOps THEN Goto("begin") ELSE Stop
  /\ UNCHANGED <<rows, journal, clock, nops, faults, gone>>

RecoverDone ==
  /\ At("recover")
  /\ journal = {}
  /\ IF nops < MaxOps THEN Goto("begin") ELSE Stop
  /\ UNCHANGED <<rows, journal, clock, nops, faults, gone>>

(***************************************************************************)
(* Provider.Present: journal first, then the row, then its id.             *)
(***************************************************************************)
BeginChallenge ==
  /\ At("begin")
  /\ nops' = nops + 1
  /\ clock' \in {clock, clock + 1}
  /\ \E t \in Tokens :
       journal' = journal \cup
         {[op |-> nops + 1, token |-> t, created |-> clock', row |-> 0]}
  /\ proc' = [proc EXCEPT !.pc = "insert", !.op = nops + 1]
  /\ UNCHANGED <<rows, faults, gone>>

InsertRow(id) ==
  LET e == Entry(proc.op) IN
    rows' = rows \cup {[id |-> id, task |-> 0, domain |-> "self",
                        token |-> e.token, created |-> e.created, by |-> e.op]}

\* Mutant: the error of the INSERT is not looked at.
CreateRowUnchecked ==
  /\ At("insert")
  /\ \/ \E id \in FreeIds :
          InsertRow(id) /\ proc' = [proc EXCEPT !.pc = "row_id", !.row = id]
          /\ UNCHANGED faults
     \/ Fault("mysql") /\ Goto("row_id") /\ UNCHANGED rows
  /\ UNCHANGED <<journal, clock, nops, gone>>

CreateRow ==
  /\ At("insert")
  /\ \/ \E id \in FreeIds :
          /\ InsertRow(id)
          /\ \/ proc' = [proc EXCEPT !.pc = "row_id", !.row = id]
                /\ UNCHANGED faults
             \/ Fault("lost_insert") /\ Goto("drop")
     \/ Fault("mysql") /\ Goto("drop") /\ UNCHANGED rows
  /\ UNCHANGED <<journal, clock, nops, gone>>

\* The error path of Present forgets the entry, and ignores whether it could.
DropEntry ==
  /\ At("drop")
  /\ \/ journal' = journal \ {Entry(proc.op)} /\ UNCHANGED faults
     \/ Fault("disk") /\ UNCHANGED journal
  /\ Stop
  /\ UNCHANGED <<rows, clock, nops, gone>>

SetChallengeRowID ==
  /\ At("row_id")
  /\ \/ /\ journal' = (journal \ {Entry(proc.op)})
                        \cup {[Entry(proc.op) EXCEPT !.row = proc.row]}
        /\ Goto("validating")
        /\ UNCHANGED faults
     \/ /\ Fault("disk")
        /\ proc' = [proc EXCEPT !.pc = "delete", !.phase = "undo"]
        /\ UNCHANGED journal
  /\ UNCHANGED <<rows, clock, nops, gone>>

(***************************************************************************)
(* The CA has validated or given up; the ACME client calls CleanUp.        *)
(***************************************************************************)
CleanUp ==
  /\ At("validating")
  /\ proc' = [proc EXCEPT !.pc = "resolve", !.phase = "cleanup", !.row = 0]
  /\ UNCHANGED <<rows, journal, clock, nops, faults, gone>>

\* resolveOwned.  Recover drops an entry without a row; CleanUp leaves it.
Resolve ==
  /\ At("resolve")
  /\ LET e == Entry(proc.op)
         found == Owned(e) IN
       \/ /\ e.row > 0
          /\ proc' = [proc EXCEPT !.pc = "delete", !.row = e.row]
          /\ UNCHANGED faults
       \/ /\ e.row = 0
          /\ IF Cardinality(found) = 1
             THEN \E r \in found : proc' = [proc EXCEPT !.pc = "delete", !.row = r.id]
             ELSE IF found = {} /\ proc.phase = "recover"
                  THEN Goto("complete")
                  ELSE Stop
          /\ UNCHANGED faults
       \/ e.row = 0 /\ Fault("mysql") /\ Stop
  /\ UNCHANGED <<rows, journal, clock, nops, gone>>

\* Mutant: the entry is completed although the DELETE failed.
DeleteRowUnchecked ==
  /\ At("delete")
  /\ LET sel == Selected(proc.row, Entry(proc.op).token) IN
       \/ rows' = rows \ sel /\ UNCHANGED faults
       \/ Fault("mysql") /\ UNCHANGED rows
  /\ Goto("complete")
  /\ UNCHANGED <<journal, clock, nops, gone>>

\* A row that is gone already counts as deleted.
DeleteRow ==
  /\ At("delete")
  /\ LET sel == Selected(proc.row, Entry(proc.op).token) IN
       \/ rows' = rows \ sel /\ Goto("complete") /\ UNCHANGED faults
       \/ rows' = rows \ sel /\ Fault("lost_delete") /\ Stop
       \/ Fault("mysql") /\ Stop /\ UNCHANGED rows
  /\ UNCHANGED <<journal, clock, nops, gone>>

CompleteChallenge ==
  /\ At("complete")
  /\ \/ journal' = journal \ {Entry(proc.op)} /\ Done /\ UNCHANGED faults
     \/ Fault("disk") /\ Stop /\ UNCHANGED journal
  /\ UNCHANGED <<rows, clock, nops, gone>>

-----------------------------------------------------------------------------
Crash ==
  /\ proc # Stopped
  /\ Fault("crash")
  /\ Stop
  /\ UNCHANGED <<rows, journal, clock, nops, gone>>

\* Rows of GoEdge's own ACME tasks and of the managers of other addresses.
OthersInsert ==
  /\ Cardinality(Others) < MaxForeign
  /\ \E id \in FreeIds, t \in Tokens :
       \E w \in {[task |-> 1, domain |-> "self"], [task |-> 0, domain |-> "other"]} :
         rows' = rows \cup {[id |-> id, task |-> w.task, domain |-> w.domain,
                             token |-> t, created |-> clock, by |-> 0]}
  /\ UNCHANGED <<journal, clock, nops, proc, faults, gone>>

OthersDelete ==
  /\ \E r \in Others : rows' = rows \ {r}
  /\ UNCHANGED <<journal, clock, nops, proc, faults, gone>>

RowVanishes ==
  /\ Fault("vanish")
  /\ \E r \in Ours : rows' = rows \ {r} /\ gone' = gone \cup {r.by}
  /\ UNCHANGED <<journal, clock, nops, proc>>

Init ==
  /\ rows = {} /\ journal = {} /\ clock = 0 /\ nops = 0
  /\ proc = Stopped /\ gone = {} /\ faults = 0

Step == RecoverNext \/ RecoverDone \/ BeginChallenge \/ CreateRow \/ DropEntry
        \/ SetChallengeRowID \/ CleanUp \/ Resolve \/ DeleteRow \/ CompleteChallenge

Next == Start \/ Step \/ Crash \/ OthersInsert \/ OthersDelete \/ RowVanishes

Spec == Init /\ [][Next]_vars

\* The timer starts runs and a started run keeps going.
FairSpec == Spec /\ WF_vars(Start) /\ WF_vars(Step)
-----------------------------------------------------------------------------
Rows == [id : 1..MaxId, task : {0, 1}, domain : {"self", "other"},
         token : Tokens, created : Nat, by : 0..MaxOps]

Entries == [op : 1..MaxOps, token : Tokens, created : Nat, row : 0..MaxId]

Processes == [pc : {"idle", "recover", "begin", "insert", "drop", "row_id",
                    "validating", "resolve", "delete", "complete"},
              phase : {"none", "recover", "undo", "cleanup"},
              op : 0..MaxOps, row : 0..MaxId]

\* Every variable stays in its type; TLAPS proves it, as a part of ChallengeInv.
TypeOK ==
  /\ rows \subseteq Rows
  /\ journal \subseteq Entries
  /\ clock \in Nat /\ nops \in 0..MaxOps /\ gone \subseteq 1..MaxOps
  /\ faults \in Nat
  /\ proc \in Processes

\* A step of this service removes no row but its own: not one of GoEdge or of
\* the manager of another address, even when that row has the same token, or
\* has got the row id that is still in the journal.
DeletesOnlyOwnRows ==
  [][Step => \A r \in rows \ rows' : r.by # 0]_vars

\* The journal knows every row of this service: no crash or failure leaves a
\* row behind that the next run does not find.
RowsAreJournaled == \A r \in Ours : \E e \in journal : e.op = r.by

\* At most one entry is ever pending, and it never matches two rows, so that
\* Recover does not refuse it as ambiguous.
NeverAmbiguous ==
  /\ \A e, f \in journal : e = f
  /\ \A e \in journal : e.row = 0 => Cardinality(Owned(e)) <= 1

\* While the CA may ask for the challenge its row is in the table, unless
\* someone else deleted it.
ServedWhileValidating ==
  At("validating") => proc.op \in gone \cup {r.by : r \in Ours}

\* Every row of this service is removed in the end.
RowsAreRemoved == Ours # {} ~> Ours = {}
=============================================================================
