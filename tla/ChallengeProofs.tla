--------------------------- MODULE ChallengeProofs ---------------------------
(***************************************************************************)
(* Why the safety properties of Challenge hold, for any number of          *)
(* operations, tokens, rows and faults: what each step of the provider and *)
(* of its recovery finds in the journal (JournalInv, whatever fails) and   *)
(* in the table (ChallengeInv).  The second leaves out one fault, an       *)
(* INSERT that is applied but reported as failed: it breaks                *)
(* RowsAreJournaled, as the run challenge_lost_insert shows.               *)
(***************************************************************************)
EXTENDS Challenge, FiniteSetTheorems, TLAPS

RepliesArrive == "lost_insert" \notin Faults

\* Rows of others are told apart by their task or their address.
OthersDiffer == \A r \in rows : r.by = 0 => ~(r.task = 0 /\ r.domain = "self")

OneEntry == \A e, f \in journal : e = f

WithEntry == {"insert", "drop", "row_id", "validating", "resolve", "delete", "complete"}

\* What the steps of a run find in the journal, and the row they count on.
EntryAtStep ==
  /\ proc.pc \in WithEntry => \E e \in journal : e.op = proc.op
  /\ At("begin") => journal = {} /\ nops < MaxOps
  /\ At("insert") => \A e \in journal : e.row = 0
  /\ proc.pc \in {"row_id", "validating"} => proc.op \in gone \cup {r.by : r \in Ours}

JournalInv == TypeOK /\ OthersDiffer /\ OneEntry /\ EntryAtStep

\* One row of ours at most, and it is the one of the entry.
Single ==
  /\ \A r, s \in Ours : r = s
  /\ \A r \in Ours : \E e \in journal :
       /\ e.op = r.by /\ e.token = r.token /\ e.created = r.created
       /\ e.row \in {0, r.id}
       /\ r.task = 0 /\ r.domain = "self"

\* What the steps of a run find in the table.
RowAtStep ==
  /\ proc.pc \in {"insert", "drop", "complete"} => Ours = {}
  /\ proc.pc \in {"row_id", "delete"} => \A r \in Ours : r.id = proc.row

ChallengeInv == JournalInv /\ Single /\ RowAtStep

-----------------------------------------------------------------------------
\* At a step with an entry, Entry(proc.op) is the journal's only one.
LEMMA EntryOfStep ==
  ASSUME JournalInv, proc.pc \in WithEntry
  PROVE  /\ Entry(proc.op) \in journal
         /\ Entry(proc.op).op = proc.op
         /\ journal = {Entry(proc.op)}
         /\ Entry(proc.op) \in Entries
<1>1. PICK e \in journal : e.op = proc.op
  BY DEF JournalInv, EntryAtStep
<1>2. Entry(proc.op) \in journal /\ Entry(proc.op).op = proc.op
  BY <1>1 DEF Entry
<1>3. \A f \in journal : f = Entry(proc.op)
  BY <1>2 DEF JournalInv, OneEntry
<1>4. QED
  BY <1>2, <1>3 DEF JournalInv, TypeOK

\* A row of ours has the token and the columns that Delete and FindOwned use.
LEMMA OursMatch ==
  ASSUME ChallengeInv, proc.pc \in WithEntry, NEW r \in Ours
  PROVE  /\ r.by = proc.op /\ r.task = 0 /\ r.domain = "self"
         /\ r.token = Entry(proc.op).token /\ r.created = Entry(proc.op).created
         /\ Entry(proc.op).row \in {0, r.id}
<1>1. PICK e \in journal : /\ e.op = r.by /\ e.token = r.token /\ e.created = r.created
                           /\ e.row \in {0, r.id}
                           /\ r.task = 0 /\ r.domain = "self"
  BY DEF ChallengeInv, Single
<1>2. e = Entry(proc.op) /\ e.op = proc.op
  BY EntryOfStep DEF ChallengeInv
<1>3. QED
  BY <1>1, <1>2

\* What the DELETE selects is ours, with a row left over from a lost INSERT too.
LEMMA SelectedOursOnly ==
  ASSUME JournalInv, NEW id, NEW token
  PROVE  Selected(id, token) \subseteq Ours
BY DEF Selected, JournalInv, OthersDiffer, Ours

\* It is all of ours at the step of the DELETE.
LEMMA SelectedIsOurs ==
  ASSUME ChallengeInv, At("delete")
  PROVE  Selected(proc.row, Entry(proc.op).token) = Ours
<1>1. ASSUME NEW r \in Ours PROVE r \in Selected(proc.row, Entry(proc.op).token)
  <2>1. r.id = proc.row
    BY DEF ChallengeInv, RowAtStep, At
  <2>2. QED
    BY <2>1, OursMatch DEF Selected, At, WithEntry, Ours
<1>2. QED
  BY <1>1, SelectedOursOnly DEF ChallengeInv

LEMMA TypedProcess ==
  ASSUME proc \in Processes
  PROVE  /\ Stopped \in Processes
         /\ [Stopped EXCEPT !.pc = "recover"] \in Processes
         /\ \A pc \in {"recover", "begin", "insert", "drop", "row_id", "validating",
                       "complete"} : [proc EXCEPT !.pc = pc] \in Processes
         /\ [proc EXCEPT !.pc = "delete", !.phase = "undo"] \in Processes
         /\ [proc EXCEPT !.pc = "resolve", !.phase = "cleanup", !.row = 0] \in Processes
<1> USE ChallengeAssumption DEF Processes, Stopped
<1>1. 0 \in 0..MaxOps /\ 0 \in 0..MaxId
  OBVIOUS
<1>2. Stopped \in Processes
  BY <1>1
<1>3. [Stopped EXCEPT !.pc = "recover"] \in Processes
  BY <1>2
<1>4. \A pc \in {"recover", "begin", "insert", "drop", "row_id", "validating",
                "complete"} : [proc EXCEPT !.pc = pc] \in Processes
  OBVIOUS
<1>5. [proc EXCEPT !.pc = "delete", !.phase = "undo"] \in Processes
  OBVIOUS
<1>6. [proc EXCEPT !.pc = "resolve", !.phase = "cleanup", !.row = 0] \in Processes
  BY <1>1
<1>7. QED
  BY <1>2, <1>3, <1>4, <1>5, <1>6

LEMMA TypedForOperation ==
  ASSUME proc \in Processes, NEW o \in 0..MaxOps
  PROVE  /\ [Stopped EXCEPT !.pc = "resolve", !.phase = "recover", !.op = o] \in Processes
         /\ [proc EXCEPT !.pc = "insert", !.op = o] \in Processes
<1>1. Stopped \in Processes
  BY TypedProcess
<1>2. QED
  BY <1>1 DEF Processes

LEMMA TypedForRow ==
  ASSUME proc \in Processes, NEW i \in 0..MaxId
  PROVE  /\ [proc EXCEPT !.pc = "row_id", !.row = i] \in Processes
         /\ [proc EXCEPT !.pc = "delete", !.row = i] \in Processes
  BY DEF Processes

LEMMA TypedStep ==
  ASSUME JournalInv, [Next]_vars PROVE TypeOK'
<1> USE ChallengeAssumption DEF JournalInv, TypeOK, At, Goto, Stop, Done, Fault
<1>1. CASE Start
  BY <1>1, TypedProcess DEF Start
<1>2. CASE RecoverNext
  <2>1. PICK e \in journal :
          proc' = [Stopped EXCEPT !.pc = "resolve", !.phase = "recover", !.op = e.op]
    BY <1>2 DEF RecoverNext
  <2>2. proc' \in Processes
    <3>1. e.op \in 0..MaxOps
      BY DEF Entries
    <3>2. QED
      BY ONLY <2>1, <3>1, TypedForOperation, JournalInv DEF JournalInv, TypeOK
  <2>3. QED
    BY <1>2, <2>2 DEF RecoverNext
<1>3. CASE RecoverDone
  BY <1>3, TypedProcess DEF RecoverDone
<1>4. CASE BeginChallenge
  <2>1. nops + 1 \in 1..MaxOps
    BY <1>4 DEF BeginChallenge, EntryAtStep
  <2>2. clock' \in Nat
    BY <1>4 DEF BeginChallenge
  <2>3. PICK t \in Tokens : journal' = journal \cup
          {[op |-> nops + 1, token |-> t, created |-> clock', row |-> 0]}
    BY <1>4 DEF BeginChallenge
  <2>4. [op |-> nops + 1, token |-> t, created |-> clock', row |-> 0] \in Entries
    BY <2>1, <2>2 DEF Entries
  <2>5. proc' \in Processes
    <3>1. nops + 1 \in 0..MaxOps /\ proc' = [proc EXCEPT !.pc = "insert", !.op = nops + 1]
      BY <1>4, <2>1 DEF BeginChallenge
    <3>2. QED
      BY ONLY <3>1, TypedForOperation, JournalInv DEF JournalInv, TypeOK
  <2>6. QED
    BY <1>4, <2>1, <2>2, <2>3, <2>4, <2>5 DEF BeginChallenge
<1>5. CASE CreateRow
  <2>1. Entry(proc.op) \in Entries
    BY <1>5, EntryOfStep DEF CreateRow, WithEntry
  <2>2. ASSUME NEW id \in FreeIds, InsertRow(id) PROVE rows' \subseteq Rows
    BY <2>1, <2>2 DEF InsertRow, FreeIds, Rows, Entries
  <2>3. ASSUME NEW id \in FreeIds
        PROVE  [proc EXCEPT !.pc = "row_id", !.row = id] \in Processes
    <3>1. id \in 0..MaxId
      BY DEF FreeIds
    <3>2. QED
      BY ONLY <3>1, TypedForRow, JournalInv DEF JournalInv, TypeOK
  <2>4. rows' \subseteq Rows
    BY <1>5, <2>2 DEF CreateRow
  <2>5. proc' \in Processes /\ faults' \in Nat
    <3>1. [proc EXCEPT !.pc = "drop"] \in Processes
      BY TypedProcess
    <3>2. \/ \E id \in FreeIds : proc' = [proc EXCEPT !.pc = "row_id", !.row = id]
          \/ proc' = [proc EXCEPT !.pc = "drop"]
      BY <1>5 DEF CreateRow
    <3>3. proc' \in Processes
      BY ONLY <2>3, <3>1, <3>2
    <3>4. faults' \in {faults, faults + 1}
      BY <1>5 DEF CreateRow
    <3>5. QED
      BY ONLY <3>3, <3>4, JournalInv DEF JournalInv, TypeOK
  <2>6. QED
    BY <1>5, <2>4, <2>5 DEF CreateRow
<1>6. CASE DropEntry
  BY <1>6, TypedProcess DEF DropEntry
<1>7. CASE SetChallengeRowID
  <2>1. [Entry(proc.op) EXCEPT !.row = proc.row]
          \in Entries
    BY <1>7, EntryOfStep DEF SetChallengeRowID, WithEntry, Entries, Processes
  <2>2. QED
    BY <1>7, <2>1, TypedProcess DEF SetChallengeRowID
<1>8. CASE CleanUp
  BY <1>8, TypedProcess DEF CleanUp
<1>9. CASE Resolve
  <2>1. Entry(proc.op).row \in 0..MaxId
    BY <1>9, EntryOfStep DEF Resolve, WithEntry, Entries
  <2>2. \A r \in Owned(Entry(proc.op)) : r.id \in 0..MaxId
    BY DEF Owned, Rows
  <2>3. ASSUME NEW n \in 0..MaxId
        PROVE  [proc EXCEPT !.pc = "delete", !.row = n] \in Processes
    BY ONLY TypedForRow, JournalInv DEF JournalInv, TypeOK
  <2>4. proc' \in Processes /\ faults' \in Nat
    <3>1. Stopped \in Processes /\ [proc EXCEPT !.pc = "complete"] \in Processes
      BY TypedProcess
    <3>2. \/ proc' = [proc EXCEPT !.pc = "delete", !.row = Entry(proc.op).row]
          \/ \E r \in Owned(Entry(proc.op)) :
               proc' = [proc EXCEPT !.pc = "delete", !.row = r.id]
          \/ proc' = [proc EXCEPT !.pc = "complete"]
          \/ proc' = Stopped
      BY <1>9 DEF Resolve
    <3>3. proc' \in Processes
      BY ONLY <2>1, <2>2, <2>3, <3>1, <3>2
    <3>4. faults' \in {faults, faults + 1}
      BY <1>9 DEF Resolve
    <3>5. QED
      BY ONLY <3>3, <3>4, JournalInv DEF JournalInv, TypeOK
  <2>5. QED
    BY <1>9, <2>4 DEF Resolve
<1>10. CASE DeleteRow
  BY <1>10, TypedProcess DEF DeleteRow, Selected
<1>11. CASE CompleteChallenge
  BY <1>11, TypedProcess DEF CompleteChallenge
<1>12. CASE Crash
  BY <1>12, TypedProcess DEF Crash
<1>13. CASE OthersInsert
  BY <1>13 DEF OthersInsert, FreeIds, Rows
<1>14. CASE OthersDelete
  BY <1>14 DEF OthersDelete
<1>15. CASE RowVanishes
  <2>1. PICK r \in Ours : rows' = rows \ {r} /\ gone' = gone \cup {r.by}
    BY <1>15 DEF RowVanishes
  <2>2. r.by \in 1..MaxOps
    BY <2>1 DEF Ours, Rows
  <2>3. rows' \subseteq Rows /\ gone' \subseteq 1..MaxOps
    BY ONLY <2>1, <2>2, JournalInv DEF JournalInv, TypeOK
  <2>4. QED
    BY <1>15, <2>3 DEF RowVanishes
<1>16. CASE UNCHANGED vars
  BY <1>16 DEF vars
<1>17. QED
  BY <1>1, <1>2, <1>3, <1>4, <1>5, <1>6, <1>7, <1>8, <1>9, <1>10, <1>11, <1>12,
     <1>13, <1>14, <1>15, <1>16 DEF Next, Step

-----------------------------------------------------------------------------
LEMMA OthersDifferStep ==
  ASSUME JournalInv, [Next]_vars PROVE OthersDiffer'
<1> USE DEF JournalInv, OthersDiffer
<1>1. CASE CreateRow
  <2>1. Entry(proc.op).op \in 1..MaxOps
    BY <1>1, EntryOfStep DEF CreateRow, At, WithEntry, Entries
  <2>2. Entry(proc.op).op # 0
    BY <2>1, ChallengeAssumption
  <2>3. ASSUME NEW id \in FreeIds, InsertRow(id) PROVE OthersDiffer'
    BY <2>2, <2>3 DEF InsertRow
  <2>4. QED
    BY <1>1, <2>3 DEF CreateRow
<1>2. CASE OthersInsert
  BY <1>2 DEF OthersInsert
<1>3. CASE rows' \subseteq rows
  BY <1>3
<1>4. CASE Start \/ RecoverNext \/ RecoverDone \/ BeginChallenge \/ DropEntry
           \/ SetChallengeRowID \/ CleanUp \/ Resolve \/ CompleteChallenge \/ Crash
  BY <1>3, <1>4 DEF Start, RecoverNext, RecoverDone, BeginChallenge, DropEntry,
     SetChallengeRowID, CleanUp, Resolve, CompleteChallenge, Crash
<1>5. CASE DeleteRow \/ OthersDelete \/ RowVanishes \/ UNCHANGED vars
  BY <1>3, <1>5 DEF DeleteRow, OthersDelete, RowVanishes, vars
<1>6. QED
  BY <1>1, <1>2, <1>4, <1>5 DEF Next, Step

\* The journal never has a second entry: a run orders once it is empty.
LEMMA OneEntryStep ==
  ASSUME JournalInv, [Next]_vars PROVE OneEntry'
<1> USE DEF OneEntry
<1>1. ASSUME journal' \subseteq journal PROVE OneEntry'
  BY <1>1 DEF JournalInv
<1>2. CASE BeginChallenge
  BY <1>2 DEF BeginChallenge, JournalInv, EntryAtStep
<1>3. CASE SetChallengeRowID
  BY <1>1, <1>3, EntryOfStep DEF SetChallengeRowID, At, WithEntry
<1>4. CASE DropEntry \/ CompleteChallenge
  BY <1>1, <1>4 DEF DropEntry, CompleteChallenge
<1>5. CASE Start \/ RecoverNext \/ RecoverDone \/ CreateRow \/ CleanUp \/ Resolve
           \/ DeleteRow
  BY <1>1, <1>5 DEF Start, RecoverNext, RecoverDone, CreateRow, CleanUp, Resolve,
     DeleteRow
<1>6. CASE Crash \/ OthersInsert \/ OthersDelete \/ RowVanishes \/ UNCHANGED vars
  BY <1>1, <1>6 DEF Crash, OthersInsert, OthersDelete, RowVanishes, vars
<1>7. QED
  BY <1>2, <1>3, <1>4, <1>5, <1>6 DEF Next, Step

LEMMA EntryAtStepStep ==
  ASSUME JournalInv, [Next]_vars PROVE EntryAtStep'
<1> USE DEF JournalInv, EntryAtStep, At, Goto, Stop, Done, Stopped
<1>0. proc \in Processes
  BY DEF TypeOK
<1>1. CASE Start
  BY <1>1 DEF Start, WithEntry
<1>2. CASE RecoverNext
  <2>1. PICK e \in journal :
          proc' = [Stopped EXCEPT !.pc = "resolve", !.phase = "recover", !.op = e.op]
    BY <1>2 DEF RecoverNext
  <2>2. proc'.pc = "resolve" /\ proc'.op = e.op /\ journal' = journal
    BY <1>2, <2>1 DEF RecoverNext
  <2>3. QED
    BY <2>2 DEF WithEntry
<1>3. CASE RecoverDone
  BY <1>0, <1>3 DEF RecoverDone, WithEntry, Processes
<1>4. CASE BeginChallenge
  <2>1. PICK t \in Tokens :
          journal' = {[op |-> nops + 1, token |-> t, created |-> clock', row |-> 0]}
    BY <1>4 DEF BeginChallenge
  <2>2. proc'.pc = "insert" /\ proc'.op = nops + 1
    BY <1>0, <1>4 DEF BeginChallenge, Processes
  <2>3. QED
    BY <2>1, <2>2
<1>5. CASE CreateRow
  <2>0. /\ Entry(proc.op) \in journal /\ Entry(proc.op).op = proc.op
        /\ Entry(proc.op) \in Entries
    BY <1>5, EntryOfStep DEF CreateRow, WithEntry
  <2>1. journal' = journal
    BY <1>5 DEF CreateRow
  <2>2. CASE \E id \in FreeIds : /\ InsertRow(id)
                                /\ proc' = [proc EXCEPT !.pc = "row_id", !.row = id]
    <3>1. PICK id \in FreeIds : /\ InsertRow(id)
                                /\ proc' = [proc EXCEPT !.pc = "row_id", !.row = id]
      BY <2>2
    <3> DEFINE new == [id |-> id, task |-> 0, domain |-> "self",
                       token |-> Entry(proc.op).token,
                       created |-> Entry(proc.op).created, by |-> Entry(proc.op).op]
    <3>2. proc'.pc = "row_id" /\ proc'.op = proc.op
      BY <1>0, <3>1 DEF Processes
    <3>3. Entry(proc.op).op # 0
      BY <2>0, ChallengeAssumption DEF Entries
    <3>4. new \in Ours'
      BY <3>1, <3>3 DEF InsertRow, Ours
    <3>5. new.by = proc'.op
      BY <2>0, <3>2
    <3> HIDE DEF new
    <3>6. proc'.op \in {r.by : r \in Ours'}
      BY <3>4, <3>5
    <3>7. QED
      BY <2>0, <2>1, <3>2, <3>6
  <2>3. CASE Goto("drop")
    <3>1. proc'.pc = "drop" /\ proc'.op = proc.op
      BY <1>0, <2>3 DEF Processes
    <3>2. QED
      BY <2>0, <2>1, <3>1
  <2>4. QED
    BY <1>5, <2>2, <2>3 DEF CreateRow
<1>6. CASE proc'.pc = "idle"
  BY <1>6 DEF WithEntry
<1>7. CASE DropEntry \/ Crash
  BY <1>6, <1>7 DEF DropEntry, Crash
<1>8. CASE SetChallengeRowID
  <2>0. /\ Entry(proc.op) \in journal /\ Entry(proc.op).op = proc.op
        /\ Entry(proc.op) \in Entries /\ proc.pc = "row_id"
    BY <1>8, EntryOfStep DEF SetChallengeRowID, WithEntry
  <2>1. Ours' = Ours /\ gone' = gone /\ proc'.op = proc.op
    BY <1>0, <1>8 DEF SetChallengeRowID, Ours, Processes
  <2>2. proc'.pc \in {"validating", "delete"}
    BY <1>0, <1>8 DEF SetChallengeRowID, Processes
  <2>3. \E e \in journal' : e.op = proc.op
    <3>1. [Entry(proc.op) EXCEPT !.row = proc.row].op = proc.op
      BY <2>0 DEF Entries
    <3>2. QED
      BY <1>8, <2>0, <3>1 DEF SetChallengeRowID
  <2>4. proc.op \in gone \cup {r.by : r \in Ours}
    BY <2>0
  <2>5. {r.by : r \in Ours'} = {r.by : r \in Ours}
    BY <2>1
  <2>6. QED
    BY <2>1, <2>2, <2>3, <2>4, <2>5
<1>9. CASE CleanUp
  BY <1>0, <1>9 DEF CleanUp, WithEntry, Processes
<1>10. CASE Resolve \/ DeleteRow
  <2>0. journal' = journal /\ \E e \in journal : e.op = proc.op
    BY <1>10 DEF Resolve, DeleteRow, WithEntry
  <2>1. proc'.pc \in {"delete", "complete", "idle"} /\ (proc'.pc = "idle" \/ proc'.op = proc.op)
    <3>1. \/ proc' = Stopped
          \/ \E i : proc' = [proc EXCEPT !.pc = "delete", !.row = i]
          \/ proc' = [proc EXCEPT !.pc = "complete"]
      BY <1>10 DEF Resolve, DeleteRow
    <3>2. ASSUME NEW i, proc' = [proc EXCEPT !.pc = "delete", !.row = i]
          PROVE  proc'.pc = "delete" /\ proc'.op = proc.op
      BY <1>0, <3>2 DEF Processes
    <3>3. CASE proc' = [proc EXCEPT !.pc = "complete"]
      BY <1>0, <3>3 DEF Processes
    <3>4. CASE proc' = Stopped
      BY <3>4
    <3>5. QED
      BY <3>1, <3>2, <3>3, <3>4
  <2>2. QED
    BY <2>0, <2>1 DEF WithEntry
<1>11. CASE CompleteChallenge
  BY <1>0, <1>11 DEF CompleteChallenge, WithEntry, Processes
<1>12. CASE OthersInsert \/ OthersDelete \/ UNCHANGED vars
  <2>1. UNCHANGED <<journal, nops, proc, gone>>
    BY <1>12 DEF OthersInsert, OthersDelete, vars
  <2>2. Ours' = Ours
    BY <1>12 DEF OthersInsert, OthersDelete, Others, Ours, vars
  <2>3. QED
    BY <2>1, <2>2
<1>13. CASE RowVanishes
  <2>1. UNCHANGED <<journal, nops, proc>>
    BY <1>13 DEF RowVanishes
  <2>2. PICK r \in Ours : rows' = rows \ {r} /\ gone' = gone \cup {r.by}
    BY <1>13 DEF RowVanishes
  <2>3. Ours' = Ours \ {r}
    BY <2>2 DEF Ours
  <2>4. gone \cup {s.by : s \in Ours} \subseteq gone' \cup {s.by : s \in Ours'}
    BY <2>2, <2>3
  <2>5. QED
    BY <2>1, <2>4
<1>14. QED
  BY <1>1, <1>2, <1>3, <1>4, <1>5, <1>7, <1>8, <1>9, <1>10, <1>11, <1>12, <1>13
     DEF Next, Step

LEMMA SingleStep ==
  ASSUME ChallengeInv, [Next]_vars PROVE Single'
<1>1. ASSUME Ours' \subseteq Ours, journal' = journal PROVE Single'
  BY <1>1 DEF ChallengeInv, Single
<1>2. CASE BeginChallenge
  <2>1. journal = {} /\ Ours = {}
    BY <1>2 DEF BeginChallenge, ChallengeInv, JournalInv, EntryAtStep, Single
  <2>2. Ours' = {}
    BY <1>2, <2>1 DEF BeginChallenge, Ours
  <2>3. QED
    BY <2>2 DEF Single
<1>3. CASE CreateRow
  <2>1. /\ Entry(proc.op) \in journal /\ Entry(proc.op) \in Entries
        /\ Entry(proc.op).row = 0 /\ Ours = {}
    BY <1>3, EntryOfStep DEF CreateRow, At, WithEntry, ChallengeInv, JournalInv,
       EntryAtStep, RowAtStep
  <2>2. CASE \E id \in FreeIds : InsertRow(id)
    <3>1. PICK id \in FreeIds : InsertRow(id)
      BY <2>2
    <3>2. Ours' \subseteq {[id |-> id, task |-> 0, domain |-> "self",
                            token |-> Entry(proc.op).token,
                            created |-> Entry(proc.op).created,
                            by |-> Entry(proc.op).op]}
      BY <2>1, <3>1 DEF InsertRow, Ours
    <3>3. journal' = journal
      BY <1>3 DEF CreateRow
    <3>4. QED
      BY <2>1, <3>2, <3>3 DEF ChallengeInv, Single
  <2>3. CASE UNCHANGED rows
    BY <1>1, <1>3, <2>3 DEF CreateRow, Ours
  <2>4. QED
    BY <1>3, <2>2, <2>3 DEF CreateRow
<1>4. CASE DropEntry \/ CompleteChallenge
  <2>1. Ours' = {}
    BY <1>4 DEF DropEntry, CompleteChallenge, ChallengeInv, RowAtStep, At, Ours
  <2>2. journal' \subseteq journal
    BY <1>4 DEF DropEntry, CompleteChallenge
  <2>3. QED
    BY <2>1, <2>2 DEF ChallengeInv, Single
<1>5. CASE SetChallengeRowID
  <2>1. CASE UNCHANGED journal
    BY <1>1, <1>5, <2>1 DEF SetChallengeRowID, Ours
  <2>2. CASE journal' = (journal \ {Entry(proc.op)})
                          \cup {[Entry(proc.op) EXCEPT !.row = proc.row]}
    <3> DEFINE f == [Entry(proc.op) EXCEPT !.row = proc.row]
    <3>1. proc.pc = "row_id" /\ proc.pc \in WithEntry
      BY <1>5 DEF SetChallengeRowID, At, WithEntry
    <3>2. Ours' = Ours
      BY <1>5 DEF SetChallengeRowID, Ours
    <3>3. journal' = {f}
      BY <2>2, <3>1, EntryOfStep DEF ChallengeInv
    <3>4. /\ f.op = Entry(proc.op).op /\ f.token = Entry(proc.op).token
          /\ f.created = Entry(proc.op).created /\ f.row = proc.row
      BY <3>1, EntryOfStep DEF Entries, ChallengeInv
    <3>5. \A r \in Ours : r.id = proc.row
      BY <3>1 DEF ChallengeInv, RowAtStep
    <3>6. \A r \in Ours : /\ f.op = r.by /\ f.token = r.token /\ f.created = r.created
                          /\ f.row = r.id /\ r.task = 0 /\ r.domain = "self"
      BY <3>1, <3>4, <3>5, OursMatch, EntryOfStep DEF ChallengeInv
    <3> HIDE DEF f
    <3>7. \A r, s \in Ours : r = s
      BY DEF ChallengeInv, Single
    <3>8. QED
      BY <3>2, <3>3, <3>6, <3>7 DEF Single
  <2>3. QED
    BY <1>5, <2>1, <2>2 DEF SetChallengeRowID
<1>6. CASE Start \/ RecoverNext \/ RecoverDone \/ CleanUp \/ Resolve \/ Crash
  BY <1>1, <1>6 DEF Start, RecoverNext, RecoverDone, CleanUp, Resolve, Crash, Ours
<1>7. CASE DeleteRow \/ OthersDelete \/ RowVanishes \/ UNCHANGED vars
  BY <1>1, <1>7 DEF DeleteRow, OthersDelete, RowVanishes, vars, Ours
<1>8. CASE OthersInsert
  <2>1. Ours' \subseteq Ours
    BY <1>8 DEF OthersInsert, Ours
  <2>2. QED
    BY <1>1, <1>8, <2>1 DEF OthersInsert
<1>9. QED
  BY <1>2, <1>3, <1>4, <1>5, <1>6, <1>7, <1>8 DEF Next, Step

LEMMA RowAtStepStep ==
  ASSUME ChallengeInv, RepliesArrive, [Next]_vars PROVE RowAtStep'
<1> USE DEF RowAtStep, At, Goto, Stop, Done, Stopped
<1>0. proc \in Processes /\ JournalInv /\ RowAtStep /\ Single
  BY DEF ChallengeInv, JournalInv, TypeOK
<1>1. CASE proc'.pc \in {"idle", "recover", "begin", "resolve", "validating"}
  BY <1>1
<1>2. CASE Start \/ RecoverNext \/ RecoverDone \/ DropEntry \/ CleanUp
           \/ CompleteChallenge \/ Crash
  <2>1. CASE Start
    BY <1>1, <2>1 DEF Start
  <2>2. CASE RecoverDone
    BY <1>0, <1>1, <2>2 DEF RecoverDone, Processes
  <2>3. CASE CleanUp
    BY <1>0, <1>1, <2>3 DEF CleanUp, Processes
  <2>4. CASE RecoverNext
    BY <1>1, <2>4 DEF RecoverNext
  <2>5. CASE DropEntry \/ Crash
    BY <1>1, <2>5 DEF DropEntry, Crash
  <2>6. CASE CompleteChallenge
    BY <1>1, <2>6 DEF CompleteChallenge
  <2>7. QED
    BY <1>2, <2>1, <2>2, <2>3, <2>4, <2>5, <2>6
<1>3. CASE BeginChallenge
  <2>1. Ours = {}
    BY <1>0, <1>3 DEF BeginChallenge, Single, JournalInv, EntryAtStep
  <2>2. Ours' = {}
    BY <1>3, <2>1 DEF BeginChallenge, Ours
  <2>3. QED
    BY <2>2
<1>4. CASE CreateRow
  <2>1. Ours = {}
    BY <1>0, <1>4 DEF CreateRow
  <2>2. CASE \E id \in FreeIds : /\ InsertRow(id)
                                /\ proc' = [proc EXCEPT !.pc = "row_id", !.row = id]
    <3>1. PICK id \in FreeIds : /\ InsertRow(id)
                                /\ proc' = [proc EXCEPT !.pc = "row_id", !.row = id]
      BY <2>2
    <3>2. proc'.pc = "row_id" /\ proc'.row = id
      BY <1>0, <3>1 DEF Processes
    <3>3. \A r \in Ours' : r.id = id
      BY <2>1, <3>1 DEF InsertRow, Ours
    <3>4. QED
      BY <3>2, <3>3
  <2>3. CASE Goto("drop") /\ UNCHANGED rows
    BY <1>0, <2>1, <2>3 DEF Ours, Processes
  <2>4. QED
    BY <1>4, <2>2, <2>3 DEF CreateRow, Fault, RepliesArrive
<1>5. CASE SetChallengeRowID
  <2>1. Ours' = Ours /\ proc'.row = proc.row /\ proc.pc = "row_id"
        /\ proc'.pc \in {"validating", "delete"}
    BY <1>0, <1>5 DEF SetChallengeRowID, Ours, Processes
  <2>2. QED
    BY <1>0, <2>1
<1>6. CASE Resolve
  <2> DEFINE e == Entry(proc.op)
  <2>0. e \in Entries /\ proc.pc \in WithEntry
    BY <1>0, <1>6, EntryOfStep DEF Resolve, WithEntry
  <2>1. Ours' = Ours
    BY <1>6 DEF Resolve, Ours
  <2>2. Owned(e) = Ours
    <3>1. Ours \subseteq Owned(e)
      BY <2>0, OursMatch DEF Owned, Ours
    <3>2. Owned(e) \subseteq Ours
      BY <1>0 DEF JournalInv, OthersDiffer, Owned, Ours
    <3>3. QED
      BY <3>1, <3>2
  <2>3. CASE e.row > 0 /\ proc' = [proc EXCEPT !.pc = "delete", !.row = e.row]
    <3>1. proc'.pc = "delete" /\ proc'.row = e.row
      BY <1>0, <2>3 DEF Processes
    <3>2. \A r \in Ours : r.id = e.row
      <4>1. e.row # 0
        BY <2>0, <2>3, ChallengeAssumption DEF Entries
      <4>2. QED
        BY <2>0, <4>1, OursMatch
    <3>3. QED
      BY <2>1, <3>1, <3>2
  <2>4. CASE \E r \in Owned(e) : proc' = [proc EXCEPT !.pc = "delete", !.row = r.id]
    <3>1. PICK r \in Owned(e) : proc' = [proc EXCEPT !.pc = "delete", !.row = r.id]
      BY <2>4
    <3>2. proc'.pc = "delete" /\ proc'.row = r.id
      BY <1>0, <3>1 DEF Processes
    <3>3. \A s \in Ours : s = r
      BY <1>0, <2>2, <3>1 DEF Single
    <3>4. QED
      BY <2>1, <3>2, <3>3
  <2>5. CASE Owned(e) = {} /\ Goto("complete")
    BY <1>0, <2>1, <2>2, <2>5 DEF Processes
  <2>6. CASE Stop
    BY <1>1, <2>6
  <2> HIDE DEF e
  <2>7. QED
    BY <1>6, <2>3, <2>4, <2>5, <2>6 DEF Resolve, e
<1>7. CASE DeleteRow
  <2>1. CASE Stop
    BY <1>1, <2>1
  <2>2. CASE Goto("complete") /\ rows' = rows \ Selected(proc.row, Entry(proc.op).token)
    <3>1. Ours' = {}
      BY <1>7, <2>2, SelectedIsOurs DEF DeleteRow, Ours
    <3>2. QED
      BY <1>0, <2>2, <3>1 DEF Processes
  <2>3. QED
    BY <1>7, <2>1, <2>2 DEF DeleteRow
<1>8. CASE OthersInsert \/ OthersDelete \/ RowVanishes \/ UNCHANGED vars
  <2>1. proc' = proc /\ Ours' \subseteq Ours
    BY <1>8 DEF OthersInsert, OthersDelete, RowVanishes, Others, Ours, vars
  <2>2. QED
    BY <1>0, <2>1
<1>9. QED
  BY <1>2, <1>3, <1>4, <1>5, <1>6, <1>7, <1>8 DEF Next, Step

-----------------------------------------------------------------------------
\* Every reachable state satisfies JournalInv, whatever fails: the journal of
\* provider.go has one entry at most, each step finds it, and the row of a
\* challenge is there from its INSERT until the CA is done.
THEOREM JournalInductive == Spec => []JournalInv
<1>1. Init => JournalInv
  <2> SUFFICES ASSUME Init PROVE JournalInv
    OBVIOUS
  <2>1. TypeOK
    BY ChallengeAssumption DEF Init, TypeOK, Stopped, Processes
  <2>2. OthersDiffer /\ OneEntry /\ EntryAtStep
    BY DEF Init, OthersDiffer, OneEntry, EntryAtStep, At, Stopped, WithEntry
  <2>3. QED
    BY <2>1, <2>2 DEF JournalInv
<1>2. JournalInv /\ [Next]_vars => JournalInv'
  BY TypedStep, OthersDifferStep, OneEntryStep, EntryAtStepStep DEF JournalInv
<1>3. QED
  BY <1>1, <1>2, PTL DEF Spec

\* With replies that arrive, every reachable state satisfies ChallengeInv: each
\* step finds in edgeACMEAuthentications the row of the entry and no other.
THEOREM ChallengeInductive ==
  ASSUME RepliesArrive PROVE Spec => []ChallengeInv
<1>1. Init /\ JournalInv => ChallengeInv
  BY DEF Init, Ours, ChallengeInv, Single, RowAtStep, Stopped
<1>2. ChallengeInv /\ JournalInv' /\ [Next]_vars => ChallengeInv'
  <2>1. ASSUME ChallengeInv, JournalInv', [Next]_vars PROVE ChallengeInv'
    BY <2>1, SingleStep, RowAtStepStep DEF ChallengeInv
  <2>2. QED
    BY <2>1
<1>3. QED
  BY <1>1, <1>2, JournalInductive, PTL DEF Spec

\* CreateChallenge writes the journal before Insert: whatever fails later, the
\* run after it finds every row of this service.
THEOREM EveryRowIsJournaled ==
  ASSUME RepliesArrive PROVE Spec => []RowsAreJournaled
<1>1. ChallengeInv => RowsAreJournaled
  BY DEF ChallengeInv, Single, RowsAreJournaled
<1>2. QED
  BY <1>1, ChallengeInductive, PTL

\* FindOwned never returns two rows for an entry, so Recover and CleanUp never
\* refuse one.
THEOREM NoEntryIsAmbiguous ==
  ASSUME RepliesArrive PROVE Spec => []NeverAmbiguous
<1>1. ASSUME ChallengeInv PROVE NeverAmbiguous
  <2>1. ASSUME NEW e \in journal PROVE Cardinality(Owned(e)) <= 1
    <3>1. \A r, s \in Owned(e) : r = s
      BY <1>1 DEF ChallengeInv, JournalInv, OthersDiffer, Single, Owned, Ours
    <3>2. CASE Owned(e) = {}
      BY <3>2, FS_EmptySet
    <3>3. CASE \E r \in Owned(e) : Owned(e) = {r}
      BY <3>3, FS_Singleton
    <3>4. QED
      BY <3>1, <3>2, <3>3
  <2>2. QED
    BY <1>1, <2>1 DEF NeverAmbiguous, ChallengeInv, JournalInv, OneEntry
<1>2. QED
  BY <1>1, ChallengeInductive, PTL

\* Present returns to the ACME client with its row in the table, and the row
\* stays there until CleanUp unless someone else deletes it, whatever fails.
THEOREM RowIsServed == Spec => []ServedWhileValidating
<1>1. JournalInv => ServedWhileValidating
  BY DEF JournalInv, EntryAtStep, At, ServedWhileValidating
<1>2. QED
  BY <1>1, JournalInductive, PTL

\* The four conditions of Delete leave the rows of GoEdge and of the managers
\* of other addresses alone, with a reused row id and after a lost INSERT too.
THEOREM OnlyOwnRowsAreDeleted == Spec => DeletesOnlyOwnRows
<1>1. JournalInv /\ Step => \A r \in rows \ rows' : r.by # 0
  <2> SUFFICES ASSUME JournalInv, Step, NEW r \in rows \ rows' PROVE r.by # 0
    OBVIOUS
  <2>1. CASE DeleteRow
    BY <2>1, SelectedOursOnly DEF DeleteRow, Ours
  <2>2. CASE CreateRow
    BY <2>2 DEF CreateRow, InsertRow
  <2>3. CASE rows' = rows
    BY <2>3
  <2>4. QED
    BY <2>1, <2>2, <2>3 DEF Step, RecoverNext, RecoverDone, BeginChallenge, DropEntry,
       SetChallengeRowID, CleanUp, Resolve, CompleteChallenge
<1>2. QED
  BY <1>1, JournalInductive, PTL DEF DeletesOnlyOwnRows
=============================================================================
