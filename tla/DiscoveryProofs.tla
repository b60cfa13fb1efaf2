--------------------------- MODULE DiscoveryProofs ---------------------------
(***************************************************************************)
(* Proofs about the discovery of a website and the calls it makes: the     *)
(* safety properties of Discovery hold for every page size, limit and      *)
(* length of the list, and for any number of changes and faults.           *)
(***************************************************************************)
EXTENDS Discovery, TLAPS, FiniteSetTheorems, SequenceTheorems

Websites == [id : Nat, kind : Kinds]
Steps == {"count", "page", "nodes", "policy", "end"}

JobFields(j) ==
  j = [step |-> j.step, count |-> j.count, offset |-> j.offset,
       page |-> j.page, found |-> j.found, since |-> j.since]

DialogFields(d) ==
  d = [stage |-> d.stage, row |-> d.row, target |-> d.target, cause |-> d.cause]

\* The types of the variables; what a scan has read is left open.
ListTyped ==
  /\ sites \in Seq(Websites)
  /\ changes \in Nat

ScanTyped ==
  /\ JobFields(job)
  /\ job.step \in Steps
  /\ job.count \in Nat /\ job.offset \in Nat /\ job.since \in Nat

DialogTyped ==
  /\ DialogFields(dialog)
  /\ dialog.stage \in {"list", "dry", "apply", "create", "done", "failed"}
  /\ made \in Nat

ClientTyped ==
  /\ client \in [token : {"none", "fresh", "late"}, valid : BOOLEAN]
  /\ call \in [at : {"token", "post"}, again : BOOLEAN,
               own : BOOLEAN, died : BOOLEAN]
  /\ enabled \in BOOLEAN

TypeOK == ListTyped /\ ScanTyped /\ DialogTyped /\ ClientTyped

\* A call that is repeated has dropped its token, so the one it posts next is
\* its own: when that one is refused too, it was lost after it was obtained.
CallInv ==
  /\ client.token = "none" => ~client.valid
  /\ call.at = "token" /\ call.again => ~call.own
  /\ call.at = "token" /\ ~call.again => client.token = "none"
  /\ call.at = "post" /\ ~call.again => call.own
  /\ call.at = "post" /\ call.own /\ ~client.valid => call.died

\* A cause is recorded when the dialogue fails, and nothing happens after that;
\* a certificate is made in the last stage only.
DialogInv ==
  /\ dialog.cause # "none" <=> dialog.stage = "failed"
  /\ dialog.stage \in {"list", "dry", "apply", "create"} => made = 0
  /\ made <= 1
  /\ AuthenticationRecovers

\* A scan of the dry run or of the order that the list stood still for has found
\* the matches on the pages it read, and no other.
Exact ==
  /\ Len(sites) <= Limit
  /\ job.count = Len(sites)
  /\ job.found = {Entry(i) : i \in {k \in InList(Matches) : k <= job.offset}}
  /\ job.step = "end" => job.offset >= job.count

ScanInv ==
  /\ job.since <= changes
  /\ job.step = "count" => job.offset = 0 /\ job.found = {} /\ job.page = {}
  /\ dialog.stage \in {"dry", "apply"} =>
       /\ job.page = {}
       /\ job.step \in {"count", "page", "end"}
       /\ job.step # "count" /\ changes = job.since => Exact

\* Two websites of the first list match the address, and still do.
Ambiguous ==
  \E i, j \in InList(Matches) :
    i # j /\ sites[i].id <= MaxSites /\ sites[j].id <= MaxSites

\* Each scan that an ambiguous list gets past saw a change of its own.
AmbiguityInv ==
  /\ dialog.stage = "apply" /\ Ambiguous => job.since >= 1
  /\ (dialog.stage = "create" \/ made > 0) /\ Ambiguous => changes >= 2

DiscoveryInv == TypeOK /\ CallInv /\ DialogInv /\ ScanInv /\ AmbiguityInv

-----------------------------------------------------------------------------
\* What each action does, field by field.
LEMMA ContinueDoes ==
  ASSUME NEW j, JobFields(j), Continue(j)
  PROVE  /\ JobFields(job')
         /\ job'.step = IF j.page # {} THEN "nodes"
                        ELSE IF j.offset < j.count THEN "page" ELSE "end"
         /\ job'.count = j.count /\ job'.offset = j.offset
         /\ job'.page = j.page /\ job'.found = j.found /\ job'.since = j.since
         /\ call' = NewCall
         /\ UNCHANGED <<sites, changes, dialog, made, client, enabled, faults>>
<1>1. PICK step : /\ step = IF j.page # {} THEN "nodes"
                            ELSE IF j.offset < j.count THEN "page" ELSE "end"
                  /\ job' = [j EXCEPT !.step = step]
  BY DEF Continue
<1>2. job' = [step |-> step, count |-> j.count, offset |-> j.offset,
              page |-> j.page, found |-> j.found, since |-> j.since]
  BY <1>1 DEF JobFields
<1>. QED  BY <1>1, <1>2 DEF JobFields, Continue

LEMMA FailDoes ==
  ASSUME DialogFields(dialog), NEW cause, Fail(cause)
  PROVE  /\ DialogFields(dialog')
         /\ dialog'.stage = "failed" /\ dialog'.cause = cause
         /\ UNCHANGED <<sites, changes, job, call, made>>
<1>1. dialog' = [stage |-> "failed", row |-> dialog.row,
                 target |-> dialog.target, cause |-> cause]
  BY DEF Fail, DialogFields
<1>. QED  BY <1>1 DEF DialogFields, Fail

LEMMA EnterDoes ==
  ASSUME NEW d, Enter(d)
  PROVE  /\ dialog' = d
         /\ JobFields(job')
         /\ job'.step = "count" /\ job'.count = 0 /\ job'.offset = 0
         /\ job'.page = {} /\ job'.found = {} /\ job'.since = changes
         /\ client' = NoToken /\ call' = NewCall
         /\ UNCHANGED <<sites, changes, made, enabled, faults>>
<1>1. job' = [step |-> "count", count |-> 0, offset |-> 0, page |-> {},
              found |-> {}, since |-> changes]
  BY DEF Enter, NewScan
<1>2. /\ job'.step = "count" /\ job'.count = 0 /\ job'.offset = 0
      /\ job'.page = {} /\ job'.found = {} /\ job'.since = changes
  BY <1>1
<1>3. JobFields(job')
  BY <1>1, <1>2 DEF JobFields
<1>. QED  BY <1>2, <1>3 DEF Enter

LEMMA CountDoes ==
  ASSUME TypeOK, Count
  PROVE  /\ Scanning /\ job.step = "count"
         /\ \/ /\ Len(sites) > Limit
               /\ Fail("closed") /\ UNCHANGED <<client, enabled, faults>>
            \/ /\ Len(sites) <= Limit
               /\ Continue([job EXCEPT !.count = Len(sites)])
               /\ JobFields(job')
               /\ job'.step = IF job.page # {} THEN "nodes"
                        ELSE IF job.offset < Len(sites) THEN "page" ELSE "end"
               /\ job'.count = Len(sites) /\ job'.offset = job.offset
               /\ job'.page = job.page /\ job'.found = job.found
               /\ job'.since = job.since
<1>1. Len(sites) \in Nat /\ Limit \in Nat
  BY ScanAssumption DEF TypeOK, ListTyped
<1>2. CASE Continue([job EXCEPT !.count = Len(sites)])
  <2>1. [job EXCEPT !.count = Len(sites)] =
          [step |-> job.step, count |-> Len(sites), offset |-> job.offset,
           page |-> job.page, found |-> job.found, since |-> job.since]
    BY DEF TypeOK, ScanTyped, JobFields
  <2>2. JobFields([job EXCEPT !.count = Len(sites)])
    BY <2>1 DEF JobFields
  <2>. HIDE DEF Continue
  <2>3. /\ JobFields(job')
        /\ job'.step = IF job.page # {} THEN "nodes"
                       ELSE IF job.offset < Len(sites) THEN "page" ELSE "end"
        /\ job'.count = Len(sites) /\ job'.offset = job.offset
        /\ job'.page = job.page /\ job'.found = job.found
        /\ job'.since = job.since
    BY <1>2, <2>1, <2>2, ContinueDoes
  <2>. QED  BY <1>1, <1>2, <2>3 DEF Count
<1>. QED  BY <1>1, <1>2 DEF Count

LEMMA JobUpdates ==
  ASSUME NEW j, JobFields(j), NEW p, NEW f
  PROVE  /\ [j EXCEPT !.page = p, !.found = f] =
              [step |-> j.step, count |-> j.count, offset |-> j.offset,
               page |-> p, found |-> f, since |-> j.since]
         /\ [j EXCEPT !.page = p] =
              [step |-> j.step, count |-> j.count, offset |-> j.offset,
               page |-> p, found |-> j.found, since |-> j.since]
<1>1. [j EXCEPT !.page = p] =
        [step |-> j.step, count |-> j.count, offset |-> j.offset,
         page |-> p, found |-> j.found, since |-> j.since]
  BY DEF JobFields
<1>2. PICK k : k = [j EXCEPT !.page = p]
  OBVIOUS
<1>3. JobFields(k)
  BY <1>1, <1>2 DEF JobFields
<1>4. [k EXCEPT !.found = f] =
        [step |-> k.step, count |-> k.count, offset |-> k.offset,
         page |-> k.page, found |-> f, since |-> k.since]
  BY <1>3 DEF JobFields
<1>5. [k EXCEPT !.found = f] =
        [step |-> j.step, count |-> j.count, offset |-> j.offset,
         page |-> p, found |-> f, since |-> j.since]
  BY <1>1, <1>2, <1>4
<1>. QED  BY <1>1, <1>2, <1>5

\* The position a scan reads on from.
NextOffset ==
  IF Len(sites) < job.offset + PageSize THEN job.count ELSE job.offset + PageSize

LEMMA ReadPageDoes ==
  ASSUME TypeOK, ReadPage
  PROVE  /\ Scanning /\ job.step = "page"
         /\ JobFields(job')
         /\ job'.step = IF job'.page # {} THEN "nodes"
                        ELSE IF job'.offset < job.count THEN "page" ELSE "end"
         /\ job'.count = job.count /\ job'.offset = NextOffset
         /\ job'.since = job.since
         /\ dialog.stage # "list" =>
              job'.page = {}
              /\ job'.found = job.found \cup {e \in OnPage : Matches(e.site)}
         /\ call' = NewCall
         /\ UNCHANGED <<sites, changes, dialog, made, client, enabled, faults>>
<1>. DEFINE page == {e \in OnPage : dialog.stage = "list" /\ Eligible(e.site)}
            found == job.found \cup
                       {e \in OnPage : dialog.stage # "list" /\ Matches(e.site)}
            j == [step |-> job.step, count |-> job.count, offset |-> NextOffset,
                  page |-> page, found |-> found, since |-> job.since]
<1>1. PICK p, f : p = page /\ f = found
  OBVIOUS
<1>2. Continue([job EXCEPT !.offset = NextOffset, !.page = p, !.found = f])
  BY <1>1 DEF ReadPage, Page, NextOffset
<1>3. [job EXCEPT !.offset = NextOffset, !.page = p, !.found = f] = j
  <2>1. PICK a : a = [job EXCEPT !.offset = NextOffset]
    OBVIOUS
  <2>2. a = [step |-> job.step, count |-> job.count, offset |-> NextOffset,
             page |-> job.page, found |-> job.found, since |-> job.since]
    BY <2>1 DEF TypeOK, ScanTyped, JobFields
  <2>3. JobFields(a)
    BY <2>2 DEF JobFields
  <2>4. [a EXCEPT !.page = p, !.found = f] =
          [step |-> a.step, count |-> a.count, offset |-> a.offset,
           page |-> p, found |-> f, since |-> a.since]
    BY <2>3, JobUpdates
  <2>5. [a EXCEPT !.page = p, !.found = f] =
          [step |-> job.step, count |-> job.count, offset |-> NextOffset,
           page |-> p, found |-> f, since |-> job.since]
    BY <2>2, <2>4
  <2>. QED  BY <1>1, <2>1, <2>5
<1>4. Continue(j) /\ JobFields(j)
  BY <1>2, <1>3 DEF JobFields
<1>6. dialog.stage # "list" =>
         page = {} /\ found = job.found \cup {e \in OnPage : Matches(e.site)}
  OBVIOUS
<1>. HIDE DEF page, found
<1>5. /\ JobFields(job')
      /\ job'.step = IF page # {} THEN "nodes"
                     ELSE IF NextOffset < job.count THEN "page" ELSE "end"
      /\ job'.count = job.count /\ job'.offset = NextOffset
      /\ job'.page = page /\ job'.found = found /\ job'.since = job.since
      /\ call' = NewCall
      /\ UNCHANGED <<sites, changes, dialog, made, client, enabled, faults>>
  BY <1>4, ContinueDoes
<1>. QED  BY <1>6, <1>5 DEF ReadPage

LEMMA ExamineDoes ==
  ASSUME TypeOK, NEW good \in BOOLEAN, Examine(good)
  PROVE  /\ Scanning /\ job.step \in {"nodes", "policy"}
         /\ JobFields(job') /\ job'.step \in Steps \ {"count"}
         /\ job'.count = job.count /\ job'.offset = job.offset
         /\ job'.since = job.since
         /\ call' = NewCall
         /\ UNCHANGED <<sites, changes, dialog, made, client, enabled, faults>>
<1>1. CASE job' = [job EXCEPT !.step = "policy"]
  <2>1. job' = [step |-> "policy", count |-> job.count, offset |-> job.offset,
                page |-> job.page, found |-> job.found, since |-> job.since]
    BY <1>1 DEF TypeOK, ScanTyped, JobFields
  <2>. QED  BY <1>1, <2>1 DEF Examine, JobFields, Steps, Continue
<1>2. ASSUME NEW j, NEW p, NEW f, Continue(j),
             j = [step |-> job.step, count |-> job.count, offset |-> job.offset,
                  page |-> p, found |-> f, since |-> job.since]
      PROVE  /\ JobFields(job') /\ job'.step \in Steps \ {"count"}
        /\ job'.count = job.count /\ job'.offset = job.offset
        /\ job'.since = job.since
        /\ call' = NewCall
        /\ UNCHANGED <<sites, changes, dialog, made, client, enabled, faults>>
  <2>1. JobFields(j)
    BY <1>2 DEF JobFields
  <2>2. /\ JobFields(job')
        /\ job'.step = IF p # {} THEN "nodes"
                       ELSE IF job.offset < job.count THEN "page" ELSE "end"
        /\ job'.count = job.count /\ job'.offset = job.offset
        /\ job'.since = job.since
        /\ call' = NewCall
        /\ UNCHANGED <<sites, changes, dialog, made, client, enabled, faults>>
    BY <1>2, <2>1, ContinueDoes
  <2>. QED  BY <2>2 DEF Steps
<1>3. CASE Continue([job EXCEPT !.page = @ \ {First(@)},
                                !.found = @ \cup {First(job.page)}])
  <2>1. PICK p, f : /\ p = job.page \ {First(job.page)}
                    /\ f = job.found \cup {First(job.page)}
    OBVIOUS
  <2>2. Continue([job EXCEPT !.page = p, !.found = f])
    BY <1>3, <2>1
  <2>3. PICK j : j = [job EXCEPT !.page = p, !.found = f]
    OBVIOUS
  <2>4. Continue(j) /\ j = [step |-> job.step, count |-> job.count,
                            offset |-> job.offset, page |-> p, found |-> f,
                            since |-> job.since]
    BY <2>2, <2>3, JobUpdates DEF TypeOK, ScanTyped
  <2>. QED  BY <1>2, <2>4 DEF Examine
<1>4. CASE Continue([job EXCEPT !.page = @ \ {First(@)}])
  <2>1. PICK p : p = job.page \ {First(job.page)}
    OBVIOUS
  <2>2. Continue([job EXCEPT !.page = p])
    BY <1>4, <2>1
  <2>3. PICK j : j = [job EXCEPT !.page = p]
    OBVIOUS
  <2>4. Continue(j) /\ j = [step |-> job.step, count |-> job.count,
                            offset |-> job.offset, page |-> p,
                            found |-> job.found, since |-> job.since]
    BY <2>2, <2>3, JobUpdates DEF TypeOK, ScanTyped
  <2>. QED  BY <1>2, <2>4 DEF Examine
<1>. QED  BY <1>1, <1>3, <1>4 DEF Examine

LEMMA EndListDoes ==
  ASSUME TypeOK, EndList
  PROVE  /\ EndOf("list")
         /\ \/ Fail("closed") /\ UNCHANGED <<client, enabled, faults>>
            \/ \E d : /\ Enter(d) /\ DialogFields(d)
                      /\ d.stage = "dry" /\ d.cause = dialog.cause
<1>1. CASE One(job.found)
  <2>1. PICK row : row = TheOnly(job.found).id
    OBVIOUS
  <2>2. PICK d : d = [dialog EXCEPT !.stage = "dry", !.row = row]
    OBVIOUS
  <2>3. d = [stage |-> "dry", row |-> row, target |-> dialog.target,
             cause |-> dialog.cause]
    BY <2>2 DEF TypeOK, DialogTyped, DialogFields
  <2>4. Enter(d)
    BY <1>1, <2>1, <2>2 DEF EndList
  <2>. QED  BY <2>3, <2>4 DEF EndList, DialogFields
<1>2. CASE ~One(job.found)
  BY <1>2 DEF EndList
<1>. QED  BY <1>1, <1>2

LEMMA EndDryDoes ==
  ASSUME TypeOK, EndDry
  PROVE  /\ EndOf("dry")
         /\ \/ /\ ~Discovered(job.found)
               /\ Fail("closed") /\ UNCHANGED <<client, enabled, faults>>
            \/ /\ Discovered(job.found)
               /\ Fail("mismatch") /\ UNCHANGED <<client, enabled, faults>>
            \/ /\ Discovered(job.found)
               /\ \E d : /\ Enter(d) /\ DialogFields(d)
                         /\ d.stage = "apply" /\ d.cause = dialog.cause
<1>1. PICK d : d = [dialog EXCEPT !.stage = "apply"]
  OBVIOUS
<1>2. d = [stage |-> "apply", row |-> dialog.row, target |-> dialog.target,
           cause |-> dialog.cause]
  BY <1>1 DEF TypeOK, DialogTyped, DialogFields
<1>3. DialogFields(d) /\ d.stage = "apply" /\ d.cause = dialog.cause
  BY <1>2 DEF DialogFields
<1>. QED  BY <1>1, <1>3 DEF EndDry

LEMMA EndApplyDoes ==
  ASSUME TypeOK, EndApply
  PROVE  /\ EndOf("apply")
         /\ \/ /\ ~Discovered(job.found)
               /\ Fail("closed") /\ UNCHANGED <<client, enabled, faults>>
            \/ /\ Discovered(job.found)
               /\ DialogFields(dialog')
               /\ dialog'.stage = "create" /\ dialog'.cause = dialog.cause
               /\ call' = NewCall
               /\ UNCHANGED <<sites, changes, job, made, client, enabled, faults>>
<1>1. CASE Discovered(job.found)
  <2>1. PICK target : target = TheOnly(job.found).id
    OBVIOUS
  <2>2. dialog' = [dialog EXCEPT !.stage = "create", !.target = target]
    BY <1>1, <2>1 DEF EndApply
  <2>3. dialog' = [stage |-> "create", row |-> dialog.row, target |-> target,
                   cause |-> dialog.cause]
    BY <2>2 DEF TypeOK, DialogTyped, DialogFields
  <2>. QED  BY <1>1, <2>3 DEF EndApply, DialogFields
<1>2. CASE ~Discovered(job.found)
  BY <1>2 DEF EndApply
<1>. QED  BY <1>1, <1>2

LEMMA CreateDoes ==
  ASSUME TypeOK, Create
  PROVE  /\ dialog.stage = "create"
         /\ made' = made + 1
         /\ DialogFields(dialog')
         /\ \/ dialog'.stage = "done" /\ dialog'.cause = dialog.cause
            \/ dialog'.stage = "failed" /\ dialog'.cause = "error"
         /\ UNCHANGED <<sites, changes, job, client, call, enabled>>
<1>1. CASE dialog' = [dialog EXCEPT !.stage = "done"]
  <2>1. dialog' = [stage |-> "done", row |-> dialog.row,
                   target |-> dialog.target, cause |-> dialog.cause]
    BY <1>1 DEF TypeOK, DialogTyped, DialogFields
  <2>. QED  BY <2>1 DEF Create, DialogFields
<1>2. CASE dialog' = [dialog EXCEPT !.stage = "failed", !.cause = "error"]
  <2>1. dialog' = [stage |-> "failed", row |-> dialog.row,
                   target |-> dialog.target, cause |-> "error"]
    BY <1>2 DEF TypeOK, DialogTyped, DialogFields
  <2>. QED  BY <2>1 DEF Create, DialogFields
<1>. QED  BY <1>1, <1>2 DEF Create

\* A call that fails leaves its client as it is and says why.
LEMMA CallFailsDoes ==
  ASSUME TypeOK, CallFails
  PROVE  /\ Calling
         /\ DialogFields(dialog')
         /\ dialog'.stage = "failed"
         /\ \/ NotAuthenticated /\ dialog'.cause = "auth"
            \/ dialog'.cause = "error"
         /\ UNCHANGED <<sites, changes, job, call, made, client, enabled>>
BY FailDoes DEF CallFails, NotAuthenticated, NotDone, TypeOK, DialogTyped

\* A call takes the token that is there, gets one, or starts again without.
LEMMA CallGoesOnDoes ==
  ASSUME TypeOK, CallGoesOn
  PROVE  /\ Calling /\ ClientTyped'
         /\ \/ /\ call.at = "token" /\ client.token = "fresh"
               /\ call'.at = "post" /\ client' = client
               /\ call'.again = call.again /\ call'.own = call.own
               /\ call'.died = call.died
            \/ /\ client'.token = "fresh" /\ client'.valid
               /\ call'.at = "post" /\ call'.own /\ ~call'.died
            \/ /\ client'.token = "none" /\ ~client'.valid
               /\ call'.at = "token" /\ ~call'.again
         /\ UNCHANGED <<sites, changes, job, dialog, made, enabled>>
<1>0. /\ client \in [token : {"none", "fresh", "late"}, valid : BOOLEAN]
      /\ call \in [at : {"token", "post"}, again : BOOLEAN,
                   own : BOOLEAN, died : BOOLEAN]
      /\ enabled \in BOOLEAN
  BY DEF TypeOK, ClientTyped
<1>1. CASE UseToken
  <2>1. call' = [at |-> "post", again |-> call.again, own |-> call.own,
                 died |-> call.died]
    BY <1>0, <1>1 DEF UseToken
  <2>. QED  BY <1>0, <1>1, <2>1 DEF CallGoesOn, UseToken, ClientTyped
<1>2. CASE RequestToken
  <2>1. call' = [at |-> "post", again |-> call.again, own |-> TRUE, died |-> FALSE]
    BY <1>0, <1>2 DEF RequestToken
  <2>2. client' = [token |-> "fresh", valid |-> TRUE]
    BY <1>2 DEF RequestToken
  <2>3. ClientTyped'
    <3>1. enabled' \in BOOLEAN
      BY <1>0, <1>2 DEF RequestToken
    <3>. QED  BY <1>0, <2>1, <2>2, <3>1 DEF ClientTyped
  <2>. QED  BY <1>0, <1>2, <2>1, <2>2, <2>3 DEF CallGoesOn, RequestToken
<1>3. CASE Repeat
  <2>1. call' = [at |-> "token", again |-> FALSE, own |-> call.own,
                 died |-> call.died]
    BY <1>0, <1>3 DEF Repeat
  <2>2. client' = [token |-> "none", valid |-> FALSE]
    BY <1>3 DEF Repeat, NoToken
  <2>3. ClientTyped'
    <3>1. enabled' \in BOOLEAN
      BY <1>0, <1>3 DEF Repeat
    <3>. QED  BY <1>0, <2>1, <2>2, <3>1 DEF ClientTyped
  <2>. QED  BY <1>0, <1>3, <2>1, <2>2, <2>3 DEF CallGoesOn, Repeat
<1>. QED  BY <1>1, <1>2, <1>3 DEF CallGoesOn

\* Somebody adds a website with a new number or removes one.
LEMMA ChangeSitesDoes ==
  ASSUME TypeOK, ChangeSites
  PROVE  /\ Scanning
         /\ changes' = changes + 1
         /\ sites' \in Seq(Websites)
         /\ \A i, j \in 1..Len(sites') :
              i # j /\ sites'[i].id <= MaxSites /\ sites'[j].id <= MaxSites =>
                \E k, l \in 1..Len(sites) :
                  k # l /\ sites'[i] = sites[k] /\ sites'[j] = sites[l]
         /\ UNCHANGED <<job, dialog, made, client, call, enabled, faults>>
<1>. USE ScanAssumption
<1>0. sites \in Seq(Websites) /\ Len(sites) \in Nat /\ changes \in Nat
      /\ changes' = changes + 1
  BY DEF TypeOK, ListTyped, ChangeSites
<1>1. ASSUME NEW k \in Kinds,
             sites' \in {<<[id |-> MaxSites + changes', kind |-> k]>> \o sites,
                         sites \o <<[id |-> MaxSites + changes', kind |-> k]>>}
      PROVE  /\ sites' \in Seq(Websites)
             /\ \A i, j \in 1..Len(sites') :
                  i # j /\ sites'[i].id <= MaxSites /\ sites'[j].id <= MaxSites =>
                    \E m, n \in 1..Len(sites) :
                      m # n /\ sites'[i] = sites[m] /\ sites'[j] = sites[n]
  <2>0. MaxSites + changes' \in Nat
    BY <1>0
  <2>1. PICK w \in Websites : w = [id |-> MaxSites + changes', kind |-> k]
    BY <2>0 DEF Websites
  <2>2. w.id = MaxSites + changes + 1 /\ w.id \in Nat
    BY <1>0, <2>1
  <2>3. <<w>> \in Seq(Websites) /\ Len(<<w>>) = 1 /\ <<w>>[1] = w
    OBVIOUS
  <2>4. CASE sites' = <<w>> \o sites
    <3>1. /\ sites' \in Seq(Websites)
          /\ Len(sites') = 1 + Len(sites)
          /\ \A i \in 1..(1 + Len(sites)) :
               sites'[i] = IF i <= 1 THEN <<w>>[i] ELSE sites[i - 1]
      BY <1>0, <2>3, <2>4, ConcatProperties
    <3>2. sites'[1] = w
      BY <1>0, <2>3, <3>1
    <3>3. \A i \in 1..Len(sites') :
            sites'[i].id <= MaxSites => i - 1 \in 1..Len(sites) /\ sites'[i] = sites[i - 1]
      BY <1>0, <2>2, <3>1, <3>2
    <3>4. ASSUME NEW i \in 1..Len(sites'), NEW j \in 1..Len(sites'), i # j,
                 sites'[i].id <= MaxSites, sites'[j].id <= MaxSites
          PROVE  \E m, n \in 1..Len(sites) :
                   m # n /\ sites'[i] = sites[m] /\ sites'[j] = sites[n]
      <4>1. i - 1 # j - 1
        BY <1>0, <3>1, <3>4
      <4>. QED  BY <3>3, <3>4, <4>1
    <3>. QED  BY <3>1, <3>4
  <2>5. CASE sites' = sites \o <<w>>
    <3>1. /\ sites' \in Seq(Websites)
          /\ Len(sites') = Len(sites) + 1
          /\ \A i \in 1..(Len(sites) + 1) :
               sites'[i] = IF i <= Len(sites) THEN sites[i] ELSE <<w>>[i - Len(sites)]
      BY <1>0, <2>3, <2>5, ConcatProperties
    <3>2. sites'[Len(sites) + 1] = w
      BY <1>0, <2>3, <3>1
    <3>3. \A i \in 1..Len(sites') :
            sites'[i].id <= MaxSites => i \in 1..Len(sites) /\ sites'[i] = sites[i]
      BY <1>0, <2>2, <3>1, <3>2
    <3>. QED  BY <1>0, <3>1, <3>3
  <2>. QED  BY <1>1, <2>1, <2>4, <2>5
<1>2. ASSUME NEW d \in 1..Len(sites),
             sites' = SubSeq(sites, 1, d - 1) \o SubSeq(sites, d + 1, Len(sites))
      PROVE  /\ sites' \in Seq(Websites)
             /\ \A i, j \in 1..Len(sites') :
                  i # j /\ sites'[i].id <= MaxSites /\ sites'[j].id <= MaxSites =>
                    \E m, n \in 1..Len(sites) :
                      m # n /\ sites'[i] = sites[m] /\ sites'[j] = sites[n]
  <2>1. \A i \in 1..Len(sites) : sites[i] \in Websites
    BY <1>0, ElementOfSeq
  <2>2. PICK a : a = SubSeq(sites, 1, d - 1)
    OBVIOUS
  <2>3. PICK b : b = SubSeq(sites, d + 1, Len(sites))
    OBVIOUS
  <2>4. /\ a \in Seq(Websites) /\ Len(a) = d - 1
        /\ \A i \in 1..(d - 1) : a[i] = sites[i]
    <3>1. d - 1 \in Int /\ \A i \in 1..(d - 1) : sites[i] \in Websites
      BY <1>0, <2>1
    <3>2. /\ SubSeq(sites, 1, d - 1) \in Seq(Websites)
          /\ Len(SubSeq(sites, 1, d - 1)) = IF 1 <= d - 1 THEN d - 1 - 1 + 1 ELSE 0
          /\ \A i \in 1..(d - 1 - 1 + 1) : SubSeq(sites, 1, d - 1)[i] = sites[1 + i - 1]
      BY <3>1, SubSeqProperties
    <3>. QED  BY <1>0, <2>2, <3>2
  <2>5. /\ b \in Seq(Websites) /\ Len(b) = Len(sites) - d
        /\ \A i \in 1..(Len(sites) - d) : b[i] = sites[d + i]
    <3>1. d + 1 \in Int /\ \A i \in (d + 1)..Len(sites) : sites[i] \in Websites
      BY <1>0, <2>1
    <3>2. /\ SubSeq(sites, d + 1, Len(sites)) \in Seq(Websites)
          /\ Len(SubSeq(sites, d + 1, Len(sites))) =
               IF d + 1 <= Len(sites) THEN Len(sites) - (d + 1) + 1 ELSE 0
          /\ \A i \in 1..(Len(sites) - (d + 1) + 1) :
               SubSeq(sites, d + 1, Len(sites))[i] = sites[d + 1 + i - 1]
      BY <1>0, <3>1, SubSeqProperties
    <3>. QED  BY <1>0, <2>3, <3>2
  <2>6. sites' = a \o b
    BY <1>2, <2>2, <2>3
  <2>7. /\ sites' \in Seq(Websites)
        /\ Len(sites') = Len(a) + Len(b)
        /\ \A i \in 1..(Len(a) + Len(b)) :
             sites'[i] = IF i <= Len(a) THEN a[i] ELSE b[i - Len(a)]
    BY <2>4, <2>5, <2>6, ConcatProperties
  <2>8. \A i \in 1..Len(sites') :
          sites'[i] = sites[IF i < d THEN i ELSE i + 1]
    BY <1>0, <2>4, <2>5, <2>7
  <2>9. \A i \in 1..Len(sites') : (IF i < d THEN i ELSE i + 1) \in 1..Len(sites)
    BY <1>0, <2>4, <2>5, <2>7
  <2>10. \A i, j \in 1..Len(sites') :
          i # j => (IF i < d THEN i ELSE i + 1) # (IF j < d THEN j ELSE j + 1)
    BY <1>0, <2>4, <2>5, <2>7
  <2>. QED  BY <2>7, <2>8, <2>9, <2>10
<1>. QED  BY <1>0, <1>1, <1>2 DEF ChangeSites, clientVars

-----------------------------------------------------------------------------
\* The types are kept.
LEMMA TypeStep ==
  ASSUME TypeOK, [Next]_vars
  PROVE  TypeOK'
<1>. USE ScanAssumption, ClientAssumption
<1>0. /\ Len(sites) \in Nat /\ PageSize \in Nat
      /\ NewCall \in [at : {"token", "post"}, again : BOOLEAN,
                      own : BOOLEAN, died : BOOLEAN]
      /\ NoToken \in [token : {"none", "fresh", "late"}, valid : BOOLEAN]
  BY DEF TypeOK, ListTyped, NewCall, NoToken
<1>1. ASSUME Fail("closed") \/ Fail("mismatch"), UNCHANGED <<client, enabled, faults>>
      PROVE  TypeOK'
  <2>1. PICK cause : Fail(cause)
    BY <1>1
  <2>. QED
    BY <1>1, <2>1, FailDoes DEF TypeOK, ListTyped, ScanTyped, DialogTyped, ClientTyped
<1>2. ASSUME NEW d, Enter(d), DialogFields(d), d.stage \in {"dry", "apply"}
      PROVE  TypeOK'
  BY <1>0, <1>2, EnterDoes
     DEF TypeOK, ListTyped, ScanTyped, DialogTyped, ClientTyped, Steps
<1>3. CASE Count
  <2>1. CASE Fail("closed") /\ UNCHANGED <<client, enabled, faults>>
    BY <1>1, <2>1
  <2>2. CASE Continue([job EXCEPT !.count = Len(sites)])
    <3>1. ScanTyped'
      BY <1>0, <1>3, <2>1, CountDoes DEF TypeOK, ScanTyped, Steps
    <3>2. call' = NewCall /\ UNCHANGED <<sites, changes, dialog, made, client, enabled>>
      BY <2>2 DEF Continue
    <3>. QED  BY <1>0, <3>1, <3>2 DEF TypeOK, ListTyped, DialogTyped, ClientTyped
  <2>. QED  BY <1>3, <2>1, <2>2, CountDoes
<1>4. CASE ReadPage
  <2>1. ScanTyped'
    BY <1>0, <1>4, ReadPageDoes DEF TypeOK, ScanTyped, Steps, NextOffset
  <2>. QED
    BY <1>0, <1>4, <2>1, ReadPageDoes DEF TypeOK, ListTyped, DialogTyped, ClientTyped
<1>5. ASSUME NEW good \in BOOLEAN, Examine(good)
      PROVE  TypeOK'
  BY <1>0, <1>5, ExamineDoes
     DEF TypeOK, ListTyped, ScanTyped, DialogTyped, ClientTyped
<1>6. CASE CallFails
  BY <1>6, CallFailsDoes DEF TypeOK, ListTyped, ScanTyped, DialogTyped, ClientTyped
<1>7. CASE CallGoesOn
  BY <1>7, CallGoesOnDoes DEF TypeOK, ListTyped, ScanTyped, DialogTyped
<1>8. CASE EndList
  BY <1>1, <1>2, <1>8, EndListDoes
<1>9. CASE EndDry
  BY <1>1, <1>2, <1>9, EndDryDoes
<1>10. CASE EndApply
  <2>1. CASE Fail("closed") /\ UNCHANGED <<client, enabled, faults>>
    BY <1>1, <2>1
  <2>2. CASE ~(Fail("closed") /\ UNCHANGED <<client, enabled, faults>>)
    BY <1>0, <1>10, <2>2, EndApplyDoes
       DEF TypeOK, ListTyped, ScanTyped, DialogTyped, ClientTyped
  <2>. QED  BY <2>1, <2>2
<1>11. CASE Create
  BY <1>11, CreateDoes DEF TypeOK, ListTyped, ScanTyped, DialogTyped, ClientTyped
<1>12. CASE ChangeSites
  BY <1>12, ChangeSitesDoes
     DEF TypeOK, ListTyped, ScanTyped, DialogTyped, ClientTyped
<1>13. CASE Calling /\ Environment /\ UNCHANGED <<sites, changes, job, dialog, made>>
  <2>1. ClientTyped'
    BY <1>13 DEF Environment, Age, Revoke, DisableKey, TypeOK, ClientTyped
  <2>. QED  BY <1>13, <2>1 DEF TypeOK, ListTyped, ScanTyped, DialogTyped
<1>14. CASE UNCHANGED vars
  BY <1>14 DEF vars, clientVars, TypeOK, ListTyped, ScanTyped, DialogTyped, ClientTyped
<1>. QED
  BY <1>3, <1>4, <1>5, <1>6, <1>7, <1>8, <1>9, <1>10, <1>11, <1>12, <1>13, <1>14
     DEF Next

-----------------------------------------------------------------------------
\* The call and the dialogue.
LEMMA CallStep ==
  ASSUME TypeOK, CallInv, DialogInv, [Next]_vars
  PROVE  CallInv' /\ DialogInv'
<1>. USE DEF CallInv, DialogInv, AuthenticationRecovers
<1>0. /\ NewCall.at = "token" /\ NewCall.again /\ ~NewCall.own /\ ~NewCall.died
      /\ NoToken.token = "none" /\ ~NoToken.valid
      /\ made \in Nat
  BY DEF NewCall, NoToken, TypeOK, DialogTyped
<1>1. ASSUME dialog.stage \in {"list", "dry", "apply"},
             Fail("closed") \/ Fail("mismatch"), UNCHANGED <<client, enabled, faults>>
      PROVE  CallInv' /\ DialogInv'
  <2>1. PICK cause \in {"closed", "mismatch"} : Fail(cause)
    BY <1>1
  <2>. QED  BY <1>0, <1>1, <2>1, FailDoes DEF TypeOK, DialogTyped
<1>2. ASSUME dialog.stage \in {"list", "dry", "apply"},
             NEW d, Enter(d), d.stage \in {"dry", "apply"}, d.cause = dialog.cause
      PROVE  CallInv' /\ DialogInv'
  BY <1>0, <1>2, EnterDoes
<1>3. ASSUME dialog.stage \in {"list", "dry", "apply"}, call' = NewCall,
             UNCHANGED <<dialog, made, client, enabled>>
      PROVE  CallInv' /\ DialogInv'
  BY <1>0, <1>3
<1>4. CASE Count
  BY <1>1, <1>3, <1>4, CountDoes DEF Scanning, Continue
<1>5. CASE ReadPage
  BY <1>3, <1>5, ReadPageDoes DEF Scanning
<1>6. ASSUME NEW good \in BOOLEAN, Examine(good)
      PROVE  CallInv' /\ DialogInv'
  BY <1>3, <1>6, ExamineDoes DEF Scanning
<1>7. CASE CallFails
  <2>1. dialog.stage \in {"list", "dry", "apply", "create"}
    BY <1>7, CallFailsDoes DEF Calling, Scanning
  <2>2. dialog'.cause = "auth" => ~enabled \/ call.died
    BY <1>7, CallFailsDoes DEF NotAuthenticated, Refused, Posted
  <2>. QED  BY <1>0, <1>7, <2>1, <2>2, CallFailsDoes
<1>8. CASE CallGoesOn
  <2>1. dialog.stage # "failed" /\ UNCHANGED <<dialog, made>>
    BY <1>8, CallGoesOnDoes DEF Calling, Scanning
  <2>2. CallInv'
    BY <1>8, CallGoesOnDoes
  <2>. QED  BY <2>1, <2>2
<1>9. CASE EndList
  BY <1>1, <1>2, <1>9, EndListDoes DEF EndOf
<1>10. CASE EndDry
  BY <1>1, <1>2, <1>10, EndDryDoes DEF EndOf
<1>11. CASE EndApply
  BY <1>0, <1>1, <1>11, EndApplyDoes DEF EndOf
<1>12. CASE Create
  BY <1>0, <1>12, CreateDoes
<1>13. CASE ChangeSites
  BY <1>13, ChangeSitesDoes
<1>14. CASE Calling /\ Environment /\ UNCHANGED <<sites, changes, job, dialog, made>>
  <2>1. dialog.stage # "failed"
    BY <1>14 DEF Calling, Scanning
  <2>2. CallInv'
    BY <1>14 DEF Environment, Age, Revoke, DisableKey, TypeOK, ClientTyped
  <2>. QED  BY <1>14, <2>1, <2>2
<1>15. CASE UNCHANGED vars
  BY <1>15 DEF vars, clientVars
<1>. QED
  BY <1>4, <1>5, <1>6, <1>7, <1>8, <1>9, <1>10, <1>11, <1>12, <1>13, <1>14, <1>15
     DEF Next

-----------------------------------------------------------------------------
\* What a scan of an unchanged list has found.
LEMMA ReadPageExact ==
  ASSUME TypeOK, ScanInv, ReadPage, dialog.stage \in {"dry", "apply"},
         changes = job.since
  PROVE  Exact'
<1>. USE ScanAssumption
<1>1. /\ Exact
      /\ Len(sites) \in Nat /\ job.offset \in Nat /\ PageSize \in Nat \ {0}
      /\ job.count = Len(sites)
  BY ReadPageDoes DEF TypeOK, ListTyped, ScanTyped, ScanInv, Exact
<1>2. /\ sites' = sites /\ job'.count = job.count /\ job'.offset = NextOffset
      /\ job'.step = IF job'.page # {} THEN "nodes"
                     ELSE IF job'.offset < job.count THEN "page" ELSE "end"
      /\ job'.page = {}
      /\ job'.found = job.found \cup {e \in OnPage : Matches(e.site)}
      /\ dialog'.stage = dialog.stage
  BY ReadPageDoes
<1>3. \A k \in 1..Len(sites) :
        k <= NextOffset <=> k <= job.offset \/ (job.offset < k /\ k <= job.offset + PageSize)
  BY <1>1 DEF NextOffset
<1>4. job'.found =
        {[at |-> i, site |-> sites[i]] : i \in {k \in InList(Matches) : k <= NextOffset}}
  <2>1. job.found = {[at |-> i, site |-> sites[i]] :
                       i \in {k \in InList(Matches) : k <= job.offset}}
    BY <1>1 DEF Exact, Entry
  <2>2. {e \in OnPage : Matches(e.site)} =
          {[at |-> i, site |-> sites[i]] :
             i \in {k \in InList(Matches) :
                      job.offset < k /\ k <= job.offset + PageSize}}
    BY DEF OnPage, Entry, InList
  <2>3. {k \in InList(Matches) : k <= NextOffset} =
          {k \in InList(Matches) : k <= job.offset} \cup
          {k \in InList(Matches) : job.offset < k /\ k <= job.offset + PageSize}
    BY <1>3 DEF InList
  <2>. QED  BY <1>2, <2>1, <2>2, <2>3
<1>5. job'.step = "end" => job'.offset >= job'.count
  BY <1>1, <1>2 DEF NextOffset
<1>6. Len(sites') <= Limit /\ job'.count = Len(sites')
  BY <1>1, <1>2 DEF Exact
<1>7. job'.found = {Entry(i) : i \in {k \in InList(Matches) : k <= job.offset}}'
  BY <1>2, <1>4 DEF Entry, InList, Matches
<1>. QED  BY <1>5, <1>6, <1>7 DEF Exact

LEMMA CountExact ==
  ASSUME TypeOK, ScanInv, Count, dialog.stage \in {"dry", "apply"}, ~Fail("closed")
  PROVE  Exact'
<1>1. /\ Len(sites) <= Limit /\ job'.count = Len(sites) /\ sites' = sites
      /\ job'.offset = 0 /\ job'.found = {} /\ Len(sites) \in Nat
      /\ job'.step = IF 0 < Len(sites) THEN "page" ELSE "end"
  BY CountDoes DEF TypeOK, ListTyped, ScanInv, Continue
<1>2. \A k \in 1..Len(sites) : ~(k <= 0)
  BY <1>1
<1>3. {k \in InList(Matches) : k <= job.offset}' = {}
  BY <1>1, <1>2 DEF InList, Matches
<1>4. job'.step = "end" => job'.offset >= job'.count
  BY <1>1
<1>. QED  BY <1>1, <1>3, <1>4 DEF Exact

LEMMA ScanStep ==
  ASSUME TypeOK, DialogInv, ScanInv, [Next]_vars
  PROVE  ScanInv'
<1>0. changes \in Nat /\ job.since \in Nat /\ job.since <= changes
  BY DEF TypeOK, ListTyped, ScanTyped, ScanInv
<1>1. ASSUME UNCHANGED <<sites, changes, job>>,
             dialog'.stage \in {"dry", "apply"} => dialog'.stage = dialog.stage
      PROVE  ScanInv'
  BY <1>1 DEF ScanInv, Exact, InList, Matches, Entry
<1>2. ASSUME Fail("closed") \/ Fail("mismatch")
      PROVE  ScanInv'
  <2>1. PICK cause : Fail(cause)
    BY <1>2
  <2>. QED  BY <1>1, <2>1, FailDoes DEF TypeOK, DialogTyped
<1>3. ASSUME NEW d, Enter(d)
      PROVE  ScanInv'
  BY <1>0, <1>3, EnterDoes DEF ScanInv
<1>4. CASE Count
  <2>1. CASE Fail("closed")
    BY <1>2, <2>1
  <2>2. CASE ~Fail("closed")
    <3>1. /\ job'.step \in {"page", "nodes", "end"} /\ job'.since = job.since
          /\ job'.page = job.page /\ UNCHANGED <<sites, changes, dialog>>
          /\ job'.page = {} => job'.step \in {"page", "end"}
      BY <1>4, <2>2, CountDoes DEF Continue
    <3>2. dialog'.stage \in {"dry", "apply"} => Exact'
      BY <1>4, <2>2, <3>1, CountExact
    <3>. QED  BY <1>0, <3>1, <3>2 DEF ScanInv
  <2>. QED  BY <2>1, <2>2
<1>5. CASE ReadPage
  <2>1. /\ job'.step \in {"page", "nodes", "end"} /\ job'.since = job.since
        /\ UNCHANGED <<sites, changes, dialog>>
        /\ job'.page = {} => job'.step \in {"page", "end"}
        /\ dialog.stage # "list" => job'.page = {}
    BY <1>5, ReadPageDoes
  <2>2. dialog'.stage \in {"dry", "apply"} /\ changes' = job'.since => Exact'
    BY <1>5, <2>1, ReadPageExact
  <2>. QED  BY <1>0, <2>1, <2>2 DEF ScanInv
<1>6. ASSUME NEW good \in BOOLEAN, Examine(good)
      PROVE  ScanInv'
  <2>1. dialog.stage \notin {"dry", "apply"}
    BY <1>6, ExamineDoes DEF ScanInv
  <2>. QED  BY <1>0, <1>6, <2>1, ExamineDoes DEF ScanInv
<1>7. CASE CallFails
  BY <1>1, <1>7, CallFailsDoes
<1>8. CASE CallGoesOn
  BY <1>1, <1>8, CallGoesOnDoes
<1>9. CASE EndList
  BY <1>2, <1>3, <1>9, EndListDoes
<1>10. CASE EndDry
  BY <1>2, <1>3, <1>10, EndDryDoes
<1>11. CASE EndApply
  BY <1>1, <1>2, <1>11, EndApplyDoes
<1>12. CASE Create
  BY <1>1, <1>12, CreateDoes
<1>13. CASE ChangeSites
  BY <1>0, <1>13, ChangeSitesDoes DEF ScanInv
<1>14. CASE Calling /\ Environment /\ UNCHANGED <<sites, changes, job, dialog, made>>
  BY <1>1, <1>14
<1>15. CASE UNCHANGED vars
  BY <1>1, <1>15 DEF vars
<1>. QED
  BY <1>4, <1>5, <1>6, <1>7, <1>8, <1>9, <1>10, <1>11, <1>12, <1>13, <1>14, <1>15
     DEF Next

\* A scan of an unchanged list goes on exactly when the list is unambiguous.
LEMMA FoundExactly ==
  ASSUME TypeOK, ScanInv, dialog.stage \in {"dry", "apply"}, job.step = "end",
         changes = job.since
  PROVE  Discovered(job.found) <=> Unambiguous
<1>1. /\ Exact
      /\ Len(sites) \in Nat /\ job.offset \in Nat
      /\ job.offset >= Len(sites) /\ Len(sites) <= Limit
  BY DEF TypeOK, ListTyped, ScanTyped, ScanInv, Exact
<1>2. job.found = {Entry(i) : i \in InList(Matches)}
  <2>1. {k \in InList(Matches) : k <= job.offset} = InList(Matches)
    BY <1>1 DEF InList
  <2>. QED  BY <1>1, <2>1 DEF Exact
<1>3. \A i, j : Entry(i) = Entry(j) => i = j
  BY DEF Entry
<1>4. IsFiniteSet(InList(Matches))
  <2>1. IsFiniteSet(1..Len(sites))
    BY <1>1, FS_Interval
  <2>2. InList(Matches) \subseteq 1..Len(sites)
    BY DEF InList
  <2>. QED  BY <2>1, <2>2, FS_Subset
<1>5. IsFiniteSet(job.found)
  <2>1. [i \in InList(Matches) |-> Entry(i)]
          \in Surjection(InList(Matches), job.found)
    BY <1>2 DEF Surjection
  <2>. QED  BY <1>4, <2>1, FS_Surjection
<1>6. (\E x : job.found = {x}) <=> (\E i : InList(Matches) = {i})
  <2>1. ASSUME NEW i, InList(Matches) = {i}
        PROVE  job.found = {Entry(i)}
    BY <1>2, <2>1
  <2>2. ASSUME NEW x, job.found = {x}
        PROVE  \E i : InList(Matches) = {i}
    <3>1. PICK i \in InList(Matches) : x = Entry(i)
      BY <1>2, <2>2
    <3>2. \A k \in InList(Matches) : Entry(k) = x
      BY <1>2, <2>2
    <3>3. \A k \in InList(Matches) : k = i
      BY <1>3, <3>1, <3>2
    <3>4. InList(Matches) = {i}
      BY <3>1, <3>3
    <3>. QED  BY <3>4
  <2>. QED  BY <2>1, <2>2
<1>7. One(job.found) <=> Cardinality(InList(Matches)) = 1
  BY <1>4, <1>5, <1>6, FS_Singleton DEF One
<1>8. ASSUME NEW i, InList(Matches) = {i}
      PROVE  TheOnly(job.found) = sites[i]
  <2>1. job.found = {Entry(i)}
    BY <1>2, <1>8
  <2>2. (CHOOSE e \in {Entry(i)} : TRUE) = Entry(i)
    OBVIOUS
  <2>3. Entry(i).site = sites[i]
    BY DEF Entry
  <2>. QED  BY <2>1, <2>2, <2>3 DEF TheOnly
<1>9. One(job.found) =>
        (TheOnly(job.found).kind # "off" <=>
           \A i \in InList(Matches) : sites[i].kind # "off")
  BY <1>4, <1>7, <1>8, FS_Singleton
<1>. QED  BY <1>1, <1>7, <1>9 DEF Discovered, Unambiguous

-----------------------------------------------------------------------------
\* An ambiguous list has been ambiguous all the time.
LEMMA AmbiguityRemains ==
  ASSUME TypeOK, ChangeSites, Ambiguous'
  PROVE  Ambiguous
<1>1. PICK i \in 1..Len(sites'), j \in 1..Len(sites') :
        /\ i # j /\ Matches(sites'[i]) /\ Matches(sites'[j])
        /\ sites'[i].id <= MaxSites /\ sites'[j].id <= MaxSites
  BY DEF Ambiguous, InList, Matches
<1>2. PICK k \in 1..Len(sites), l \in 1..Len(sites) :
        k # l /\ sites'[i] = sites[k] /\ sites'[j] = sites[l]
  BY <1>1, ChangeSitesDoes
<1>. QED  BY <1>1, <1>2 DEF Ambiguous, InList, Matches

\* The list matters as it is.
LEMMA AmbiguityKept ==
  ASSUME UNCHANGED sites
  PROVE  /\ Ambiguous' <=> Ambiguous
         /\ Unambiguous' <=> Unambiguous
BY DEF Ambiguous, Unambiguous, InList, Matches

LEMMA AmbiguousIsNot ==
  ASSUME TypeOK, Ambiguous
  PROVE  ~Unambiguous
<1>1. PICK i \in InList(Matches), j \in InList(Matches) : i # j
  BY DEF Ambiguous
<1>2. IsFiniteSet(InList(Matches))
  <2>1. Len(sites) \in Nat
    BY DEF TypeOK, ListTyped
  <2>2. IsFiniteSet(1..Len(sites))
    BY <2>1, FS_Interval
  <2>3. InList(Matches) \subseteq 1..Len(sites)
    BY DEF InList
  <2>. QED  BY <2>2, <2>3, FS_Subset
<1>3. ASSUME Cardinality(InList(Matches)) = 1
      PROVE  FALSE
  <2>1. PICK x : InList(Matches) = {x}
    BY <1>2, <1>3, FS_Singleton
  <2>. QED  BY <1>1, <2>1
<1>. QED  BY <1>3 DEF Unambiguous

\* Discovery goes on over an ambiguous list only when the list has changed.
LEMMA DeceivedByChange ==
  ASSUME TypeOK, ScanInv, dialog.stage \in {"dry", "apply"}, job.step = "end",
         Discovered(job.found), Ambiguous
  PROVE  changes >= job.since + 1
<1>1. changes # job.since
  BY FoundExactly, AmbiguousIsNot
<1>. QED  BY <1>1 DEF TypeOK, ListTyped, ScanTyped, ScanInv

LEMMA AmbiguityStep ==
  ASSUME TypeOK, DialogInv, ScanInv, AmbiguityInv, [Next]_vars
  PROVE  AmbiguityInv'
<1>0. changes \in Nat /\ job.since \in Nat /\ made \in Nat
  BY DEF TypeOK, ListTyped, ScanTyped, DialogTyped
<1>1. ASSUME UNCHANGED <<sites, changes, dialog, made>>, job'.since = job.since
      PROVE  AmbiguityInv'
  BY <1>1, AmbiguityKept DEF AmbiguityInv
<1>2. ASSUME Fail("closed") \/ Fail("mismatch")
      PROVE  AmbiguityInv'
  <2>1. PICK cause : Fail(cause)
    BY <1>2
  <2>. QED  BY <2>1, FailDoes, AmbiguityKept DEF TypeOK, DialogTyped, AmbiguityInv
<1>3. CASE Count
  <2>1. CASE Fail("closed")
    BY <1>2, <2>1
  <2>2. CASE ~Fail("closed")
    BY <1>1, <1>3, <2>2, CountDoes DEF Continue
  <2>. QED  BY <2>1, <2>2
<1>4. CASE ReadPage
  BY <1>1, <1>4, ReadPageDoes
<1>5. ASSUME NEW good \in BOOLEAN, Examine(good)
      PROVE  AmbiguityInv'
  BY <1>1, <1>5, ExamineDoes
<1>6. CASE CallFails
  BY <1>6, CallFailsDoes, AmbiguityKept DEF AmbiguityInv
<1>7. CASE CallGoesOn
  BY <1>1, <1>7, CallGoesOnDoes
<1>8. CASE EndList
  <2>1. ASSUME NEW d, Enter(d), d.stage = "dry"
        PROVE  AmbiguityInv'
    BY <1>8, <2>1, EnterDoes, EndListDoes DEF AmbiguityInv, DialogInv, EndOf
  <2>. QED  BY <1>2, <1>8, <2>1, EndListDoes
<1>9. CASE EndDry
  <2>1. ASSUME NEW d, Enter(d), d.stage = "apply", Discovered(job.found)
        PROVE  AmbiguityInv'
    <3>1. dialog.stage = "dry" /\ job.step = "end" /\ made = 0
      BY <1>9 DEF EndDry, EndOf, DialogInv
    <3>2. /\ dialog'.stage = "apply" /\ job'.since = changes
          /\ UNCHANGED <<sites, changes, made>>
      BY <2>1, EnterDoes
    <3>3. Ambiguous => changes >= 1
      BY <1>0, <2>1, <3>1, DeceivedByChange
    <3>. QED  BY <1>0, <3>1, <3>2, <3>3, AmbiguityKept DEF AmbiguityInv
  <2>. QED  BY <1>2, <1>9, <2>1, EndDryDoes
<1>10. CASE EndApply
  <2>1. CASE Fail("closed")
    BY <1>2, <2>1
  <2>2. CASE ~Fail("closed")
    <3>1. dialog.stage = "apply" /\ job.step = "end" /\ Discovered(job.found)
      BY <1>10, <2>2, EndApplyDoes DEF EndOf
    <3>2. Ambiguous => changes >= 2
      BY <1>0, <3>1, DeceivedByChange DEF AmbiguityInv
    <3>3. dialog'.stage = "create" /\ UNCHANGED <<sites, changes, job, made>>
      BY <1>10, <2>2, EndApplyDoes
    <3>. QED  BY <3>2, <3>3, AmbiguityKept DEF AmbiguityInv
  <2>. QED  BY <2>1, <2>2
<1>11. CASE Create
  BY <1>11, CreateDoes, AmbiguityKept DEF AmbiguityInv
<1>12. CASE ChangeSites
  <2>1. /\ dialog.stage \in {"list", "dry", "apply"} /\ made = 0
        /\ UNCHANGED <<job, dialog, made>>
    BY <1>12, ChangeSitesDoes DEF Scanning, DialogInv
  <2>. QED  BY <1>0, <1>12, <2>1, AmbiguityRemains DEF AmbiguityInv
<1>13. CASE Calling /\ Environment /\ UNCHANGED <<sites, changes, job, dialog, made>>
  BY <1>1, <1>13
<1>14. CASE UNCHANGED vars
  BY <1>1, <1>14 DEF vars
<1>. QED
  BY <1>3, <1>4, <1>5, <1>6, <1>7, <1>8, <1>9, <1>10, <1>11, <1>12, <1>13, <1>14
     DEF Next

-----------------------------------------------------------------------------
LEMMA InitInv == Init => DiscoveryInv
<1>. SUFFICES ASSUME Init PROVE DiscoveryInv
  OBVIOUS
<1>. USE ScanAssumption
<1>1. PICK n \in 0..MaxSites : \E kinds \in [1..n -> Kinds] :
        sites = [i \in 1..n |-> [id |-> i, kind |-> kinds[i]]]
  BY DEF Init
<1>2. PICK kinds \in [1..n -> Kinds] :
        sites = [i \in 1..n |-> [id |-> i, kind |-> kinds[i]]]
  BY <1>1
<1>3. n \in Nat
  OBVIOUS
<1>4. sites \in [1..n -> Websites]
  BY <1>2, <1>3 DEF Websites
<1>5. sites \in Seq(Websites)
  BY <1>3, <1>4, SeqDef
<1>6. ListTyped
  BY <1>5 DEF ListTyped, Init
<1>7. /\ job = [step |-> "count", count |-> 0, offset |-> 0, page |-> {},
                found |-> {}, since |-> 0]
      /\ dialog = [stage |-> "list", row |-> 0, target |-> 0, cause |-> "none"]
      /\ changes = 0 /\ made = 0 /\ enabled = TRUE
      /\ client = [token |-> "none", valid |-> FALSE]
      /\ call = [at |-> "token", again |-> TRUE, own |-> FALSE, died |-> FALSE]
  BY DEF Init, ClientInit, NewScan, NoToken, NewCall
<1>8. /\ job.step = "count" /\ job.count = 0 /\ job.offset = 0
      /\ job.page = {} /\ job.found = {} /\ job.since = 0
  BY <1>7
<1>9. ScanTyped
  BY <1>7, <1>8 DEF ScanTyped, JobFields, Steps
<1>10. dialog.stage = "list" /\ dialog.cause = "none" /\ DialogFields(dialog)
  BY <1>7 DEF DialogFields
<1>11. DialogTyped
  BY <1>7, <1>10 DEF DialogTyped
<1>12. ClientTyped /\ CallInv
  BY <1>7 DEF ClientTyped, CallInv
<1>13. DialogInv /\ ScanInv /\ AmbiguityInv
  BY <1>7, <1>8, <1>10
     DEF DialogInv, AuthenticationRecovers, ScanInv, AmbiguityInv
<1>. QED  BY <1>6, <1>9, <1>11, <1>12, <1>13 DEF DiscoveryInv, TypeOK

\* The invariant of the scans, of the calls they make and of the dialogue.
THEOREM DiscoveryInductive == Spec => []DiscoveryInv
<1>1. DiscoveryInv /\ [Next]_vars => DiscoveryInv'
  BY TypeStep, CallStep, ScanStep, AmbiguityStep DEF DiscoveryInv
<1>. QED  BY InitInv, <1>1, PTL DEF Spec

\* AuthenticationRecovers of Discovery: a call fails for want of a good token
\* only if the access key is disabled, or the token obtained for it was lost.
THEOREM Authenticated == Spec => []AuthenticationRecovers
<1>1. DiscoveryInv => AuthenticationRecovers
  BY DEF DiscoveryInv, DialogInv
<1>. QED  BY <1>1, DiscoveryInductive, PTL

\* AppliedOnce of Discovery: however often a call is repeated, the write that
\* creates a certificate is applied at most once.
THEOREM WriteOnce == Spec => []AppliedOnce
<1>1. DiscoveryInv => AppliedOnce
  BY DEF DiscoveryInv, DialogInv, AppliedOnce
<1>. QED  BY <1>1, DiscoveryInductive, PTL

\* AmbiguityNeverOrdered of Discovery: an address that two websites have all the
\* time gets no certificate while the list changes at most once.
THEOREM AmbiguityRefused == Spec => []AmbiguityNeverOrdered
<1>1. ASSUME DiscoveryInv
      PROVE  AmbiguityNeverOrdered
  <2>. DEFINE S == {i \in InList(Matches) : sites[i].id <= MaxSites}
  <2>. SUFFICES ASSUME made > 0, changes <= 1
                PROVE  Cardinality(S) <= 1
    BY DEF AmbiguityNeverOrdered
  <2>1. changes \in Nat
    BY <1>1 DEF DiscoveryInv, TypeOK, ListTyped
  <2>2. ~Ambiguous
    BY <1>1, <2>1 DEF DiscoveryInv, AmbiguityInv
  <2>3. \A i, j \in S : i = j
    BY <2>2 DEF Ambiguous
  <2>4. CASE S = {}
    BY <2>4, FS_EmptySet
  <2>5. CASE S # {}
    <3>1. PICK i : S = {i}
      BY <2>3, <2>5
    <3>2. Cardinality(S) = 1
      BY <3>1, FS_Singleton
    <3>. QED  BY <3>2
  <2>. QED  BY <2>4, <2>5
<1>. QED  BY <1>1, DiscoveryInductive, PTL

\* DiscoveryExact of Discovery: a scan that read an unchanged list goes on
\* exactly when one website matches and has HTTPS, and fails closed otherwise.
THEOREM ScansExact == Spec => DiscoveryExact
<1>1. ASSUME DiscoveryInv, EndDry \/ EndApply, changes = job.since
      PROVE  dialog'.cause = "closed" <=> ~Unambiguous
  <2>1. TypeOK /\ DialogInv /\ ScanInv
    BY <1>1 DEF DiscoveryInv
  <2>2. dialog.stage \in {"dry", "apply"} /\ job.step = "end"
    BY <1>1 DEF EndDry, EndApply, EndOf
  <2>3. dialog.cause = "none"
    BY <2>1, <2>2 DEF DialogInv
  <2>4. Discovered(job.found) <=> Unambiguous
    BY <1>1, <2>1, <2>2, FoundExactly
  <2>5. \A cause : Fail(cause) => dialog'.cause = cause
    BY <2>1, FailDoes DEF TypeOK, DialogTyped
  <2>6. \A d : Enter(d) => dialog' = d
    BY DEF Enter
  <2>7. CASE EndDry
    BY <2>1, <2>3, <2>4, <2>5, <2>6, <2>7, EndDryDoes
  <2>8. CASE EndApply
    BY <2>1, <2>3, <2>4, <2>5, <2>8, EndApplyDoes
  <2>. QED  BY <1>1, <2>7, <2>8
<1>2. DiscoveryInv /\ [Next]_vars =>
        [(EndDry \/ EndApply) /\ changes = job.since
           => (dialog'.cause = "closed" <=> ~Unambiguous)]_vars
  BY <1>1
<1>. QED  BY <1>2, DiscoveryInductive, PTL DEF Spec, DiscoveryExact
=============================================================================
