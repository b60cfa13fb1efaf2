------------------------------ MODULE Discovery ------------------------------
(***************************************************************************)
(* A website gets its first certificate: the manager lists the eligible    *)
(* websites, the operator chooses one, a dry run discovers its server      *)
(* again and is compared with the choice, and the run that orders          *)
(* discovers it once more (apply_new_website in src/install.sh,            *)
(* src/internal/goedge/server.go, DryRun and runFirstIssue of the runner). *)
(* Each of the three is a process with a client of its own, and reads a    *)
(* list page by page that others change.                                   *)
(***************************************************************************)
EXTENDS EdgeClient, Sequences, FiniteSets

CONSTANTS
  PageSize,     \* servers in one answer
  Limit,        \* servers a scan accepts
  MaxSites,     \* bound: websites at the beginning
  MaxChanges    \* bound: websites that are added or removed

ASSUME ScanAssumption ==
  /\ PageSize \in Nat \ {0}
  /\ {Limit, MaxSites, MaxChanges} \subseteq Nat

VARIABLES
  sites,     \* EdgeAPI's enabled HTTP websites, in its order
  changes,
  job,       \* the scan: its step, position, servers to look at and found
  dialog,    \* the process at work, the server chosen and the one discovered
  made       \* certificates created

vars == <<sites, changes, job, dialog, made, clientVars>>

\* "only": the address is its only name; "among": one of several names; "off":
\* its only name, but HTTPS is off; "other": a name that contains the address.
Kinds == {"only", "among", "off", "other"}

\* containsExactName, and the conditions of eligibleWebsite on a website alone.
Matches(s) == s.kind # "other"
Eligible(s) == s.kind = "only"

\* What a scan reads, with the position it was read at: a website that moves
\* can be read twice.
Entry(i) == [at |-> i, site |-> sites[i]]

NewScan == [step |-> "count", count |-> 0, offset |-> 0, page |-> {},
            found |-> {}, since |-> 0]

Init ==
  /\ \E n \in 0..MaxSites : \E kinds \in [1..n -> Kinds] :
       sites = [i \in 1..n |-> [id |-> i, kind |-> kinds[i]]]
  /\ changes = 0
  /\ job = NewScan
  /\ dialog = [stage |-> "list", row |-> 0, target |-> 0, cause |-> "none"]
  /\ made = 0
  /\ ClientInit

Scanning == dialog.stage \in {"list", "dry", "apply"} /\ job.step # "end"

Calling == Scanning \/ dialog.stage = "create"

Fail(cause) ==
  /\ dialog' = [dialog EXCEPT !.stage = "failed", !.cause = cause]
  /\ UNCHANGED <<sites, changes, job, call, made>>

\* The next process, which knows nothing of the tokens of this one.
Enter(d) ==
  /\ dialog' = d
  /\ job' = [NewScan EXCEPT !.since = changes]
  /\ client' = NoToken
  /\ call' = NewCall
  /\ UNCHANGED <<sites, changes, made, enabled, faults>>

-----------------------------------------------------------------------------
\* The next call of a scan, or its end.
Continue(j) ==
  /\ job' = [j EXCEPT !.step = IF j.page # {} THEN "nodes"
                                ELSE IF j.offset < j.count THEN "page" ELSE "end"]
  /\ call' = NewCall
  /\ UNCHANGED <<sites, changes, dialog, made, client, enabled, faults>>

\* countAllEnabledServersMatch.
Count ==
  /\ Scanning /\ job.step = "count" /\ Accepted
  /\ IF Len(sites) > Limit
     THEN Fail("closed") /\ UNCHANGED <<client, enabled, faults>>
     ELSE Continue([job EXCEPT !.count = Len(sites)])

\* The answer to listEnabledServersMatch.
OnPage ==
  {Entry(i) : i \in {k \in 1..Len(sites) :
     job.offset < k /\ k <= job.offset + PageSize}}

\* The page, looked at; the scan reads on from the position next.
Page(next) ==
  Continue([job EXCEPT
    !.offset = next,
    !.page = {e \in OnPage : dialog.stage = "list" /\ Eligible(e.site)},
    !.found = @ \cup {e \in OnPage : dialog.stage # "list" /\ Matches(e.site)}])

\* Mutant: only full pages are read.
ReadFullPage ==
  /\ Scanning /\ job.step = "page" /\ Accepted
  /\ Page(IF job.offset + 2 * PageSize <= job.count
          THEN job.offset + PageSize ELSE job.count)

\* listEnabledServersMatch; a page that is not full is the last.  DiscoverServer
\* decides on the page alone; the list asks EdgeAPI about each website that
\* could be eligible.
ReadPage ==
  /\ Scanning /\ job.step = "page" /\ Accepted
  /\ Page(IF Len(sites) < job.offset + PageSize
          THEN job.count ELSE job.offset + PageSize)

First(page) == CHOOSE e \in page : \A f \in page : e.at <= f.at

\* clusterNodeState, then Policy: is a node installed and on, is the policy on.
Examine(good) ==
  /\ Scanning /\ Accepted
  /\ \/ /\ job.step = "nodes" /\ good
        /\ job' = [job EXCEPT !.step = "policy"]
        /\ call' = NewCall
        /\ UNCHANGED <<sites, changes, dialog, made, client, enabled, faults>>
     \/ /\ job.step = "policy" /\ good
        /\ Continue([job EXCEPT !.page = @ \ {First(@)},
                                !.found = @ \cup {First(job.page)}])
     \/ /\ job.step \in {"nodes", "policy"} /\ ~good
        /\ Continue([job EXCEPT !.page = @ \ {First(@)}])

CallFails ==
  /\ Calling
  /\ \/ NotAuthenticated /\ Fail("auth")
     \/ NotDone /\ Fail("error")

CallGoesOn ==
  /\ Calling
  /\ UseToken \/ RequestToken \/ Repeat
  /\ UNCHANGED <<sites, changes, job, dialog, made>>

-----------------------------------------------------------------------------
EndOf(stage) == dialog.stage = stage /\ job.step = "end"

One(found) == Cardinality(found) = 1

TheOnly(found) == (CHOOSE e \in found : TRUE).site

\* Mutant: the order is placed without a dry run.
EndListOrders ==
  /\ EndOf("list")
  /\ IF One(job.found)
     THEN Enter([dialog EXCEPT !.stage = "apply", !.row = TheOnly(job.found).id])
     ELSE Fail("closed") /\ UNCHANGED <<client, enabled, faults>>

\* An address that is listed twice is left out; the operator chooses the rest.
EndList ==
  /\ EndOf("list")
  /\ IF One(job.found)
     THEN Enter([dialog EXCEPT !.stage = "dry", !.row = TheOnly(job.found).id])
     ELSE Fail("closed") /\ UNCHANGED <<client, enabled, faults>>

\* Exactly one match, with HTTPS and a policy.
Discovered(found) == One(found) /\ TheOnly(found).kind # "off"

\* "dry-run Server" differs from the row, or the operator is asked.  That the
\* dry run then reads the policy is left out: it can only fail.
EndDry ==
  /\ EndOf("dry")
  /\ IF ~Discovered(job.found)
     THEN Fail("closed") /\ UNCHANGED <<client, enabled, faults>>
     ELSE IF TheOnly(job.found).id # dialog.row
     THEN Fail("mismatch") /\ UNCHANGED <<client, enabled, faults>>
     ELSE Enter([dialog EXCEPT !.stage = "apply"])

\* The run goes on to its order and then creates the certificate.
EndApply ==
  /\ EndOf("apply")
  /\ IF Discovered(job.found)
     THEN /\ dialog' = [dialog EXCEPT !.stage = "create",
                                       !.target = TheOnly(job.found).id]
          /\ call' = NewCall
          /\ UNCHANGED <<sites, changes, job, made, client, enabled, faults>>
     ELSE Fail("closed") /\ UNCHANGED <<client, enabled, faults>>

\* Mutant: a write is repeated when its answer is lost.
CreateAgain ==
  /\ dialog.stage = "create" /\ Accepted
  /\ made' = made + 1
  /\ \/ /\ dialog' = [dialog EXCEPT !.stage = "done"]
        /\ UNCHANGED <<sites, changes, job, clientVars>>
     \/ /\ call.again
        /\ Fault("transport")
        /\ call' = [call EXCEPT !.at = "token", !.again = FALSE]
        /\ UNCHANGED <<sites, changes, job, dialog, client, enabled>>

\* createSSLCert is applied; its answer can be lost.
Create ==
  /\ dialog.stage = "create" /\ Accepted
  /\ made' = made + 1
  /\ \/ /\ dialog' = [dialog EXCEPT !.stage = "done"]
        /\ UNCHANGED faults
     \/ /\ Fault("transport")
        /\ dialog' = [dialog EXCEPT !.stage = "failed", !.cause = "error"]
  /\ UNCHANGED <<sites, changes, job, client, call, enabled>>

-----------------------------------------------------------------------------
\* Somebody adds a website, at either end of the list, or removes one.
ChangeSites ==
  /\ Scanning
  /\ changes < MaxChanges
  /\ changes' = changes + 1
  /\ \/ \E k \in Kinds : LET new == <<[id |-> MaxSites + changes', kind |-> k]>> IN
          sites' \in {new \o sites, sites \o new}
     \/ \E i \in 1..Len(sites) :
          sites' = SubSeq(sites, 1, i - 1) \o SubSeq(sites, i + 1, Len(sites))
  /\ UNCHANGED <<job, dialog, made, clientVars>>

Next ==
  \/ Count \/ ReadPage \/ (\E good \in BOOLEAN : Examine(good))
  \/ CallFails \/ CallGoesOn
  \/ EndList \/ EndDry \/ EndApply \/ Create
  \/ ChangeSites
  \/ Calling /\ Environment /\ UNCHANGED <<sites, changes, job, dialog, made>>

Spec == Init /\ [][Next]_vars

-----------------------------------------------------------------------------
InList(P(_)) == {i \in 1..Len(sites) : P(sites[i])}

\* What discovery should find on a list that stands still.
Unambiguous ==
  /\ Len(sites) <= Limit
  /\ Cardinality(InList(Matches)) = 1
  /\ \A i \in InList(Matches) : sites[i].kind # "off"

\* A scan that read an unchanged list, whatever tokens expired on its way, goes
\* on exactly when one website matches and has HTTPS; it fails closed otherwise.
DiscoveryExact ==
  [][(EndDry \/ EndApply) /\ changes = job.since
       => (dialog'.cause = "closed" <=> ~Unambiguous)]_vars

\* Two scans guard an order, and one change of the list can deceive one of them:
\* while the list changed at most once since the dialogue began, no certificate
\* is created when two websites matched the address all the time.
AmbiguityNeverOrdered ==
  made > 0 /\ changes <= 1 =>
    Cardinality({i \in InList(Matches) : sites[i].id <= MaxSites}) <= 1

\* A call fails for want of a good token only if the access key is disabled, or
\* if a token that was obtained for this very call was lost again.
AuthenticationRecovers ==
  dialog.cause = "auth" => ~enabled \/ call.died

\* A write is repeated after a refused token, but never applied twice.
AppliedOnce == made <= 1
=============================================================================
