------------------------------ MODULE EdgeClient ------------------------------
(***************************************************************************)
(* Calls to EdgeAPI (src/internal/goedge/client.go): a call uses the       *)
(* cached access token, or gets one first, and is repeated once with a new *)
(* token when EdgeAPI refuses the old one.                                 *)
(***************************************************************************)
EXTENDS Integers

CONSTANTS
  MaxFaults,   \* bound: faults in one behaviour
  Faults       \* kinds of fault that can happen

FaultKinds == {"revoke",     \* EdgeAPI drops a token before its time
               "disable",    \* the access key is disabled
               "transport",  \* a request or its answer is lost
               "reject"}     \* EdgeAPI refuses a request, naming a token or not

ASSUME ClientAssumption ==
  /\ MaxFaults \in Nat
  /\ Faults \subseteq FaultKinds

VARIABLES
  client,   \* the cached token as the client sees it, and if EdgeAPI takes it
  call,     \* the call in hand: where it is, and if it may be repeated;
            \* history: own, it got the token itself; died, that token is dead
  enabled,  \* the access key is good
  faults

clientVars == <<client, call, enabled, faults>>

\* Until a minute before its expiry a token is fresh, then it is late.
NoToken == [token |-> "none", valid |-> FALSE]

NewCall == [at |-> "token", again |-> TRUE, own |-> FALSE, died |-> FALSE]

Fault(kind) ==
  /\ kind \in Faults
  /\ faults < MaxFaults
  /\ faults' = faults + 1

ClientInit ==
  /\ client = NoToken
  /\ call = NewCall
  /\ enabled = TRUE
  /\ faults = 0

-----------------------------------------------------------------------------
\* accessToken with a fresh token in the cache.
UseToken ==
  /\ call.at = "token"
  /\ client.token = "fresh"
  /\ call' = [call EXCEPT !.at = "post"]
  /\ UNCHANGED <<client, enabled, faults>>

\* getAPIAccessToken.
RequestToken ==
  /\ call.at = "token"
  /\ client.token # "fresh"
  /\ enabled
  /\ client' = [token |-> "fresh", valid |-> TRUE]
  /\ call' = [call EXCEPT !.at = "post", !.own = TRUE, !.died = FALSE]
  /\ UNCHANGED <<enabled, faults>>

Posted == call.at = "post"

\* EdgeAPI looks at the token before it does anything.
Accepted == Posted /\ client.valid
Refused == Posted /\ ~client.valid

\* Mutant: the token that was refused stays in the cache.
RepeatCached ==
  /\ call.again
  /\ \/ Refused /\ UNCHANGED faults
     \/ Accepted /\ Fault("reject")
  /\ call' = [call EXCEPT !.at = "token", !.again = FALSE]
  /\ UNCHANGED <<client, enabled>>

\* invalidateToken, and the second attempt: after any error whose text names a
\* token, whether EdgeAPI refused the token or rejects something else.
Repeat ==
  /\ call.again
  /\ \/ Refused /\ UNCHANGED faults
     \/ Accepted /\ Fault("reject")
  /\ client' = NoToken
  /\ call' = [call EXCEPT !.at = "token", !.again = FALSE]
  /\ UNCHANGED enabled

\* ErrAuthentication.
NotAuthenticated ==
  /\ \/ call.at = "token" /\ client.token # "fresh" /\ ~enabled
     \/ Refused /\ ~call.again
  /\ UNCHANGED <<client, enabled, faults>>

\* The request does not arrive, or is rejected without effect: for a permission
\* that is missing as well, which classifyError cannot tell from a bad token.
NotDone ==
  /\ \/ call.at = "token" /\ client.token # "fresh" /\ Fault("transport")
     \/ Posted /\ Fault("transport")
     \/ Accepted /\ Fault("reject")
  /\ UNCHANGED <<client, enabled>>

-----------------------------------------------------------------------------
\* A token comes within a minute of its expiry, and expires.
Age ==
  \/ /\ client.token = "fresh"
     /\ client' = [client EXCEPT !.token = "late"]
     /\ UNCHANGED <<call, enabled, faults>>
  \/ /\ client.token = "late" /\ client.valid
     /\ client' = [client EXCEPT !.valid = FALSE]
     /\ call' = [call EXCEPT !.died = call.own]
     /\ UNCHANGED <<enabled, faults>>

\* Another program that uses the access key gets a token, or EdgeAPI restarts.
Revoke ==
  /\ client.valid
  /\ Fault("revoke")
  /\ client' = [client EXCEPT !.valid = FALSE]
  /\ call' = [call EXCEPT !.died = call.own]
  /\ UNCHANGED enabled

DisableKey ==
  /\ enabled
  /\ Fault("disable")
  /\ enabled' = FALSE
  /\ UNCHANGED <<client, call>>

Environment == Age \/ Revoke \/ DisableKey
=============================================================================
