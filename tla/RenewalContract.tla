--------------------------- MODULE RenewalContract ---------------------------
(***************************************************************************)
(* What a renewal is to the administrator: an update of one certificate    *)
(* object that is first tried and then accepted or taken back.  The object *)
(* always holds the good certificate or the one on trial, a trial ends     *)
(* with the object holding the good certificate, and before the next trial *)
(* begins the last one has ended.                                          *)
(***************************************************************************)
CONSTANTS
  Fingerprints,   \* the certificates renewals can bring
  None            \* stands for no certificate, not one of them

VARIABLES
  good,    \* the certificate of the last success, None before the first
  live,    \* what the object holds
  trial    \* the certificate being tried, None between renewals

contractVars == <<good, live, trial>>

Init == good = None /\ live = None /\ trial = None

\* The first issue succeeds.
Adopt(f) ==
  /\ good = None
  /\ good' = f /\ live' = f
  /\ UNCHANGED trial

\* A renewal prepares to replace the certificate.
BeginTrial(f) ==
  /\ good # None /\ trial = None /\ f # good
  /\ trial' = f
  /\ UNCHANGED <<good, live>>

Deploy ==
  /\ trial # None
  /\ live' = trial
  /\ UNCHANGED <<good, trial>>

TakeBack ==
  /\ trial # None
  /\ live' = good
  /\ UNCHANGED <<good, trial>>

Accept ==
  /\ trial # None /\ live = trial
  /\ good' = trial /\ trial' = None
  /\ UNCHANGED live

GiveUp ==
  /\ trial # None /\ live = good
  /\ trial' = None
  /\ UNCHANGED <<good, live>>

Next == \/ \E f \in Fingerprints : Adopt(f) \/ BeginTrial(f)
        \/ Deploy \/ TakeBack \/ Accept \/ GiveUp

Spec == Init /\ [][Next]_contractVars
=============================================================================
