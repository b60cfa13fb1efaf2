------------------------------- MODULE Account -------------------------------
(***************************************************************************)
(* The ACME account of a target: a key and a metadata file, which          *)
(* src/internal/acme/account.go writes one after the other, and the        *)
(* registration at the CA (issuer.go), which is stored in the metadata.    *)
(***************************************************************************)
EXTENDS Migration

CONSTANT MaxKeys    \* bound: account keys that are generated

ASSUME KeysAssumption == MaxKeys \in Nat

VARIABLES
  files,   \* account.key: the key, or 0; account.json
  ca,      \* keys the CA has an account for
  nkeys

accountVars == <<files, ca, nkeys>>

HasKey == files.key # 0
HasMeta == files.meta # "none"

\* LoadOrCreate with both files there, or with neither.
LoadOrCreate(p) ==
  /\ At(p, "opened")
  /\ p \in Cores
  /\ \/ /\ HasKey /\ HasMeta
        /\ proc' = [proc EXCEPT ![p].key = files.key, ![p].meta = files.meta,
                                ![p].pc = "account"]
        /\ UNCHANGED nkeys
     \/ /\ ~HasKey /\ ~HasMeta
        /\ nkeys < MaxKeys
        /\ nkeys' = nkeys + 1
        /\ proc' = [proc EXCEPT ![p].key = nkeys', ![p].meta = "blank",
                                ![p].pc = "write_key"]
  /\ UNCHANGED <<db, lock, faults, files, ca>>

\* "ACME account key/meta must both exist": before any recovery of the runner.
RefuseHalfPair(p) ==
  /\ At(p, "opened")
  /\ p \in Cores
  /\ HasKey # HasMeta
  /\ Leave(p)
  /\ UNCHANGED <<faults, accountVars>>

WriteKey(p) ==
  /\ At(p, "write_key")
  /\ files' = [files EXCEPT !.key = proc[p].key]
  /\ GoTo(p, "write_meta")
  /\ UNCHANGED <<db, lock, faults, ca, nkeys>>

WriteMeta(p) ==
  /\ At(p, "write_meta")
  /\ files' = [files EXCEPT !.meta = "blank"]
  /\ GoTo(p, "account")
  /\ UNCHANGED <<db, lock, faults, ca, nkeys>>

\* Obtain, without a stored registration.  For a key it knows the CA returns
\* the account it has.
Register(p) ==
  /\ At(p, "account")
  /\ proc[p].meta = "blank"
  /\ ca' = ca \cup {proc[p].key}
  /\ proc' = [proc EXCEPT ![p].meta = "registered", ![p].pc = "save"]
  /\ UNCHANGED <<db, lock, faults, files, nkeys>>

SaveRegistration(p) ==
  /\ At(p, "save")
  /\ files' = [files EXCEPT !.meta = "registered"]
  /\ GoTo(p, "ordered")
  /\ UNCHANGED <<db, lock, faults, ca, nkeys>>

QueryRegistration(p) ==
  /\ At(p, "account")
  /\ proc[p].meta = "registered"
  /\ proc[p].key \in ca
  /\ GoTo(p, "ordered")
  /\ UNCHANGED <<db, lock, faults, accountVars>>

\* The CA answers with an error, or its answer is lost after it registered.
RequestFails(p) ==
  /\ At(p, "account")
  /\ Fault("acme")
  /\ ca' \in IF proc[p].meta = "registered" THEN {ca} ELSE {ca, ca \cup {proc[p].key}}
  /\ Leave(p)
  /\ UNCHANGED <<files, nkeys>>

Written(p) ==
  CASE At(p, "write_key") -> [files EXCEPT !.key = proc[p].key]
    [] At(p, "write_meta") -> [files EXCEPT !.meta = "blank"]
    [] OTHER -> [files EXCEPT !.meta = "registered"]

\* writeAtomic fails, before the rename or, syncing the directory, after it.
WriteFails(p) ==
  /\ proc[p].pc \in {"write_key", "write_meta", "save"}
  /\ Fault("disk")
  /\ files' \in {files, Written(p)}
  /\ Leave(p)
  /\ UNCHANGED <<ca, nkeys>>

UseAccount(p) ==
  \/ LoadOrCreate(p) \/ RefuseHalfPair(p) \/ WriteKey(p) \/ WriteMeta(p)
  \/ Register(p) \/ SaveRegistration(p) \/ QueryRegistration(p)
  \/ RequestFails(p) \/ WriteFails(p)
=============================================================================
