------------------------ MODULE InstallationInvariant ------------------------
(***************************************************************************)
(* Why the safety properties of Installation hold: what each step of       *)
(* install.sh and of InitializeDatabase may assume of the account, of the  *)
(* files on the disk and of the two programs, wherever an earlier script   *)
(* was stopped.                                                            *)
(***************************************************************************)
EXTENDS Installation

\* Between CREATE USER and the end of the attempt, or of its undoing.
Created == {"boot_grant", "boot_write", "boot_verify", "boot_name",
            "boot_remove", "boot_drop"}

\* Steps of an attempt that found no file, while there is none.
NoFileYet == {"boot_count", "boot_create", "boot_grant", "boot_write"}

\* The attempt has written its own file.
FileWritten == {"boot_verify", "boot_name", "boot_remove"}

Bootstrapped == {"binary", "manager", "conf", "units", "enable", "unmark"}

CredentialAtStep ==
  /\ kept => credential # 0
  /\ pc \in NoFileYet => credential = 0
  /\ pc \in FileWritten => credential = password /\ ~kept
  /\ pc \in Created => password # 0
  /\ At("boot_create") => account = NoAccount
  /\ At("boot_grant") => account = [password |-> password, granted |-> FALSE]
  /\ At("boot_write") => account = [password |-> password, granted |-> TRUE]
  /\ At("boot_drop") =>
       /\ account.password = password
       /\ credential = 0 \/ (kept /\ credential = password)
  /\ pc \in Bootstrapped \cup {"boot_existing_name"} => CredentialAccepted
  /\ pc \in Bootstrapped => dbname

\* The steps of install_initialize from the given one on.
FromBootstrap == BootSteps \cup Bootstrapped
FromDiscover == {"discover"} \cup FromBootstrap
FromSecrets == {"secrets", "id", "key"} \cup FromDiscover

DiskAtStep ==
  /\ pc \in {"marker", "var"} \cup FromSecrets => "etc" \in dirs
  /\ pc \in {"var"} \cup FromSecrets => file["marker"] = "whole"
  /\ pc \in FromSecrets => "var" \in dirs
  /\ pc \in FromBootstrap => \A f \in Secrets : file[f] = "whole"
  /\ pc \in {"units", "enable", "unmark"} => file["conf"] = "whole"
  /\ pc \in {"id", "key", "n_ask", "n_etc", "n_var"} \cup Created =>
       file["units"] = "none"

\* What the units need is there as soon as there is anything of them.
UnitsComplete ==
  file["units"] # "none" =>
    /\ dirs = {"etc", "var"}
    /\ \A f \in Secrets : file[f] = "whole"
    /\ CredentialAccepted /\ dbname
    /\ \/ file["conf"] = "whole"
       \/ file["conf"] = "cut" /\ file["marker"] = "whole"

\* Which programs and copies are of one release, at each step.
ProgramsAgree ==
  /\ At("manager") => binary = 1
  /\ ~torn =>
       /\ pc \notin {"manager", "u_manager", "u_back_binary", "u_back_manager"} =>
            binary = manager /\ binary # Cut
       /\ pc \in {"u_manager", "u_back_binary"} =>
            oldBinary = oldManager /\ oldBinary # Cut
       /\ At("u_back_manager") => binary = oldManager /\ binary # Cut

\* What each step of an update finds of the copies it has made.
CopiesAtStep ==
  /\ pc \in {"u_save_manager", "u_binary"} => oldBinary = binary
  /\ pc \in {"u_binary", "u_manager"} => oldManager = manager
  /\ pc \in {"u_save_manager", "u_binary", "u_manager", "u_back_binary"} =>
       oldBinary # 0
  /\ pc \in {"u_binary", "u_manager", "u_back_binary", "u_back_manager"} =>
       oldManager # 0
  /\ pc \in {"u_manager", "u_clean"} => binary > 0
  /\ At("u_clean") => manager = binary

\* The inductive invariant: what each step may assume, and the properties that
\* follow from it (install.sh, bootstrap/database.go).
InstallationInv ==
  /\ TypeOK
  /\ CredentialAtStep /\ CredentialWorks
  /\ DiskAtStep /\ UnitsComplete
  /\ ProgramsAgree
  /\ CopiesAtStep
=============================================================================
