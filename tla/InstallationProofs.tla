------------------------- MODULE InstallationProofs -------------------------
(***************************************************************************)
(* The invariant of module InstallationInvariant is inductive, for every   *)
(* number of releases, passwords, removals and faults.  Each of its parts  *)
(* has a lemma, with a step for every action that touches it; the actions  *)
(* that leave it alone share one.                                          *)
(***************************************************************************)
EXTENDS InstallationInvariant, TLAPS

\* What InitializeDatabase leaves to the rest of the script.
ScriptUnchanged == UNCHANGED <<disk, programs, timer, removals, torn>>

\* Every variable stays in its type.  A leaf on Boolean variables goes to Zenon.
LEMMA TypesKept ==
  ASSUME BootstrapAssumption, InstallationAssumption, InstallationInv, [Next]_vars
  PROVE  TypeOK'
<1> USE BootstrapAssumption, InstallationAssumption
    DEF InstallationInv, TypeOK, At, GoTo, Steps, BootSteps, InstallSteps,
        RemoveSteps, UpdateSteps, Files, EtcFiles, Secrets, NoAccount,
        Versions, Cut
<1>1. CASE UNCHANGED vars
  BY <1>1 DEF vars, disk, bootVars, programs
<1>2. CASE BootStat /\ ScriptUnchanged
  BY <1>2 DEF BootStat, ScriptUnchanged, disk, bootVars, programs
<1>3. CASE BootVerifyExisting /\ ScriptUnchanged
  BY <1>3 DEF BootVerifyExisting, OrFail, Fault, ScriptUnchanged, disk,
      bootVars, programs
<1>4. CASE BootExistingName /\ ScriptUnchanged
  <2>1. /\ dbname' \in BOOLEAN /\ timer' \in BOOLEAN
        /\ torn' \in BOOLEAN /\ kept' \in BOOLEAN
    BY <1>4, Zenon DEF BootExistingName, OrFail, Fault, ScriptUnchanged, disk, bootVars,
        programs
  <2> QED
    BY <1>4, <2>1 DEF BootExistingName, OrFail, Fault, ScriptUnchanged, disk,
        bootVars, programs
<1>5. CASE BootCountUser /\ ScriptUnchanged
  BY <1>5 DEF BootCountUser, OrFail, Fault, ScriptUnchanged, disk, bootVars,
      programs
<1>6. CASE BootCreateUser /\ ScriptUnchanged
  <2>1. /\ dbname' \in BOOLEAN /\ timer' \in BOOLEAN
        /\ torn' \in BOOLEAN /\ kept' \in BOOLEAN
    BY <1>6, Zenon DEF BootCreateUser, ScriptUnchanged, disk, programs
  <2>2. npasswords' \in 0..MaxPasswords /\ password' \in 0..MaxPasswords
    BY <1>6 DEF BootCreateUser, Fault, ScriptUnchanged
  <2>3. \/ account' = account
        \/ account' = [password |-> npasswords + 1, granted |-> FALSE]
           /\ npasswords + 1 \in 1..MaxPasswords
    BY <1>6 DEF BootCreateUser, Fault
  <2>4. account' \in {NoAccount} \cup [password: 1..MaxPasswords, granted: BOOLEAN]
    <3>1. CASE account' = account
      BY <3>1
    <3>2. CASE /\ account' = [password |-> npasswords + 1, granted |-> FALSE]
               /\ npasswords + 1 \in 1..MaxPasswords
      BY <3>2, Zenon
    <3> QED BY <2>3, <3>1, <3>2, Zenon
  <2> QED
    BY <1>6, <2>1, <2>2, <2>4 DEF BootCreateUser, Fault, ScriptUnchanged,
        disk, bootVars, programs
<1>7. CASE BootGrant /\ ScriptUnchanged
  <2>1. /\ dbname' \in BOOLEAN /\ timer' \in BOOLEAN
        /\ torn' \in BOOLEAN /\ kept' \in BOOLEAN
    BY <1>7, Zenon DEF BootGrant, ScriptUnchanged, disk, programs
  <2>2. account = [password |-> password, granted |-> FALSE]
        /\ password \in 1..MaxPasswords
    BY <1>7 DEF BootGrant, CredentialAtStep, Created
  <2>3. account' \in {NoAccount} \cup [password: 1..MaxPasswords, granted: BOOLEAN]
    BY <1>7, <2>2 DEF BootGrant, Fault
  <2> QED
    BY <1>7, <2>1, <2>3 DEF BootGrant, Fault, ScriptUnchanged, disk,
        bootVars, programs
<1>8. CASE BootWriteCredential /\ ScriptUnchanged
  BY <1>8 DEF BootWriteCredential, OrFail, Fault, ScriptUnchanged, disk,
      bootVars, programs
<1>9. CASE BootVerify /\ ScriptUnchanged
  BY <1>9 DEF BootVerify, OrFail, Fault, ScriptUnchanged, disk, bootVars,
      programs
<1>10. CASE BootName /\ ScriptUnchanged
  <2>1. /\ dbname' \in BOOLEAN /\ timer' \in BOOLEAN
        /\ torn' \in BOOLEAN /\ kept' \in BOOLEAN
    BY <1>10, Zenon DEF BootName, OrFail, Fault, ScriptUnchanged, disk, bootVars, programs
  <2> QED
    BY <1>10, <2>1 DEF BootName, OrFail, Fault, ScriptUnchanged, disk,
        bootVars, programs
<1>11. CASE BootRemove /\ ScriptUnchanged
  <2>1. /\ dbname' \in BOOLEAN /\ timer' \in BOOLEAN
        /\ torn' \in BOOLEAN /\ kept' \in BOOLEAN
    BY <1>11, Zenon DEF BootRemove, Fault, ScriptUnchanged, disk, bootVars, programs
  <2> QED
    BY <1>11, <2>1 DEF BootRemove, Fault, ScriptUnchanged, disk, bootVars,
        programs
<1>12. CASE BootDrop /\ ScriptUnchanged
  BY <1>12 DEF BootDrop, OrFail, Fault, ScriptUnchanged, disk, bootVars,
      programs
<1>13. CASE StartInstall
  BY <1>13 DEF StartInstall, Refused, Pass, disk, bootVars, programs
<1>14. CASE MakeConfigDirs
  BY <1>14 DEF MakeConfigDirs, MakeDir, disk, bootVars, programs
<1>15. CASE WriteMarker
  BY <1>15 DEF WriteMarker, Write, disk, bootVars, programs
<1>16. CASE MakeStateDirs
  BY <1>16 DEF MakeStateDirs, MakeDir, disk, bootVars, programs
<1>17. CASE AskSecrets
  BY <1>17 DEF AskSecrets, Pass, disk, bootVars, programs
<1>18. CASE WriteId
  BY <1>18 DEF WriteId, Write, disk, bootVars, programs
<1>19. CASE WriteKey
  BY <1>19 DEF WriteKey, Write, disk, bootVars, programs
<1>20. CASE Discover
  BY <1>20 DEF Discover, Pass, disk, bootVars, programs
<1>21. CASE InstallBinary
  BY <1>21 DEF InstallBinary, disk, bootVars, programs
<1>22. CASE InstallManager
  <2>1. /\ dbname' \in BOOLEAN /\ timer' \in BOOLEAN
        /\ torn' \in BOOLEAN /\ kept' \in BOOLEAN
    BY <1>22, Zenon DEF InstallManager, disk, bootVars, programs
  <2> QED
    BY <1>22, <2>1 DEF InstallManager, disk, bootVars, programs
<1>23. CASE WriteConf
  BY <1>23 DEF WriteConf, Write, disk, bootVars, programs
<1>24. CASE InstallUnits
  BY <1>24 DEF InstallUnits, Write, disk, bootVars, programs
<1>25. CASE EnableTimer
  <2>1. /\ dbname' \in BOOLEAN /\ timer' \in BOOLEAN
        /\ torn' \in BOOLEAN /\ kept' \in BOOLEAN
    BY <1>25, Zenon DEF EnableTimer, disk, bootVars, programs
  <2> QED
    BY <1>25, <2>1 DEF EnableTimer, disk, bootVars, programs
<1>26. CASE RemoveMarker
  BY <1>26 DEF RemoveMarker, disk, bootVars, programs
<1>27. CASE StartUpdate
  BY <1>27 DEF StartUpdate, Pass, disk, bootVars, programs
<1>28. CASE SaveBinary
  BY <1>28 DEF SaveBinary, disk, bootVars, programs
<1>29. CASE SaveManager
  BY <1>29 DEF SaveManager, disk, bootVars, programs
<1>30. CASE SaveFails
  BY <1>30 DEF SaveFails, Pass, disk, bootVars, programs
<1>31. CASE ReplaceBinary
  BY <1>31 DEF ReplaceBinary, Fault, disk, bootVars, programs
<1>32. CASE ReplaceManager
  <2>1. /\ dbname' \in BOOLEAN /\ timer' \in BOOLEAN
        /\ torn' \in BOOLEAN /\ kept' \in BOOLEAN
    BY <1>32, Zenon DEF ReplaceManager, Fault, disk, bootVars, programs
  <2> QED
    BY <1>32, <2>1 DEF ReplaceManager, Fault, disk, bootVars, programs
<1>33. CASE PutBackBinary
  BY <1>33 DEF PutBackBinary, disk, bootVars, programs
<1>34. CASE PutBackManager
  BY <1>34 DEF PutBackManager, disk, bootVars, programs
<1>35. CASE DropCopies
  <2>1. /\ dbname' \in BOOLEAN /\ timer' \in BOOLEAN
        /\ torn' \in BOOLEAN /\ kept' \in BOOLEAN
    BY <1>35, Zenon DEF DropCopies, disk, bootVars, programs
  <2> QED
    BY <1>35, <2>1 DEF DropCopies, disk, bootVars, programs
<1>36. CASE StartUninstall
  BY <1>36 DEF StartUninstall, disk, bootVars, programs
<1>37. CASE DisableTimer
  <2>1. /\ dbname' \in BOOLEAN /\ timer' \in BOOLEAN
        /\ torn' \in BOOLEAN /\ kept' \in BOOLEAN
    BY <1>37, Zenon DEF DisableTimer, Fault, disk, bootVars, programs
  <2> QED
    BY <1>37, <2>1 DEF DisableTimer, Fault, disk, bootVars, programs
<1>38. CASE RemoveFiles
  <2>1. /\ dbname' \in BOOLEAN /\ timer' \in BOOLEAN
        /\ torn' \in BOOLEAN /\ kept' \in BOOLEAN
    BY <1>38, Zenon DEF RemoveFiles, disk, bootVars, programs
  <2> QED
    BY <1>38, <2>1 DEF RemoveFiles, disk, bootVars, programs
<1>39. CASE AnswerKeep
  BY <1>39 DEF AnswerKeep, Pass, disk, bootVars, programs
<1>40. CASE AnswerDelete
  BY <1>40 DEF AnswerDelete, Pass, disk, bootVars, programs
<1>41. CASE RemoveConfig
  <2>1. /\ dbname' \in BOOLEAN /\ timer' \in BOOLEAN
        /\ torn' \in BOOLEAN /\ kept' \in BOOLEAN
    BY <1>41, Zenon DEF RemoveConfig, disk, bootVars, programs
  <2> QED
    BY <1>41, <2>1 DEF RemoveConfig, disk, bootVars, programs
<1>42. CASE RemoveState
  BY <1>42 DEF RemoveState, disk, bootVars, programs
<1>43. CASE Stop
  <2>1. /\ dbname' \in BOOLEAN /\ timer' \in BOOLEAN
        /\ torn' \in BOOLEAN /\ kept' \in BOOLEAN
    BY <1>43, Zenon DEF Stop, Fault, FileLeft, CredentialLeft, ProgramsLeft, Unfinished,
        Removed, Copied, Replacing, disk, bootVars, programs
  <2> QED
    BY <1>43, <2>1 DEF Stop, Fault, FileLeft, CredentialLeft, ProgramsLeft,
        Unfinished, Removed, Copied, Replacing, disk, bootVars, programs
<1>44. CASE DropStranded
  BY <1>44 DEF DropStranded, Stranded, disk, bootVars, programs
<1>45. CASE RemoveSpoiled
  <2>1. /\ dbname' \in BOOLEAN /\ timer' \in BOOLEAN
        /\ torn' \in BOOLEAN /\ kept' \in BOOLEAN
    BY <1>45, Zenon DEF RemoveSpoiled, Spoiled, disk, bootVars, programs
  <2> QED
    BY <1>45, <2>1 DEF RemoveSpoiled, Spoiled, disk, bootVars, programs
<1> QED
  BY <1>1, <1>2, <1>3, <1>4, <1>5, <1>6, <1>7, <1>8, <1>9, <1>10, <1>11,
     <1>12, <1>13, <1>14, <1>15, <1>16, <1>17, <1>18, <1>19, <1>20, <1>21,
     <1>22, <1>23, <1>24, <1>25, <1>26, <1>27, <1>28, <1>29, <1>30, <1>31,
     <1>32, <1>33, <1>34, <1>35, <1>36, <1>37, <1>38, <1>39, <1>40, <1>41,
     <1>42, <1>43, <1>44, <1>45
  DEF Next, Install, Update, Uninstall, Bootstrap, BootstrapDatabase,
      ScriptUnchanged

\* The account and its file: only InitializeDatabase, a deletion and the people
\* who repair them touch them.
LEMMA CredentialKept ==
  ASSUME BootstrapAssumption, InstallationAssumption, InstallationInv, [Next]_vars
  PROVE  (CredentialAtStep /\ CredentialWorks)'
<1> USE BootstrapAssumption, InstallationAssumption
    DEF InstallationInv, CredentialAtStep, CredentialWorks,
        CredentialAccepted, At, GoTo, NoAccount, TypeOK, Created, NoFileYet,
        FileWritten, Bootstrapped
<1>1. CASE UNCHANGED vars
  BY <1>1 DEF vars, disk, bootVars, programs
<1>2. CASE BootStat /\ ScriptUnchanged
  BY <1>2 DEF BootStat, ScriptUnchanged, disk, bootVars, programs
<1>3. CASE BootVerifyExisting /\ ScriptUnchanged
  BY <1>3 DEF BootVerifyExisting, OrFail, Fault, ScriptUnchanged, disk,
      bootVars, programs
<1>4. CASE BootExistingName /\ ScriptUnchanged
  BY <1>4 DEF BootExistingName, OrFail, Fault, ScriptUnchanged, disk,
      bootVars, programs
<1>5. CASE BootCountUser /\ ScriptUnchanged
  BY <1>5 DEF BootCountUser, OrFail, Fault, ScriptUnchanged, disk, bootVars,
      programs
<1>6. CASE BootCreateUser /\ ScriptUnchanged
  BY <1>6 DEF BootCreateUser, Fault, ScriptUnchanged, disk, bootVars,
      programs
<1>7. CASE BootGrant /\ ScriptUnchanged
  BY <1>7 DEF BootGrant, Fault, ScriptUnchanged, disk, bootVars, programs
<1>8. CASE BootWriteCredential /\ ScriptUnchanged
  BY <1>8 DEF BootWriteCredential, OrFail, Fault, ScriptUnchanged, disk,
      bootVars, programs
<1>9. CASE BootVerify /\ ScriptUnchanged
  BY <1>9 DEF BootVerify, OrFail, Fault, ScriptUnchanged, disk, bootVars,
      programs
<1>10. CASE BootName /\ ScriptUnchanged
  BY <1>10 DEF BootName, OrFail, Fault, ScriptUnchanged, disk, bootVars,
      programs
<1>11. CASE BootRemove /\ ScriptUnchanged
  BY <1>11 DEF BootRemove, Fault, ScriptUnchanged, disk, bootVars, programs
<1>12. CASE BootDrop /\ ScriptUnchanged
  BY <1>12 DEF BootDrop, OrFail, Fault, ScriptUnchanged, disk, bootVars,
      programs
<1>13. CASE StartInstall \/ MakeConfigDirs \/ WriteMarker \/
            MakeStateDirs \/ AskSecrets \/ WriteId \/ WriteKey \/ Discover
  BY <1>13 DEF StartInstall, Refused, Pass, MakeConfigDirs, MakeDir,
      WriteMarker, Write, MakeStateDirs, AskSecrets, WriteId, WriteKey,
      Discover, disk, bootVars, programs
<1>14. CASE InstallBinary \/ InstallManager \/ WriteConf \/ InstallUnits \/
            EnableTimer \/ RemoveMarker
  BY <1>14 DEF InstallBinary, InstallManager, WriteConf, Write, InstallUnits,
      EnableTimer, RemoveMarker, disk, bootVars, programs
<1>15. CASE StartUpdate \/ SaveBinary \/ SaveManager \/ SaveFails \/
            ReplaceBinary \/ ReplaceManager \/ PutBackBinary \/
            PutBackManager \/ DropCopies
  BY <1>15 DEF StartUpdate, Pass, SaveBinary, SaveManager, SaveFails,
      ReplaceBinary, Fault, ReplaceManager, PutBackBinary, PutBackManager,
      DropCopies, disk, bootVars, programs
<1>16. CASE StartUninstall \/ DisableTimer \/ RemoveFiles \/ AnswerKeep \/
            AnswerDelete \/ RemoveState
  BY <1>16 DEF StartUninstall, DisableTimer, Fault, RemoveFiles, AnswerKeep,
      Pass, AnswerDelete, RemoveState, disk, bootVars, programs
<1>17. CASE RemoveConfig
  BY <1>17 DEF RemoveConfig, disk, bootVars, programs
<1>18. CASE Stop
  BY <1>18 DEF Stop, Fault, FileLeft, CredentialLeft, ProgramsLeft,
      Unfinished, Removed, Copied, Replacing, disk, bootVars, programs
<1>19. CASE DropStranded
  BY <1>19 DEF DropStranded, Stranded, disk, bootVars, programs
<1>20. CASE RemoveSpoiled
  BY <1>20 DEF RemoveSpoiled, Spoiled, disk, bootVars, programs
<1> QED
  BY <1>1, <1>2, <1>3, <1>4, <1>5, <1>6, <1>7, <1>8, <1>9, <1>10, <1>11,
     <1>12, <1>13, <1>14, <1>15, <1>16, <1>17, <1>18, <1>19, <1>20
  DEF Next, Install, Update, Uninstall, Bootstrap, BootstrapDatabase,
      ScriptUnchanged

\* The files on the disk, and what the units find there.
LEMMA DiskKept ==
  ASSUME BootstrapAssumption, InstallationAssumption, InstallationInv, [Next]_vars
  PROVE  (DiskAtStep /\ UnitsComplete)'
<1> USE BootstrapAssumption, InstallationAssumption
    DEF InstallationInv, DiskAtStep, UnitsComplete, CredentialAtStep,
        CredentialAccepted, At, GoTo, NoAccount, Files, EtcFiles, Secrets,
        FromSecrets, FromDiscover, FromBootstrap, BootSteps, TypeOK, Created,
        NoFileYet, FileWritten, Bootstrapped
<1>1. CASE UNCHANGED vars
  BY <1>1 DEF vars, disk, bootVars, programs
<1>2. CASE BootStat /\ ScriptUnchanged
  BY <1>2 DEF BootStat, ScriptUnchanged, disk, bootVars, programs
<1>3. CASE BootVerifyExisting /\ ScriptUnchanged
  BY <1>3 DEF BootVerifyExisting, OrFail, Fault, ScriptUnchanged, disk,
      bootVars, programs
<1>4. CASE BootExistingName /\ ScriptUnchanged
  BY <1>4 DEF BootExistingName, OrFail, Fault, ScriptUnchanged, disk,
      bootVars, programs
<1>5. CASE BootCountUser /\ ScriptUnchanged
  BY <1>5 DEF BootCountUser, OrFail, Fault, ScriptUnchanged, disk, bootVars,
      programs
<1>6. CASE BootCreateUser /\ ScriptUnchanged
  BY <1>6 DEF BootCreateUser, Fault, ScriptUnchanged, disk, bootVars,
      programs
<1>7. CASE BootGrant /\ ScriptUnchanged
  BY <1>7 DEF BootGrant, Fault, ScriptUnchanged, disk, bootVars, programs
<1>8. CASE BootWriteCredential /\ ScriptUnchanged
  BY <1>8 DEF BootWriteCredential, OrFail, Fault, ScriptUnchanged, disk,
      bootVars, programs
<1>9. CASE BootVerify /\ ScriptUnchanged
  BY <1>9 DEF BootVerify, OrFail, Fault, ScriptUnchanged, disk, bootVars,
      programs
<1>10. CASE BootName /\ ScriptUnchanged
  BY <1>10 DEF BootName, OrFail, Fault, ScriptUnchanged, disk, bootVars,
      programs
<1>11. CASE BootRemove /\ ScriptUnchanged
  BY <1>11 DEF BootRemove, Fault, ScriptUnchanged, disk, bootVars, programs
<1>12. CASE BootDrop /\ ScriptUnchanged
  BY <1>12 DEF BootDrop, OrFail, Fault, ScriptUnchanged, disk, bootVars,
      programs
<1>13. CASE StartInstall
  BY <1>13 DEF StartInstall, Refused, Pass, disk, bootVars, programs
<1>14. CASE MakeConfigDirs
  BY <1>14 DEF MakeConfigDirs, MakeDir, disk, bootVars, programs
<1>15. CASE WriteMarker
  BY <1>15 DEF WriteMarker, Write, disk, bootVars, programs
<1>16. CASE MakeStateDirs
  BY <1>16 DEF MakeStateDirs, MakeDir, disk, bootVars, programs
<1>17. CASE AskSecrets
  BY <1>17 DEF AskSecrets, Pass, disk, bootVars, programs
<1>18. CASE WriteId
  BY <1>18 DEF WriteId, Write, disk, bootVars, programs
<1>19. CASE WriteKey
  BY <1>19 DEF WriteKey, Write, disk, bootVars, programs
<1>20. CASE Discover
  BY <1>20 DEF Discover, Pass, disk, bootVars, programs
<1>21. CASE InstallBinary
  BY <1>21 DEF InstallBinary, disk, bootVars, programs
<1>22. CASE InstallManager
  BY <1>22 DEF InstallManager, disk, bootVars, programs
<1>23. CASE WriteConf
  BY <1>23 DEF WriteConf, Write, disk, bootVars, programs
<1>24. CASE InstallUnits
  <2>1. dirs = {"etc", "var"}
    BY <1>24 DEF InstallUnits, Write
  <2> QED
    BY <1>24, <2>1 DEF InstallUnits, Write, disk, bootVars, programs
<1>25. CASE EnableTimer
  BY <1>25 DEF EnableTimer, disk, bootVars, programs
<1>26. CASE RemoveMarker
  BY <1>26 DEF RemoveMarker, disk, bootVars, programs
<1>27. CASE StartUpdate \/ SaveBinary \/ SaveManager \/ SaveFails \/
            ReplaceBinary \/ ReplaceManager \/ PutBackBinary \/
            PutBackManager \/ DropCopies
  BY <1>27 DEF StartUpdate, Pass, SaveBinary, SaveManager, SaveFails,
      ReplaceBinary, Fault, ReplaceManager, PutBackBinary, PutBackManager,
      DropCopies, disk, bootVars, programs
<1>28. CASE StartUninstall
  BY <1>28 DEF StartUninstall, disk, bootVars, programs
<1>29. CASE DisableTimer
  BY <1>29 DEF DisableTimer, Fault, disk, bootVars, programs
<1>30. CASE RemoveFiles
  BY <1>30 DEF RemoveFiles, disk, bootVars, programs
<1>31. CASE AnswerKeep
  BY <1>31 DEF AnswerKeep, Pass, disk, bootVars, programs
<1>32. CASE AnswerDelete
  BY <1>32 DEF AnswerDelete, Pass, disk, bootVars, programs
<1>33. CASE RemoveConfig
  BY <1>33 DEF RemoveConfig, disk, bootVars, programs
<1>34. CASE RemoveState
  BY <1>34 DEF RemoveState, disk, bootVars, programs
<1>35. CASE Stop
  <2>1. pc' = "idle" /\ account' = account /\ timer' = timer
    BY <1>35 DEF Stop
  <2>2. \A f \in Files : file'[f] \in FileLeft(f)
    BY <1>35 DEF Stop
  <2>3. CASE file["units"] = "none"
    <3>1. file'["units"] = "none" \/ At("units")
      BY <2>2, <2>3 DEF FileLeft
    <3>2. CASE At("units")
      <4>1. dirs = {"etc", "var"}
        BY <3>2
      <4> QED
        BY <1>35, <2>1, <2>2, <3>2, <4>1 DEF Stop, FileLeft, CredentialLeft
    <3> QED BY <2>1, <3>1, <3>2
  <2>4. CASE file["units"] # "none"
    <3>1. /\ ~At("n_etc") /\ ~At("id") /\ ~At("key")
          /\ UNCHANGED <<credential, dbname, dirs>>
      BY <1>35, <2>4 DEF Stop, CredentialLeft
    <3>2. \A f \in Secrets : file'[f] = "whole"
      BY <2>2, <2>4, <3>1 DEF FileLeft
    <3>3. file'["marker"] = file["marker"]
      BY <2>2, <3>1 DEF FileLeft
    <3>4. \/ file'["conf"] = file["conf"]
          \/ file'["conf"] = "cut" /\ At("conf")
      BY <2>2, <3>1 DEF FileLeft
    <3> QED BY <2>1, <2>4, <3>1, <3>2, <3>3, <3>4
  <2> QED BY <2>3, <2>4
<1>36. CASE DropStranded
  BY <1>36 DEF DropStranded, Stranded, disk, bootVars, programs
<1>37. CASE RemoveSpoiled
  BY <1>37 DEF RemoveSpoiled, Spoiled, disk, bootVars, programs
<1> QED
  BY <1>1, <1>2, <1>3, <1>4, <1>5, <1>6, <1>7, <1>8, <1>9, <1>10, <1>11,
     <1>12, <1>13, <1>14, <1>15, <1>16, <1>17, <1>18, <1>19, <1>20, <1>21,
     <1>22, <1>23, <1>24, <1>25, <1>26, <1>27, <1>28, <1>29, <1>30, <1>31,
     <1>32, <1>33, <1>34, <1>35, <1>36, <1>37
  DEF Next, Install, Update, Uninstall, Bootstrap, BootstrapDatabase,
      ScriptUnchanged

\* The two programs are of one release where nothing was cut short.
LEMMA AgreementKept ==
  ASSUME BootstrapAssumption, InstallationAssumption, InstallationInv, [Next]_vars
  PROVE  ProgramsAgree'
<1> USE BootstrapAssumption, InstallationAssumption
    DEF InstallationInv, ProgramsAgree, CopiesAtStep, At, GoTo, Cut
<1>1. CASE UNCHANGED vars
  BY <1>1 DEF vars, disk, bootVars, programs
<1>2. CASE (BootStat \/ BootVerifyExisting \/ BootExistingName \/
            BootCountUser \/ BootCreateUser \/ BootGrant \/
            BootWriteCredential \/ BootVerify \/ BootName \/ BootRemove \/
            BootDrop) /\ ScriptUnchanged
  BY <1>2 DEF BootStat, ScriptUnchanged, BootVerifyExisting, OrFail, Fault,
      BootExistingName, BootCountUser, BootCreateUser, BootGrant,
      BootWriteCredential, BootVerify, BootName, BootRemove, BootDrop, disk,
      bootVars, programs
<1>3. CASE InstallBinary
  BY <1>3 DEF InstallBinary, disk, bootVars, programs
<1>4. CASE InstallManager
  BY <1>4 DEF InstallManager, disk, bootVars, programs
<1>5. CASE StartInstall \/ MakeConfigDirs \/ WriteMarker \/
           MakeStateDirs \/ AskSecrets \/ WriteId \/ WriteKey \/
           Discover \/ WriteConf \/ InstallUnits \/ EnableTimer \/
           RemoveMarker
  BY <1>5 DEF StartInstall, Refused, Pass, MakeConfigDirs, MakeDir,
      WriteMarker, Write, MakeStateDirs, AskSecrets, WriteId, WriteKey,
      Discover, WriteConf, InstallUnits, EnableTimer, RemoveMarker, disk,
      bootVars, programs
<1>6. CASE StartUpdate
  BY <1>6 DEF StartUpdate, Pass, disk, bootVars, programs
<1>7. CASE SaveBinary
  BY <1>7 DEF SaveBinary, disk, bootVars, programs
<1>8. CASE SaveManager
  BY <1>8 DEF SaveManager, disk, bootVars, programs
<1>9. CASE SaveFails
  BY <1>9 DEF SaveFails, Pass, disk, bootVars, programs
<1>10. CASE ReplaceBinary
  BY <1>10 DEF ReplaceBinary, Fault, disk, bootVars, programs
<1>11. CASE ReplaceManager
  BY <1>11 DEF ReplaceManager, Fault, disk, bootVars, programs
<1>12. CASE PutBackBinary
  BY <1>12 DEF PutBackBinary, disk, bootVars, programs
<1>13. CASE PutBackManager
  BY <1>13 DEF PutBackManager, disk, bootVars, programs
<1>14. CASE DropCopies
  BY <1>14 DEF DropCopies, disk, bootVars, programs
<1>15. CASE RemoveFiles
  BY <1>15 DEF RemoveFiles, disk, bootVars, programs
<1>16. CASE StartUninstall \/ DisableTimer \/ AnswerKeep \/ AnswerDelete \/
            RemoveConfig \/ RemoveState
  BY <1>16 DEF StartUninstall, DisableTimer, Fault, AnswerKeep, Pass,
      AnswerDelete, RemoveConfig, RemoveState, disk, bootVars, programs
<1>17. CASE Stop
  BY <1>17 DEF Stop, Fault, FileLeft, CredentialLeft, ProgramsLeft,
      Unfinished, Removed, Copied, Replacing, disk, bootVars, programs
<1>18. CASE DropStranded
  BY <1>18 DEF DropStranded, Stranded, disk, bootVars, programs
<1>19. CASE RemoveSpoiled
  BY <1>19 DEF RemoveSpoiled, Spoiled, disk, bootVars, programs
<1> QED
  BY <1>1, <1>2, <1>3, <1>4, <1>5, <1>6, <1>7, <1>8, <1>9, <1>10, <1>11,
     <1>12, <1>13, <1>14, <1>15, <1>16, <1>17, <1>18, <1>19
  DEF Next, Install, Update, Uninstall, Bootstrap, BootstrapDatabase,
      ScriptUnchanged

\* What an update finds of its copies.
LEMMA CopiesKept ==
  ASSUME BootstrapAssumption, InstallationAssumption, InstallationInv, [Next]_vars
  PROVE  CopiesAtStep'
<1> USE BootstrapAssumption, InstallationAssumption
    DEF InstallationInv, CopiesAtStep, TypeOK, Versions, At, GoTo, Cut
<1>1. CASE UNCHANGED vars
  BY <1>1 DEF vars, disk, bootVars, programs
<1>2. CASE (BootStat \/ BootVerifyExisting \/ BootExistingName \/
            BootCountUser \/ BootCreateUser \/ BootGrant \/
            BootWriteCredential \/ BootVerify \/ BootName \/ BootRemove \/
            BootDrop) /\ ScriptUnchanged
  BY <1>2 DEF BootStat, ScriptUnchanged, BootVerifyExisting, OrFail, Fault,
      BootExistingName, BootCountUser, BootCreateUser, BootGrant,
      BootWriteCredential, BootVerify, BootName, BootRemove, BootDrop, disk,
      bootVars, programs
<1>3. CASE StartInstall \/ MakeConfigDirs \/ WriteMarker \/
           MakeStateDirs \/ AskSecrets \/ WriteId \/ WriteKey \/ Discover
  BY <1>3 DEF StartInstall, Refused, Pass, MakeConfigDirs, MakeDir,
      WriteMarker, Write, MakeStateDirs, AskSecrets, WriteId, WriteKey,
      Discover, disk, bootVars, programs
<1>4. CASE InstallBinary \/ InstallManager \/ WriteConf \/ InstallUnits \/
           EnableTimer \/ RemoveMarker
  BY <1>4 DEF InstallBinary, InstallManager, WriteConf, Write, InstallUnits,
      EnableTimer, RemoveMarker, disk, bootVars, programs
<1>5. CASE StartUpdate
  BY <1>5 DEF StartUpdate, Pass, disk, bootVars, programs
<1>6. CASE SaveBinary
  BY <1>6 DEF SaveBinary, disk, bootVars, programs
<1>7. CASE SaveManager
  BY <1>7 DEF SaveManager, disk, bootVars, programs
<1>8. CASE SaveFails
  BY <1>8 DEF SaveFails, Pass, disk, bootVars, programs
<1>9. CASE ReplaceBinary
  BY <1>9 DEF ReplaceBinary, Fault, disk, bootVars, programs
<1>10. CASE ReplaceManager
  BY <1>10 DEF ReplaceManager, Fault, disk, bootVars, programs
<1>11. CASE PutBackBinary
  BY <1>11 DEF PutBackBinary, disk, bootVars, programs
<1>12. CASE PutBackManager
  BY <1>12 DEF PutBackManager, disk, bootVars, programs
<1>13. CASE DropCopies
  BY <1>13 DEF DropCopies, disk, bootVars, programs
<1>14. CASE StartUninstall \/ DisableTimer \/ RemoveFiles \/ AnswerKeep \/
            AnswerDelete \/ RemoveConfig \/ RemoveState
  BY <1>14 DEF StartUninstall, DisableTimer, Fault, RemoveFiles, AnswerKeep,
      Pass, AnswerDelete, RemoveConfig, RemoveState, disk, bootVars, programs
<1>15. CASE Stop
  BY <1>15 DEF Stop, Fault, FileLeft, CredentialLeft, ProgramsLeft,
      Unfinished, Removed, Copied, Replacing, disk, bootVars, programs
<1>16. CASE DropStranded
  BY <1>16 DEF DropStranded, Stranded, disk, bootVars, programs
<1>17. CASE RemoveSpoiled
  BY <1>17 DEF RemoveSpoiled, Spoiled, disk, bootVars, programs
<1> QED
  BY <1>1, <1>2, <1>3, <1>4, <1>5, <1>6, <1>7, <1>8, <1>9, <1>10, <1>11,
     <1>12, <1>13, <1>14, <1>15, <1>16, <1>17
  DEF Next, Install, Update, Uninstall, Bootstrap, BootstrapDatabase,
      ScriptUnchanged

-----------------------------------------------------------------------------
\* Before the first installation there is nothing.
LEMMA InitHolds ==
  ASSUME BootstrapAssumption, InstallationAssumption, Init
  PROVE  InstallationInv
<1> USE BootstrapAssumption, InstallationAssumption DEF Init
<1>1. TypeOK
  <2>1. /\ dbname \in BOOLEAN /\ timer \in BOOLEAN
        /\ torn \in BOOLEAN /\ kept \in BOOLEAN
    BY Zenon
  <2>2. file \in [Files -> {"none", "cut", "whole"}]
    OBVIOUS
  <2>3. account \in {NoAccount} \cup [password: 1..MaxPasswords, granted: BOOLEAN]
    OBVIOUS
  <2> QED
    BY <2>1, <2>2, <2>3 DEF TypeOK, Steps, Versions
<1>2. CredentialAtStep /\ CredentialWorks
  BY DEF CredentialAtStep, CredentialWorks, At, NoFileYet, FileWritten, Created,
         Bootstrapped
<1>3. DiskAtStep /\ UnitsComplete
  BY DEF DiskAtStep, UnitsComplete, FromSecrets, FromDiscover, FromBootstrap,
         BootSteps, Bootstrapped, Created, Files
<1>4. ProgramsAgree /\ CopiesAtStep
  BY DEF ProgramsAgree, CopiesAtStep, At, Cut
<1> QED BY <1>1, <1>2, <1>3, <1>4 DEF InstallationInv

\* The invariant holds in every reachable state: what each step of the script
\* and of InitializeDatabase finds, wherever earlier scripts were stopped.
THEOREM Inductive == Spec => []InstallationInv
<1>1. Init => InstallationInv
  BY InitHolds, BootstrapAssumption, InstallationAssumption
<1>2. InstallationInv /\ [Next]_vars => InstallationInv'
  <2> SUFFICES ASSUME InstallationInv, [Next]_vars PROVE InstallationInv'
    OBVIOUS
  <2> QED
    BY TypesKept, CredentialKept, DiskKept, AgreementKept, CopiesKept,
       BootstrapAssumption, InstallationAssumption DEF InstallationInv
<1> QED BY <1>1, <1>2, PTL DEF Spec

\* A credential file holds the password of an account that exists and has its
\* privileges, unless an os.Remove has failed (database.go, InitializeDatabase).
THEOREM CredentialAlwaysWorks == Spec => []CredentialWorks
<1>1. InstallationInv => CredentialWorks
  BY DEF InstallationInv
<1> QED BY <1>1, Inductive, PTL

\* The enabled timer finds a complete installation, but for a configuration
\* that an unfinished repetition was writing (install.sh, install_initialize).
THEOREM TimerSafe == Spec => []TimerFindsInstallation
<1>1. InstallationInv => TimerFindsInstallation
  BY DEF InstallationInv, UnitsComplete, TimerFindsInstallation
<1> QED BY <1>1, Inductive, PTL

\* A failed update leaves both programs as they were, or both new, unless it was
\* killed or its undoing failed (install.sh, update_program).
THEOREM UpdateAtomic == Spec => []UpdateAllOrNothing
<1>1. InstallationInv => UpdateAllOrNothing
  BY DEF InstallationInv, ProgramsAgree, UpdateAllOrNothing, At
<1> QED BY <1>1, Inductive, PTL

\* No step of an update loses the last whole copy of a program, unless it
\* saves or puts back one that was cut short before (install.sh, update_program).
THEOREM ProgramsSurvive == Spec => ProgramsNeverLost
<1>1. InstallationInv /\ [Next]_vars =>
        [(pc \in UpdateSteps) => KeepsPrograms]_vars
  <2> SUFFICES ASSUME InstallationInv, Next, pc \in UpdateSteps
               PROVE  KeepsPrograms
    OBVIOUS
  <2> USE DEF InstallationInv, CopiesAtStep, TypeOK, Versions, UpdateSteps,
              KeepsPrograms, Damages, At, GoTo, Cut
  <2>1. CASE SaveBinary
    BY <2>1 DEF SaveBinary
  <2>2. CASE SaveManager
    BY <2>2 DEF SaveManager
  <2>3. CASE ReplaceBinary
    BY <2>3 DEF ReplaceBinary
  <2>4. CASE ReplaceManager
    BY <2>4 DEF ReplaceManager
  <2>5. CASE PutBackBinary
    BY <2>5 DEF PutBackBinary
  <2>6. CASE PutBackManager
    BY <2>6 DEF PutBackManager
  <2>7. CASE DropCopies
    BY <2>7 DEF DropCopies
  <2>8. CASE Stop
    BY <2>8 DEF Stop, ProgramsLeft, Unfinished, Removed, Copied
  <2>9. CASE UNCHANGED programs
    BY <2>9 DEF programs
  <2>10. ~Bootstrap
    BY DEF Bootstrap, BootStat, BootVerifyExisting, BootExistingName,
           BootCountUser, BootCreateUser, BootGrant, BootWriteCredential,
           BootVerify, BootName, BootRemove, BootDrop
  <2>11. UNCHANGED programs \/ SaveBinary \/ SaveManager \/ ReplaceBinary
           \/ ReplaceManager \/ PutBackBinary \/ PutBackManager \/ DropCopies
           \/ Stop
    BY <2>10 DEF Next, Install, Update, Uninstall, BootstrapDatabase,
           StartInstall, MakeConfigDirs, WriteMarker, MakeStateDirs, AskSecrets,
           WriteId, WriteKey, Discover, InstallBinary, InstallManager,
           WriteConf, InstallUnits, EnableTimer, RemoveMarker, StartUpdate,
           SaveFails, StartUninstall, DisableTimer, RemoveFiles, AnswerKeep,
           AnswerDelete, RemoveConfig, RemoveState, DropStranded,
           RemoveSpoiled, MakeDir, Write, Pass
  <2> QED BY <2>1, <2>2, <2>3, <2>4, <2>5, <2>6, <2>7, <2>8, <2>9, <2>11
<1> QED BY <1>1, Inductive, PTL DEF Spec, ProgramsNeverLost

\* Only the attempt that created an account, or the administrator, drops it, and
\* its file only outlives it when it could not be removed (database.go:85,
\* 100-105, 118-122).
THEOREM AccountKept == Spec => AccountNeverReset
<1>1. InstallationInv /\ [Next]_vars =>
        [account # NoAccount /\ account'.password # account.password =>
           /\ account' = NoAccount
           /\ credential = 0 \/ (kept /\ credential = account.password)
           /\ At("idle") \/ account.password = password]_vars
  <2> SUFFICES ASSUME InstallationInv, Next,
                      account # NoAccount, account'.password # account.password
               PROVE  /\ account' = NoAccount
                      /\ credential = 0 \/ (kept /\ credential = account.password)
                      /\ At("idle") \/ account.password = password
    BY DEF vars, bootVars
  <2>1. CredentialAtStep
    BY DEF InstallationInv
  <2>2. CASE BootDrop
    BY <2>1, <2>2 DEF BootDrop, OrFail, At, CredentialAtStep, bootVars
  <2>3. CASE DropStranded
    BY <2>3 DEF DropStranded, Stranded
  <2>4. CASE BootCreateUser
    BY <2>1, <2>4 DEF BootCreateUser, At, CredentialAtStep
  <2>5. CASE BootGrant
    BY <2>1, <2>5 DEF BootGrant, At, CredentialAtStep
  <2>6. \/ account' = account
        \/ BootDrop \/ DropStranded \/ BootCreateUser \/ BootGrant
    BY DEF Next, Install, Update, Uninstall, BootstrapDatabase, Bootstrap,
           BootStat, BootVerifyExisting, BootExistingName, BootCountUser,
           BootWriteCredential, BootVerify, BootName, BootRemove, OrFail,
           StartInstall, MakeConfigDirs, WriteMarker, MakeStateDirs, AskSecrets,
           WriteId, WriteKey, MakeDir, Write, Pass, Discover, InstallBinary,
           InstallManager, WriteConf, InstallUnits, EnableTimer, RemoveMarker,
           StartUpdate, SaveBinary, SaveManager, SaveFails, ReplaceBinary,
           ReplaceManager, PutBackBinary, PutBackManager, DropCopies,
           StartUninstall, DisableTimer, RemoveFiles, AnswerKeep, AnswerDelete,
           RemoveConfig, RemoveState, RemoveSpoiled, Stop, bootVars
  <2> QED BY <2>2, <2>3, <2>4, <2>5, <2>6
<1> QED BY <1>1, Inductive, PTL DEF Spec, AccountNeverReset
=============================================================================
