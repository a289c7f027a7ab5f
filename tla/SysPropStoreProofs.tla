-------------------------- MODULE SysPropStoreProofs --------------------------
(***************************************************************************)
(* SysPropStore for any keys and values, any number of changes, restarts   *)
(* and losses of power, and any of the faults.                             *)
(***************************************************************************)
EXTENDS SysPropStore, TLAPS

-----------------------------------------------------------------------------
(* Types.                                                                  *)

\* What is written to a file is a file.
LEMMA FileTypes ==
    /\ NoProps \in Props /\ Absent \in FileOf
    /\ \A p \in Props : Whole(p) \in FileOf /\ Torn(p) \in FileOf
BY DEF NoProps, Props, Absent, FileOf, Whole, Torn

\* A file is its state and its content.
LEMMA FileParts ==
    /\ \A f \in FileOf : f.props \in Props /\ (f.state = "whole" => f = Whole(f.props))
    /\ \A p \in Props : /\ Whole(p).state = "whole" /\ Whole(p).props = p
                        /\ Torn(p).state = "torn" /\ Torn(p).props = p
    /\ Absent.state = "absent"
BY DEF FileOf, Whole, Torn, Absent

\* A write changes one file.
LEMMA WriteType ==
    ASSUME page \in [FileNames -> FileOf], NEW f \in FileNames, NEW c \in FileOf, Write(f, c)
    PROVE  /\ page' \in [FileNames -> FileOf]
           /\ page'[f] = c
           /\ \A g \in FileNames \ {f} : page'[g] = page[g]
BY DEF Write

\* The names of the files.
LEMMA TwoFiles ==
    DataFile \in FileNames /\ BackupFile \in FileNames /\ DataFile # BackupFile
BY DEF DataFile, BackupFile, FileNames

\* What Save writes of the map is a content.
LEMMA PersistentPartType ==
    ASSUME m_SysPropKeyValMap \in Props
    PROVE  PersistentPart \in Props
BY DEF PersistentPart, Props

\* A Load of a whole file finds its content, and the map it leaves has the right types.
LEMMA LoadType ==
    ASSUME page \in [FileNames -> FileOf], NEW f \in FileNames
    PROVE  /\ LoadedFrom(f) \subseteq Props
           /\ page[f].state = "whole" => LoadedFrom(f) = {page[f].props}
<1>1. page[f] \in FileOf
    OBVIOUS
<1>2. page[f].props \in Props
    BY <1>1, FileParts
<1>3. page[f].state = "whole" => page[f].state # "torn" /\ page[f].state # "absent"
    OBVIOUS
<1>4. QED
    BY <1>2, <1>3 DEF LoadedFrom

\* The service's state keeps its types in every step.
LEMMA TypeStep ==
    ASSUME TypeOK, [Next]_vars
    PROVE  TypeOK'
<1> USE TwoFiles DEF mapVars, fileVars, historyVars
<1>a. /\ m_SysPropKeyValMap \in Props /\ persistent \subseteq Keys
      /\ m_TimerId_SaveSysPropData \in {"off", "armed", "due"} /\ phase \in Phases
      /\ page \in [FileNames -> FileOf] /\ disk \in [FileNames -> FileOf]
      /\ stored \in Props /\ atBoot \in Props \cup {Never} /\ durable \in Props \cup {Never}
      /\ saveFailed \in BOOLEAN
    BY DEF TypeOK
<1>b. PersistentPart \in Props /\ page[DataFile].props \in Props /\ page[BackupFile].props \in Props
    BY <1>a, PersistentPartType, FileParts
<1>c. ASSUME NEW f \in FileNames, NEW c \in FileOf, Write(f, c) PROVE page' \in [FileNames -> FileOf]
    BY <1>a, <1>c, WriteType
<1>1. CASE LoadDataFile \/ LoadBackupFile
    <2>1. PICK p \in Props : SetMap(p)
        BY <1>1, <1>a, LoadType DEF LoadDataFile, LoadBackupFile
    <2>2. m_SysPropKeyValMap' \in Props /\ persistent' \subseteq Keys /\ stored' \in Props
        BY <2>1 DEF SetMap
    <2>3. QED
        BY <1>1, <1>a, <2>2 DEF LoadDataFile, LoadBackupFile, TypeOK, Phases
<1>2. CASE CpBackup \/ CpRecovery
    <2>1. Torn(page[DataFile].props) \in FileOf /\ Torn(page[BackupFile].props) \in FileOf
        BY <1>b, FileTypes
    <2>2. page' \in [FileNames -> FileOf]
        BY <1>2, <1>c, <2>1 DEF CpBackup, CpRecovery
    <2>3. QED
        BY <1>2, <1>a, <2>2 DEF CpBackup, CpRecovery, TypeOK, Phases
<1>3. CASE CpBackupDone \/ CpRecoveryEnds
    <2>1. Whole(page[DataFile].props) \in FileOf /\ Whole(page[BackupFile].props) \in FileOf
        BY <1>b, FileTypes
    <2>2. page' \in [FileNames -> FileOf]
        BY <1>3, <1>a, <1>c, <2>1 DEF CpBackupDone, CpRecoveryEnds
    <2>3. QED
        BY <1>3, <1>a, <2>2 DEF CpBackupDone, CpRecoveryEnds, TypeOK, Phases
<1>4. CASE CpBackupFails
    <2>1. Absent \in FileOf /\ page[BackupFile] \in FileOf
        BY <1>a, FileTypes
    <2>2. page' \in [FileNames -> FileOf]
        BY <1>4, <1>c, <2>1 DEF CpBackupFails
    <2>3. QED
        BY <1>4, <1>a, <2>2 DEF CpBackupFails, TypeOK, Phases
<1>5. ASSUME NEW k \in Keys, NEW v \in Values, NEW b \in BOOLEAN, SysProp_Set(k, v, b)
      PROVE  TypeOK'
    <2>1. m_SysPropKeyValMap' \in Props
        BY <1>5, <1>a DEF SysProp_Set, Props
    <2>2. QED
        BY <1>5, <1>a, <2>1 DEF SysProp_Set, TypeOK
<1>6. ASSUME NEW k \in Keys, SysProp_Del(k)
      PROVE  TypeOK'
    <2>1. m_SysPropKeyValMap' \in Props
        BY <1>6, <1>a DEF SysProp_Del, Props
    <2>2. QED
        BY <1>6, <1>a, <2>1 DEF SysProp_Del, TypeOK
<1>7. CASE SecondPasses \/ SaveFails \/ SaveCloseFails
    BY <1>7, <1>a, <1>b DEF SecondPasses, SaveFails, SaveCloseFails, TypeOK, Phases
<1>8. CASE OnTimer
    <2>1. Torn(PersistentPart) \in FileOf
        BY <1>b, FileTypes
    <2>2. page' \in [FileNames -> FileOf]
        BY <1>8, <1>a, <1>c, <2>1 DEF OnTimer
    <2>3. QED
        BY <1>8, <1>a, <2>2 DEF OnTimer, TypeOK, Phases
<1>9. CASE SaveWrites
    <2>1. Whole(PersistentPart) \in FileOf
        BY <1>b, FileTypes
    <2>2. page' \in [FileNames -> FileOf]
        BY <1>9, <1>c, <2>1 DEF SaveWrites
    <2>3. QED
        BY <1>9, <1>a, <1>b, <2>2 DEF SaveWrites, TypeOK, Phases
<1>10. CASE Sync
    BY <1>10, <1>a DEF Sync, TypeOK, Phases
<1>11. CASE ExitInstance \/ Kill
    BY <1>11, <1>a, FileTypes DEF ExitInstance, Kill, Stop, TypeOK, Phases
<1>12. CASE PowerLoss
    <2>1. page' \in [FileNames -> FileOf] /\ disk' \in [FileNames -> FileOf]
        BY <1>12 DEF PowerLoss
    <2>2. QED
        BY <1>12, <1>a, <2>1, FileTypes DEF PowerLoss, Stop, TypeOK, Phases
<1>13. ASSUME NEW f \in FileNames, WriteBack(f) PROVE TypeOK'
    BY <1>13, <1>a DEF WriteBack, TypeOK
<1>14. CASE UNCHANGED vars
    BY <1>14, <1>a DEF vars, TypeOK
<1>15. QED
    BY <1>1, <1>2, <1>3, <1>4, <1>5, <1>6, <1>7, <1>8, <1>9, <1>10, <1>11, <1>12, <1>13, <1>14 DEF Next

\* A new device is well typed.
LEMMA InitType == Init => TypeOK
<1> SUFFICES ASSUME Init PROVE TypeOK
    OBVIOUS
<1>1. page \in [FileNames -> FileOf]
    BY FileTypes DEF Init
<1>2. QED
    BY <1>1, FileTypes DEF Init, TypeOK, Phases

\* The map, the files and what is remembered of them keep their types, whatever fails.
THEOREM TypeCorrect == Spec => []TypeOK
BY InitType, TypeStep, PTL DEF Spec

-----------------------------------------------------------------------------
(* What a restart finds.                                                   *)

\* What the files hold in each phase, besides what RestartFindsSavedOrBoot and RestartFindsSaved
\* say of a restart: cp and Save work on files that are known.
FilesOfThePhase ==
    /\ phase \in {"backup", "cpBackup"} => page[DataFile] = Whole(stored)
    /\ phase \in {"recovery", "cpRecovery"} =>
           page[BackupFile] = Whole(stored) /\ page[DataFile].state # "whole"
    /\ phase = "saving" => page[DataFile].state = "torn"
    /\ phase = "sync" /\ ~saveFailed => page[DataFile] = Whole(stored)

\* Once a backup was made one of the two files is whole at any moment, and it is what
\* was saved or what that start found.
OneFileIsWhole ==
    atBoot # Never =>
        /\ \/ page[BackupFile] = Whole(atBoot)
           \/ page[DataFile] = Whole(stored) /\ phase \in {"down", "backup", "cpBackup"}
        /\ page[DataFile].state = "whole" => page[DataFile].props = stored
        /\ phase \in {"idle", "sync"} /\ ~saveFailed =>
               page[DataFile].state = "whole" \/ page[BackupFile] = Whole(stored)

\* From the end of the start on, but for the time of a Save, what is not scheduled is saved.
SavedOrScheduled ==
    phase \notin {"down", "saving"} /\ m_TimerId_SaveSysPropData = "off" /\ ~saveFailed =>
        \A k \in Keys :
            k \in persistent \/ m_SysPropKeyValMap[k] = NoValue => stored[k] = m_SysPropKeyValMap[k]

\* What is durable is in the data file, there and on the medium; a Save and a recovery, which
\* rewrite it, begin with nothing durable.
DurableIsInBoth ==
    /\ durable # Never => page[DataFile] = Whole(durable) /\ disk[DataFile] = Whole(durable)
    /\ phase \in {"recovery", "cpRecovery", "saving", "sync"} => durable = Never

FileInv == FilesOfThePhase /\ OneFileIsWhole /\ DurableIsInBoth

\* A step that leaves the files and their history alone, and the phase or goes down, disturbs
\* nothing.
LEMMA FilesAlone ==
    ASSUME FileInv, UNCHANGED <<page, disk, stored, atBoot, durable>>,
           \/ UNCHANGED <<phase, saveFailed>>
           \/ phase' = "down"
    PROVE  FileInv'
BY DEF FileInv, FilesOfThePhase, OneFileIsWhole, DurableIsInBoth

\* Whatever step of a start, of a Save or of a failure comes next, the files stay what the
\* phase says.
LEMMA FilesStep ==
    ASSUME TypeOK, FileInv, [Next]_vars
    PROVE  FileInv'
<1> USE TwoFiles DEF mapVars, fileVars, historyVars, FilesOfThePhase, OneFileIsWhole, DurableIsInBoth
<1>a. /\ page \in [FileNames -> FileOf] /\ disk \in [FileNames -> FileOf]
      /\ stored \in Props /\ atBoot \in Props \cup {Never} /\ durable \in Props \cup {Never}
      /\ m_SysPropKeyValMap \in Props
    BY DEF TypeOK
<1>b. /\ page[DataFile] \in FileOf /\ page[BackupFile] \in FileOf
      /\ page[DataFile].props \in Props /\ page[BackupFile].props \in Props
      /\ page[DataFile].state = "whole" => page[DataFile] = Whole(page[DataFile].props)
      /\ page[BackupFile].state = "whole" => page[BackupFile] = Whole(page[BackupFile].props)
    BY <1>a, FileParts
<1>c. FilesOfThePhase /\ OneFileIsWhole /\ DurableIsInBoth
    BY DEF FileInv
<1>d. \A p \in Props : /\ Whole(p).state = "whole" /\ Whole(p).props = p
                       /\ Torn(p).state = "torn" /\ Torn(p).props = p
    BY FileParts
<1>1. CASE LoadDataFile
    <2>1. stored' = page[DataFile].props
        BY <1>1, <1>a, LoadType DEF LoadDataFile, SetMap
    <2>2. /\ page[DataFile].state = "whole" /\ phase' = "backup" /\ phase = "down"
          /\ UNCHANGED <<page, disk, atBoot, durable>>
        BY <1>1 DEF LoadDataFile
    <2>3. QED
        BY <1>b, <1>c, <2>1, <2>2 DEF FileInv
<1>2. CASE LoadBackupFile
    <2>1. page[BackupFile].state = "whole" => stored' = page[BackupFile].props
        BY <1>2, <1>a, LoadType DEF LoadBackupFile, SetMap
    <2>2. /\ page[DataFile].state # "whole" /\ phase = "down"
          /\ phase' = IF page[BackupFile].state = "whole" THEN "recovery" ELSE "idle"
          /\ UNCHANGED <<page, disk, atBoot, durable>>
        BY <1>2 DEF LoadBackupFile
    <2>3. durable = Never
        BY <1>a, <1>c, <1>d, <2>2
    <2>4. atBoot # Never => page[BackupFile] = Whole(atBoot)
        BY <1>a, <1>c, <1>d, <2>2
    <2>5. atBoot # Never => page[BackupFile].state = "whole"
        BY <1>a, <1>d, <2>4
    <2>6. QED
        BY <1>b, <1>c, <2>1, <2>2, <2>3, <2>4, <2>5 DEF FileInv
<1>3. CASE CpBackup
    <2>1. /\ phase = "backup" /\ phase' = "cpBackup"
          /\ UNCHANGED <<disk, stored, atBoot, durable, saveFailed>>
          /\ page'[DataFile] = page[DataFile]
        BY <1>3, <1>a DEF CpBackup, Write
    <2>2. QED
        BY <1>a, <1>c, <1>d, <2>1 DEF FileInv
<1>4. CASE CpBackupDone
    <2>1. /\ phase = "cpBackup" /\ phase' = "idle" /\ atBoot' = stored
          /\ UNCHANGED <<disk, stored, durable, saveFailed>>
          /\ page'[DataFile] = page[DataFile] /\ page'[BackupFile] = Whole(page[DataFile].props)
        BY <1>4, <1>a DEF CpBackupDone, Write
    <2>2. QED
        BY <1>a, <1>c, <1>d, <2>1 DEF FileInv
<1>5. CASE CpBackupFails
    <2>1. /\ phase = "cpBackup" /\ phase' = "idle" /\ atBoot' = Never
          /\ UNCHANGED <<disk, stored, durable, saveFailed>>
          /\ page'[DataFile] = page[DataFile]
        BY <1>5, <1>a DEF CpBackupFails, Write
    <2>2. QED
        BY <1>a, <1>c, <2>1 DEF FileInv
<1>6. CASE CpRecovery
    <2>1. /\ phase = "recovery" /\ phase' = "cpRecovery" /\ atBoot' = stored
          /\ UNCHANGED <<disk, stored, durable, saveFailed>>
          /\ page'[BackupFile] = page[BackupFile]
          /\ page'[DataFile] = Torn(page[BackupFile].props)
        BY <1>6, <1>a DEF CpRecovery, Write
    <2>2. page'[DataFile].state = "torn"
        BY <1>b, <1>d, <2>1
    <2>3. QED
        BY <1>c, <2>1, <2>2 DEF FileInv
<1>7. CASE CpRecoveryEnds
    <2>1. /\ phase = "cpRecovery" /\ phase' = "idle"
          /\ UNCHANGED <<disk, stored, atBoot, durable, saveFailed>>
          /\ page'[BackupFile] = page[BackupFile]
          /\ \/ page'[DataFile] = Whole(page[BackupFile].props)
             \/ page'[DataFile] = page[DataFile]
        BY <1>7, <1>a DEF CpRecoveryEnds, Write
    <2>2. page[BackupFile].props = stored /\ durable = Never /\ page[DataFile].state # "whole"
        BY <1>a, <1>c, <1>d, <2>1
    <2>3. page'[DataFile].state = "whole" => page'[DataFile].props = stored
        BY <1>a, <1>d, <2>1, <2>2
    <2>4. atBoot # Never => page'[BackupFile] = Whole(atBoot)
        BY <1>c, <2>1
    <2>5. QED
        BY <1>c, <2>1, <2>2, <2>3, <2>4 DEF FileInv
<1>8. CASE SecondPasses \/ (\E k \in Keys, v \in Values, b \in BOOLEAN : SysProp_Set(k, v, b))
           \/ (\E k \in Keys : SysProp_Del(k))
    BY <1>8, FilesAlone DEF SecondPasses, SysProp_Set, SysProp_Del
<1>9. CASE OnTimer
    <2>1. CASE phase' = "saving"
        <3>1. /\ phase = "idle" /\ durable' = Never /\ UNCHANGED <<disk, stored, atBoot, saveFailed>>
              /\ page'[BackupFile] = page[BackupFile] /\ page'[DataFile] = Torn(PersistentPart)
            BY <1>9, <1>a, <2>1 DEF OnTimer, Write
        <3>2. page'[DataFile].state = "torn"
            BY <1>a, <1>d, <3>1, PersistentPartType
        <3>3. QED
            BY <1>c, <2>1, <3>1, <3>2 DEF FileInv
    <2>2. CASE phase' # "saving"
        <3>1. /\ phase = "idle" /\ phase' = "idle" /\ saveFailed' = TRUE
              /\ UNCHANGED <<page, disk, stored, atBoot, durable>>
            BY <1>9, <2>2 DEF OnTimer
        <3>2. QED
            BY <1>c, <3>1 DEF FileInv
    <2>3. QED
        BY <2>1, <2>2
<1>10. CASE SaveWrites
    <2>1. /\ phase = "saving" /\ phase' = "sync" /\ stored' = PersistentPart
          /\ UNCHANGED <<disk, atBoot, durable>>
          /\ page'[BackupFile] = page[BackupFile] /\ page'[DataFile] = Whole(PersistentPart)
        BY <1>10, <1>a DEF SaveWrites, Write
    <2>2. page'[DataFile].state = "whole" /\ page'[DataFile].props = stored'
        BY <1>a, <1>d, <2>1, PersistentPartType
    <2>3. QED
        BY <1>c, <2>1, <2>2 DEF FileInv
<1>11. CASE SaveFails \/ SaveCloseFails
    <2>1. /\ phase = "saving" /\ phase' \in {"idle", "sync"} /\ saveFailed' = TRUE
          /\ UNCHANGED <<page, disk, atBoot, durable>>
        BY <1>11 DEF SaveFails, SaveCloseFails
    <2>2. QED
        BY <1>c, <2>1 DEF FileInv
<1>12. CASE Sync
    <2>1. /\ phase = "sync" /\ phase' = "idle" /\ disk' = page
          /\ durable' = IF saveFailed THEN durable ELSE stored
          /\ UNCHANGED <<page, stored, atBoot, saveFailed>>
        BY <1>12 DEF Sync
    <2>2. QED
        BY <1>c, <2>1 DEF FileInv
<1>13. CASE ExitInstance \/ Kill
    BY <1>13, FilesAlone DEF ExitInstance, Kill, Stop
<1>14. CASE PowerLoss
    <2>1. /\ phase' = "down" /\ atBoot' = Never /\ durable' = durable
          /\ page'[DataFile] = disk'[DataFile]
          /\ page[DataFile] = disk[DataFile] => page'[DataFile] = page[DataFile]
        BY <1>14 DEF PowerLoss, Stop
    <2>2. QED
        BY <1>c, <2>1 DEF FileInv
<1>15. ASSUME NEW f \in FileNames, WriteBack(f)
       PROVE  FileInv'
    <2>1. disk'[DataFile] \in {disk[DataFile], page[DataFile]}
        BY <1>15, <1>a DEF WriteBack
    <2>2. UNCHANGED <<phase, page, stored, atBoot, durable, saveFailed>>
        BY <1>15 DEF WriteBack
    <2>3. QED
        BY <1>c, <2>1, <2>2 DEF FileInv
<1>16. CASE UNCHANGED vars
    BY <1>16, FilesAlone DEF vars
<1>17. QED
    BY <1>1, <1>2, <1>3, <1>4, <1>5, <1>6, <1>7, <1>8, <1>9, <1>10, <1>11, <1>12, <1>13, <1>14, <1>15, <1>16
       DEF Next

\* A new device has no history.
LEMMA FilesInit == Init => FileInv
BY DEF Init, FileInv, FilesOfThePhase, OneFileIsWhole, DurableIsInBoth

\* The files are what the phase says, always.
LEMMA FilesAreRight == Spec => []FileInv
BY FilesInit, FilesStep, TypeCorrect, PTL DEF Spec

\* A restart at any moment, also in the middle of a Save or of cp, finds what was saved last or
\* what the last start found, once that start has a backup.
THEOREM RestartsFindSavedOrBoot == Spec => []RestartFindsSavedOrBoot
<1>1. ASSUME TypeOK, FileInv, atBoot # Never
      PROVE  AfterRestart \subseteq {stored, atBoot}
    <2>1. atBoot \in Props
        BY <1>1 DEF TypeOK
    <2>2. page \in [FileNames -> FileOf]
        BY <1>1 DEF TypeOK
    <2>3. CASE page[DataFile].state = "whole"
        BY <1>1, <2>2, <2>3, LoadType, TwoFiles DEF AfterRestart, FileInv, OneFileIsWhole
    <2>4. CASE page[DataFile].state # "whole"
        <3>1. page[BackupFile] = Whole(atBoot)
            BY <1>1, <2>4, FileParts DEF FileInv, OneFileIsWhole, TypeOK
        <3>2. page[BackupFile].state = "whole" /\ page[BackupFile].props = atBoot
            BY <2>1, <3>1, FileParts
        <3>3. QED
            BY <2>2, <2>4, <3>2, LoadType, TwoFiles DEF AfterRestart
    <2>5. QED
        BY <2>3, <2>4
<1>2. TypeOK /\ FileInv => RestartFindsSavedOrBoot
    BY <1>1 DEF RestartFindsSavedOrBoot
<1>3. QED
    BY <1>2, TypeCorrect, FilesAreRight, PTL

\* While no Save is under way and the last did not fail, it finds exactly what was saved last.
THEOREM RestartsFindSaved == Spec => []RestartFindsSaved
<1>1. ASSUME TypeOK, FileInv, atBoot # Never, phase \in {"backup", "idle", "sync"}, ~saveFailed
      PROVE  AfterRestart = {stored}
    <2>1. stored \in Props /\ page \in [FileNames -> FileOf]
        BY <1>1 DEF TypeOK
    <2>2. Whole(stored).state = "whole" /\ Whole(stored).props = stored
        BY <2>1, FileParts
    <2>3. CASE page[DataFile].state = "whole"
        BY <1>1, <2>1, <2>3, LoadType, TwoFiles DEF AfterRestart, FileInv, OneFileIsWhole
    <2>4. CASE page[DataFile].state # "whole"
        <3>1. page[BackupFile] = Whole(stored)
            BY <1>1, <2>2, <2>4 DEF FileInv, OneFileIsWhole, FilesOfThePhase
        <3>2. QED
            BY <2>1, <2>2, <2>4, <3>1, LoadType, TwoFiles DEF AfterRestart
    <2>5. QED
        BY <2>3, <2>4
<1>2. TypeOK /\ FileInv => RestartFindsSaved
    BY <1>1 DEF RestartFindsSaved
<1>3. QED
    BY <1>2, TypeCorrect, FilesAreRight, PTL

\* What was saved and synced survives any number of losses of power, until the next Save.
THEOREM SavedSurvives == Spec => []SavedSurvivesPowerLoss
<1>1. FileInv => SavedSurvivesPowerLoss
    BY DEF FileInv, DurableIsInBoth, SavedSurvivesPowerLoss
<1>2. QED
    BY <1>1, FilesAreRight, PTL

-----------------------------------------------------------------------------
(* Every change is saved or scheduled.                                     *)

\* Every step keeps the map and what is saved together, or the timer on.
LEMMA ScheduledStep ==
    ASSUME TypeOK, SavedOrScheduled, [Next]_vars
    PROVE  SavedOrScheduled'
<1> USE DEF mapVars, fileVars, historyVars, SavedOrScheduled
<1>1. CASE LoadDataFile \/ LoadBackupFile
    <2>1. stored' = m_SysPropKeyValMap'
        BY <1>1 DEF LoadDataFile, LoadBackupFile, SetMap
    <2>2. QED
        BY <2>1
<1>2. CASE CpBackup \/ CpBackupDone \/ CpBackupFails \/ CpRecovery \/ CpRecoveryEnds
    BY <1>2 DEF CpBackup, CpBackupDone, CpBackupFails, CpRecovery, CpRecoveryEnds
<1>3. ASSUME NEW k \in Keys, NEW v \in Values, NEW b \in BOOLEAN, SysProp_Set(k, v, b)
      PROVE  SavedOrScheduled'
    <2>1. CASE b
        BY <1>3, <2>1 DEF SysProp_Set
    <2>2. CASE ~b
        <3>1. /\ m_SysPropKeyValMap' = [m_SysPropKeyValMap EXCEPT ![k] = v]
              /\ persistent' = persistent \ {k}
              /\ UNCHANGED <<m_TimerId_SaveSysPropData, phase, stored, saveFailed>>
              /\ phase = "idle"
            BY <1>3, <2>2 DEF SysProp_Set
        <3>2. v # NoValue /\ m_SysPropKeyValMap \in [Keys -> Values \cup {NoValue}]
            BY ConstantsAssumption DEF TypeOK, Props
        <3>3. QED
            BY <3>1, <3>2
    <2>3. QED
        BY <2>1, <2>2
<1>4. ASSUME NEW k \in Keys, SysProp_Del(k)
      PROVE  SavedOrScheduled'
    BY <1>4 DEF SysProp_Del
<1>5. CASE SecondPasses
    BY <1>5 DEF SecondPasses
<1>6. CASE OnTimer
    BY <1>6 DEF OnTimer
<1>7. CASE SaveWrites
    <2>1. stored' = PersistentPart /\ UNCHANGED <<m_SysPropKeyValMap, persistent>>
        BY <1>7 DEF SaveWrites
    <2>2. QED
        BY <2>1 DEF PersistentPart
<1>8. CASE SaveFails \/ SaveCloseFails
    BY <1>8 DEF SaveFails, SaveCloseFails
<1>9. CASE Sync
    BY <1>9 DEF Sync
<1>10. CASE ExitInstance \/ Kill \/ PowerLoss
    BY <1>10 DEF ExitInstance, Kill, PowerLoss, Stop
<1>11. ASSUME NEW f \in FileNames, WriteBack(f)
       PROVE  SavedOrScheduled'
    BY <1>11 DEF WriteBack
<1>12. CASE UNCHANGED vars
    BY <1>12 DEF vars
<1>13. QED
    BY <1>1, <1>2, <1>3, <1>4, <1>5, <1>6, <1>7, <1>8, <1>9, <1>10, <1>11, <1>12 DEF Next

\* Every change of a persistent property is saved or scheduled to be, unless the last Save failed.
THEOREM UnsavedAreScheduled == Spec => []UnsavedIsScheduled
<1>1. Init => SavedOrScheduled
    BY DEF Init, SavedOrScheduled
<1>2. SavedOrScheduled => UnsavedIsScheduled
    BY DEF SavedOrScheduled, UnsavedIsScheduled
<1>3. QED
    BY <1>1, <1>2, ScheduledStep, TypeCorrect, PTL DEF Spec

=============================================================================
