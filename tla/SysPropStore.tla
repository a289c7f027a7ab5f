----------------------------- MODULE SysPropStore -----------------------------
(***************************************************************************)
(* The system property service: the event loop of CSysBaseSrvApp           *)
(* (SysBaseSrv/SysBaseSrv.cpp) over the key-value map of CSysPropOps       *)
(* (SysBaseSrv/SysPropOps.cpp) and its two data files.                     *)
(*                                                                         *)
(* The map is saved one second after the last persistent change, in place. *)
(* The backup file is written only when the service starts and finds the   *)
(* data file whole; it is what a start falls back to.                      *)
(*                                                                         *)
(* A file is what the kernel would return now (page) and what the medium   *)
(* holds (disk).  A file is absent, whole, or torn: truncated, or written  *)
(* in part, which Load detects by a short read or by the checksum.         *)
(***************************************************************************)
EXTENDS FiniteSets

CONSTANTS
    Keys,
    Values,
    NoValue,
    Never,   \* in place of a content: there is none yet
    Faults   \* which of the failures below can happen

Props == [Keys -> Values \cup {NoValue}]
NoProps == [k \in Keys |-> NoValue]

ASSUME ConstantsAssumption ==
    /\ NoValue \notin Values
    /\ Never \notin Props
    /\ Faults \subseteq {"stop", "kill", "powerLoss", "writeFails", "closeFails", "cpFails"}

FileNames == {"SYS_PROP_DATA_FILE", "SYS_PROP_DATA_BACKUP_FILE"}
DataFile == "SYS_PROP_DATA_FILE"
BackupFile == "SYS_PROP_DATA_BACKUP_FILE"

FileOf == [state : {"absent", "torn", "whole"}, props : Props]
Absent == [state |-> "absent", props |-> NoProps]
Whole(p) == [state |-> "whole", props |-> p]
Torn(p) == [state |-> "torn", props |-> p]  \* of a file that was to hold p

VARIABLES
    m_SysPropKeyValMap,         \* the value of every key, NoValue if it is not in the map
    persistent,                 \* keys whose value has m_bPersistent
    m_TimerId_SaveSysPropData,  \* "off", "armed", or "due": a second has passed
    phase,                      \* what the service is doing
    page, disk,                 \* the files: as the kernel has them, and on the medium
    stored,                     \* content the last Load found or the last Save reported saved
    atBoot,                     \* content of the backup made, or used, at the last start after
                                \* the last loss of power
    durable,                    \* content of the last Save and sync, until the next Save begins
    saveFailed                  \* the last Save of this run failed, whether it reported that or not

mapVars == <<m_SysPropKeyValMap, persistent>>
fileVars == <<page, disk>>
historyVars == <<stored, atBoot, durable, saveFailed>>
vars == <<mapVars, m_TimerId_SaveSysPropData, phase, fileVars, historyVars>>

Phases == {"down", "backup", "cpBackup", "recovery", "cpRecovery", "idle", "saving", "sync"}

\* A new device has no file; an upgrade restores the data file alone.
Init ==
    /\ m_SysPropKeyValMap = NoProps
    /\ persistent = {}
    /\ m_TimerId_SaveSysPropData = "off"
    /\ phase = "down"
    /\ \E p \in Props : page = [f \in FileNames |-> IF f = DataFile /\ p # NoProps
                                                    THEN Whole(p) ELSE Absent]
    /\ disk = page
    /\ stored = NoProps
    /\ atBoot = Never
    /\ durable = Never
    /\ saveFailed = FALSE

Write(f, content) == page' = [page EXCEPT ![f] = content]

\* The pairs of p that Save writes.
PersistentPart ==
    [k \in Keys |-> IF k \in persistent THEN m_SysPropKeyValMap[k] ELSE NoValue]

-----------------------------------------------------------------------------
(* Start: CSysPropOps::Load.                                               *)

\* Load(path) starts from an empty map and puts every pair it reads into it, as
\* persistent, before it compares the checksum: reading a torn file leaves some pairs.
LoadedFrom(f) ==
    {p \in Props :
        /\ page[f].state = "whole" => p = page[f].props
        /\ page[f].state = "torn" => \A k \in Keys : p[k] \in {page[f].props[k], NoValue}
        /\ page[f].state = "absent" => p = NoProps}

SetMap(p) ==
    /\ m_SysPropKeyValMap' = p
    /\ persistent' = {k \in Keys : p[k] # NoValue}
    /\ stored' = p

\* The data file is whole: back it up next.
LoadDataFile ==
    /\ phase = "down"
    /\ page[DataFile].state = "whole"
    /\ \E p \in LoadedFrom(DataFile) : SetMap(p)
    /\ phase' = "backup"
    /\ saveFailed' = FALSE
    /\ UNCHANGED <<m_TimerId_SaveSysPropData, fileVars, atBoot, durable>>

\* It is not: read the backup; if that is whole, recover the data file from it.  With no
\* backup file the service starts empty; with a torn one Load fails, InitInstance logs
\* the failure, and the service starts with whatever was read.
LoadBackupFile ==
    /\ phase = "down"
    /\ page[DataFile].state # "whole"
    /\ \E p \in LoadedFrom(BackupFile) : SetMap(p)
    /\ phase' = IF page[BackupFile].state = "whole" THEN "recovery" ELSE "idle"
    /\ saveFailed' = FALSE
    /\ UNCHANGED <<m_TimerId_SaveSysPropData, fileVars, atBoot, durable>>

\* BackupSysPropDataFile: cp truncates the backup, then fills it ...
CpBackup ==
    /\ phase = "backup"
    /\ Write(BackupFile, Torn(page[DataFile].props))
    /\ phase' = "cpBackup"
    /\ UNCHANGED <<mapVars, m_TimerId_SaveSysPropData, disk, historyVars>>

CpBackupDone ==
    /\ phase = "cpBackup"
    /\ Write(BackupFile, Whole(page[DataFile].props))
    /\ phase' = "idle"
    /\ atBoot' = stored
    /\ UNCHANGED <<mapVars, m_TimerId_SaveSysPropData, disk, stored, durable, saveFailed>>

\* ... or cp fails, and the backup is removed (if remove fails too, it is left as it is).
CpBackupFails ==
    /\ "cpFails" \in Faults
    /\ phase = "cpBackup"
    /\ \E content \in {Absent, page[BackupFile]} : Write(BackupFile, content)
    /\ phase' = "idle"
    /\ atBoot' = Never
    /\ UNCHANGED <<mapVars, m_TimerId_SaveSysPropData, disk, stored, durable, saveFailed>>

\* Mutant of CpRecovery: the two paths of cp are swapped.
CpRecoverySwapped ==
    /\ phase = "recovery"
    /\ Write(BackupFile, Torn(page[DataFile].props))
    /\ phase' = "cpRecovery"
    /\ atBoot' = stored
    /\ UNCHANGED <<mapVars, m_TimerId_SaveSysPropData, disk, stored, durable, saveFailed>>

\* RecoverySysPropDataFile: cp in the other direction; its failure is only logged.
CpRecovery ==
    /\ phase = "recovery"
    /\ Write(DataFile, Torn(page[BackupFile].props))
    /\ phase' = "cpRecovery"
    /\ atBoot' = stored
    /\ UNCHANGED <<mapVars, m_TimerId_SaveSysPropData, disk, stored, durable, saveFailed>>

CpRecoveryEnds ==
    /\ phase = "cpRecovery"
    /\ \/ Write(DataFile, Whole(page[BackupFile].props))
       \/ "cpFails" \in Faults /\ UNCHANGED page
    /\ phase' = "idle"
    /\ UNCHANGED <<mapVars, m_TimerId_SaveSysPropData, disk, historyVars>>

-----------------------------------------------------------------------------
(* Requests of clients, one at a time, between the other events.           *)

\* Mutant of SysProp_Set: a temporary value cancels the timer.
SysProp_SetCancels(k, v, bPersistent) ==
    /\ phase = "idle"
    /\ m_SysPropKeyValMap' = [m_SysPropKeyValMap EXCEPT ![k] = v]
    /\ persistent' = IF bPersistent THEN persistent \cup {k} ELSE persistent \ {k}
    /\ m_TimerId_SaveSysPropData' = IF bPersistent THEN "armed" ELSE "off"
    /\ UNCHANGED <<phase, fileVars, historyVars>>

\* setKeyValPair replaces the value and the persistence of the key; SysProp_Set restarts
\* the save timer when the new value is persistent.
SysProp_Set(k, v, bPersistent) ==
    /\ phase = "idle"
    /\ m_SysPropKeyValMap' = [m_SysPropKeyValMap EXCEPT ![k] = v]
    /\ persistent' = IF bPersistent THEN persistent \cup {k} ELSE persistent \ {k}
    /\ m_TimerId_SaveSysPropData' = IF bPersistent THEN "armed" ELSE m_TimerId_SaveSysPropData
    /\ UNCHANGED <<phase, fileVars, historyVars>>

\* Mutant of SysProp_Del: no save is scheduled.
SysProp_DelUnscheduled(k) ==
    /\ phase = "idle"
    /\ m_SysPropKeyValMap[k] # NoValue
    /\ m_SysPropKeyValMap' = [m_SysPropKeyValMap EXCEPT ![k] = NoValue]
    /\ persistent' = persistent \ {k}
    /\ UNCHANGED <<m_TimerId_SaveSysPropData, phase, fileVars, historyVars>>

\* A key that is not there is refused and the timer left alone.
SysProp_Del(k) ==
    /\ phase = "idle"
    /\ m_SysPropKeyValMap[k] # NoValue
    /\ m_SysPropKeyValMap' = [m_SysPropKeyValMap EXCEPT ![k] = NoValue]
    /\ persistent' = persistent \ {k}
    /\ m_TimerId_SaveSysPropData' = "armed"
    /\ UNCHANGED <<phase, fileVars, historyVars>>

-----------------------------------------------------------------------------
(* The save timer.                                                         *)

SecondPasses ==
    /\ m_TimerId_SaveSysPropData = "armed"
    /\ m_TimerId_SaveSysPropData' = "due"
    /\ UNCHANGED <<mapVars, phase, fileVars, historyVars>>

\* The timer is unregistered and Save opens the data file with "wb".  If that fails the
\* file stays as it is.
OnTimer ==
    /\ phase = "idle"
    /\ m_TimerId_SaveSysPropData = "due"
    /\ m_TimerId_SaveSysPropData' = "off"
    /\ \/ /\ Write(DataFile, Torn(PersistentPart))
          /\ phase' = "saving"
          /\ durable' = Never
          /\ UNCHANGED saveFailed
       \/ /\ "writeFails" \in Faults
          /\ saveFailed' = TRUE
          /\ UNCHANGED <<page, phase, durable>>
    /\ UNCHANGED <<mapVars, disk, stored, atBoot>>

\* Mutant of SaveWrites: temporary properties are written too.
SaveWritesAll ==
    /\ phase = "saving"
    /\ Write(DataFile, Whole(m_SysPropKeyValMap))
    /\ stored' = PersistentPart
    /\ saveFailed' = FALSE
    /\ phase' = "sync"
    /\ UNCHANGED <<mapVars, m_TimerId_SaveSysPropData, disk, atBoot, durable>>

\* All pairs and then the checksum are written, and the file closed.
SaveWrites ==
    /\ phase = "saving"
    /\ Write(DataFile, Whole(PersistentPart))
    /\ stored' = PersistentPart
    /\ saveFailed' = FALSE
    /\ phase' = "sync"
    /\ UNCHANGED <<mapVars, m_TimerId_SaveSysPropData, disk, atBoot, durable>>

\* A write fails: Save reports it, nothing is retried, and sync() is not called.
SaveFails ==
    /\ "writeFails" \in Faults
    /\ phase = "saving"
    /\ saveFailed' = TRUE
    /\ phase' = "idle"
    /\ UNCHANGED <<mapVars, m_TimerId_SaveSysPropData, fileVars, stored, atBoot, durable>>

\* The last flush, by fclose, fails: CFile::Close returns success, and so does Save.
SaveCloseFails ==
    /\ "closeFails" \in Faults
    /\ phase = "saving"
    /\ stored' = PersistentPart
    /\ saveFailed' = TRUE
    /\ phase' = "sync"
    /\ UNCHANGED <<mapVars, m_TimerId_SaveSysPropData, fileVars, atBoot, durable>>

\* Mutant of Sync: sync() is not called.
SyncForgotten ==
    /\ phase = "sync"
    /\ durable' = IF saveFailed THEN durable ELSE stored
    /\ phase' = "idle"
    /\ UNCHANGED <<mapVars, m_TimerId_SaveSysPropData, fileVars, stored, atBoot, saveFailed>>

\* SaveSysPropData: sync() after a Save that reported success.
Sync ==
    /\ phase = "sync"
    /\ disk' = page
    /\ durable' = IF saveFailed THEN durable ELSE stored
    /\ phase' = "idle"
    /\ UNCHANGED <<mapVars, m_TimerId_SaveSysPropData, page, stored, atBoot, saveFailed>>

-----------------------------------------------------------------------------
(* Stops.                                                                  *)

Stop ==
    /\ m_SysPropKeyValMap' = NoProps
    /\ persistent' = {}
    /\ m_TimerId_SaveSysPropData' = "off"
    /\ phase' = "down"
    /\ saveFailed' = FALSE

\* A termination signal ends the event loop; ExitInstance saves nothing.
ExitInstance ==
    /\ "stop" \in Faults
    /\ phase = "idle"
    /\ Stop
    /\ UNCHANGED <<fileVars, stored, atBoot, durable>>

\* The process is killed between two steps.
Kill ==
    /\ "kill" \in Faults
    /\ phase # "down"
    /\ Stop
    /\ UNCHANGED <<fileVars, stored, atBoot, durable>>

\* The kernel writes a file back by itself.
WriteBack(f) ==
    /\ "powerLoss" \in Faults
    /\ disk' = [disk EXCEPT ![f] = page[f]]
    /\ UNCHANGED <<mapVars, m_TimerId_SaveSysPropData, phase, page, historyVars>>

\* The device loses power: a file that was not written back is there in its old or its
\* new version, or in part.
PowerLoss ==
    /\ "powerLoss" \in Faults
    /\ \E after \in [FileNames -> FileOf] :
          /\ \A f \in FileNames :
                after[f] \in {disk[f], page[f]}
                    \cup (IF disk[f] # page[f] THEN {Torn(page[f].props)} ELSE {})
          /\ page' = after
          /\ disk' = after
    /\ Stop
    /\ atBoot' = Never
    /\ UNCHANGED <<stored, durable>>

Next ==
    \/ LoadDataFile \/ LoadBackupFile
    \/ CpBackup \/ CpBackupDone \/ CpBackupFails \/ CpRecovery \/ CpRecoveryEnds
    \/ \E k \in Keys, v \in Values, b \in BOOLEAN : SysProp_Set(k, v, b)
    \/ \E k \in Keys : SysProp_Del(k)
    \/ SecondPasses \/ OnTimer \/ SaveWrites \/ SaveFails \/ SaveCloseFails \/ Sync
    \/ ExitInstance \/ Kill \/ PowerLoss
    \/ \E f \in FileNames : WriteBack(f)

Spec == Init /\ [][Next]_vars

\* The event loop runs, a second passes, and init starts the service again.
ServiceStep ==
    LoadDataFile \/ LoadBackupFile \/ CpBackup \/ CpBackupDone \/ CpRecovery \/ CpRecoveryEnds
        \/ SaveWrites \/ Sync

FairSpec ==
    Spec /\ WF_vars(ServiceStep) /\ WF_vars(SecondPasses) /\ WF_vars(OnTimer)

-----------------------------------------------------------------------------
(* Properties.                                                             *)

TypeOK ==
    /\ m_SysPropKeyValMap \in Props
    /\ persistent \subseteq Keys
    /\ m_TimerId_SaveSysPropData \in {"off", "armed", "due"}
    /\ phase \in Phases
    /\ page \in [FileNames -> FileOf]
    /\ disk \in [FileNames -> FileOf]
    /\ stored \in Props
    /\ atBoot \in Props \cup {Never}
    /\ durable \in Props \cup {Never}
    /\ saveFailed \in BOOLEAN

\* The maps a start would come up with if it found the files as they are now.
AfterRestart ==
    IF page[DataFile].state = "whole" THEN LoadedFrom(DataFile) ELSE LoadedFrom(BackupFile)

\* Save rewrites the only data file in place (SysPropOps.cpp:354), so an interrupted or
\* failed Save destroys it.  From the first start whose backup was made, a restart at any
\* moment still comes up with the last saved properties, or with those of that start; and
\* again after a loss of power, once a start has found a whole file.
RestartFindsSavedOrBoot ==
    atBoot # Never => AfterRestart \subseteq {stored, atBoot}

\* While no Save is in progress, and the last one did not fail, a restart comes up with
\* exactly what was saved last (the backup is never preferred to a newer data file).
RestartFindsSaved ==
    /\ atBoot # Never
    /\ phase \in {"backup", "idle", "sync"}
    /\ ~saveFailed
    => AfterRestart = {stored}

\* Every change of a persistent property is saved, or the timer that saves it is running
\* (SysBaseSrv.cpp:589, 664), unless the last Save failed.
UnsavedIsScheduled ==
    phase = "idle" /\ m_TimerId_SaveSysPropData = "off" /\ ~saveFailed =>
        \A k \in Keys :
            k \in persistent \/ m_SysPropKeyValMap[k] = NoValue
                => stored[k] = m_SysPropKeyValMap[k]

\* What Save and sync() have put on the medium stays there, through any number of power
\* failures and restarts, until the next Save opens the file.
SavedSurvivesPowerLoss ==
    durable # Never => disk[DataFile] = Whole(durable)

PersistentRequest ==
    \/ \E k \in Keys, v \in Values : SysProp_Set(k, v, TRUE)
    \/ \E k \in Keys : SysProp_Del(k)

\* When persistent changes stop coming and the service is no longer stopped, what was
\* changed is saved, or a Save has failed, which is not tried again.  While changes keep
\* coming each one restarts the second, and nothing is saved (SysBaseSrv.cpp:237-242).
StopStep == phase # "down" /\ phase' = "down"
ChangesAreSaved ==
    <>[][~PersistentRequest /\ ~StopStep]_vars =>
        (m_TimerId_SaveSysPropData # "off" ~>
            m_TimerId_SaveSysPropData = "off" /\ (stored = PersistentPart \/ saveFailed))

=============================================================================
