--------------------------- MODULE RecordingProfile ---------------------------
(***************************************************************************)
(* The temporary TF2 profile of a recording: how the helper moves the      *)
(* user's tf/cfg and tf/custom aside, records the lease in                 *)
(* active_recording_profile.json (the pointer), lets TF2 run on a working  *)
(* copy and puts the originals back.  app/src/recording.rs, with the       *)
(* callers in app/src/main.rs.                                             *)
(*                                                                         *)
(* Two threads of the helper touch the files: the UI thread (start-up      *)
(* recovery, launch, closing the window) and the finalizer thread of the   *)
(* running session.  Every file-system call may fail and the process may   *)
(* die between any two of them.                                            *)
(***************************************************************************)
EXTENDS Naturals

CONSTANTS
    LegacyInstall,  \* TRUE: a TF2 install that has no tf/cfg folder yet
    MaxFaults,      \* bound on failing file-system and process calls
    MaxCrashes,     \* bound on deaths of the helper process
    MaxLaunches     \* bound on recording sessions

ASSUME ProfileAssumption ==
    /\ LegacyInstall \in BOOLEAN
    /\ MaxFaults \in Nat
    /\ MaxCrashes \in Nat
    /\ MaxLaunches \in Nat

VARIABLES
    orig,      \* what the user had in tf/ before the helper first ran
    custom,    \* tf/custom
    cfg,       \* tf/cfg
    backup,    \* the session's folder under tf/tf2fragdemohelper_backups
    pointer,   \* active_recording_profile.json
    ui,        \* what the UI thread is doing
    finalizer, \* what the session's finalizer (monitor) thread is doing
    lock,      \* holder of restore_lock
    step,      \* next step of restore_recording_profile
    snapshot,  \* its local cfg_snapshot_exists
    hlae,      \* TRUE while the HLAE launcher may still start TF2
    tf2,       \* the TF2 process
    faults, crashes, launches,
    interrupted \* history: the helper has died in the middle of an operation

files   == <<custom, cfg, backup>>
control == <<ui, finalizer, lock, step, snapshot>>
game    == <<hlae, tf2>>
bounds  == <<faults, crashes, launches, interrupted>>
vars    == <<orig, files, pointer, control, game, bounds>>

-----------------------------------------------------------------------------
(* The disk *)

\* What became of a folder's own content: never there, an empty folder, the
\* user's, the helper's, or the user's with some of its files deleted.
FolderState == {"absent", "empty", "orig", "temp", "damaged"}
FileState   == {"absent", "orig", "temp", "damaged"}

\* tf/custom holds the helper's own resource folder (PROFILE_FOLDER); tf/cfg
\* holds the profile CFG and the offline CFG of the helper.
CustomFolder == [own : FolderState, helper : FileState]
CfgFolder    == [own : FolderState, profileCfg : FileState, offline : FileState]

NoCustom == [own |-> "absent", helper |-> "absent"]
NoCfg    == [own |-> "absent", profileCfg |-> "absent", offline |-> "absent"]
EmptyCfg == [NoCfg EXCEPT !.own = "empty"]

NoBackup == [custom |-> NoCustom, cfg |-> NoCfg, helper |-> "absent",
             hitsounds |-> FALSE]
Backup   == [custom : CustomFolder, cfg : CfgFolder, helper : FileState,
             hitsounds : BOOLEAN]

Here(content) == content # "absent"

\* A remove_dir_all that fails half way has deleted some of the files.
PartlyRemoved(content) == IF content = "orig" THEN "damaged" ELSE content

\* fs::copy makes the working copy of a file, when there is one to copy.
Copied(content) == IF Here(content) THEN "temp" ELSE "absent"

-----------------------------------------------------------------------------
(* The session record the pointer file holds *)

Session == [isolated : BOOLEAN, customExisted : BOOLEAN,
            profileExisted : BOOLEAN, profileCfgExisted : BOOLEAN,
            cfgExisted : BOOLEAN, hitsounds : BOOLEAN]
NoSession == [none |-> TRUE]

\* Mutant of Captured: the session record of an older build, which knows nothing
\* of the cfg folder.
MutantCaptured(isolated) ==
    [isolated |-> isolated,
     customExisted |-> Here(custom.own),
     profileExisted |-> Here(custom.helper),
     profileCfgExisted |-> Here(cfg.profileCfg),
     hitsounds |-> orig.hitsounds]

\* A captured session: the folder facts are read from the live tree.
Captured(isolated) ==
    [isolated |-> isolated,
     customExisted |-> Here(custom.own),
     profileExisted |-> Here(custom.helper),
     profileCfgExisted |-> Here(cfg.profileCfg),
     cfgExisted |-> Here(cfg.own),
     hitsounds |-> orig.hitsounds]

Leased == pointer # NoSession

StageSteps   == {"prepare", "pointer", "moveCfg", "copyCfg", "moveCustom",
                 "fillCustom", "install", "writeCfg", "launch"}
\* Why the UI thread restores: at start-up, before a launch, after a failed
\* launch, or because the window was closed.
RestoreFor   == {"boot", "relaunch", "undo", "close"}
UiStates     == {"down", "idle"} \cup StageSteps \cup RestoreFor
RestoreSteps == {"clearCustom", "putCustom", "prune", "hitsounds", "clearCfg",
                 "putCfg", "dxLevel", "verify", "dropBackup", "dropPointer"}

Actors == {"ui", "finalizer"}

Init ==
    /\ orig \in [custom : {NoCustom} \cup
                          [own : {"orig"}, helper : {"absent", "orig"}],
                 cfg : IF LegacyInstall THEN {NoCfg}
                       ELSE [own : {"orig"}, profileCfg : {"absent", "orig"},
                             offline : {"absent", "orig"}],
                 hitsounds : BOOLEAN]
    /\ orig.hitsounds => Here(orig.custom.own)
    /\ custom = orig.custom
    /\ cfg = orig.cfg
    /\ backup = NoBackup
    /\ pointer = NoSession
    /\ ui = "down"
    /\ finalizer = "none"
    /\ lock = "free" /\ step = "clearCustom" /\ snapshot = FALSE
    /\ hlae = FALSE /\ tf2 = "off"
    /\ faults = 0 /\ crashes = 0 /\ launches = 0 /\ interrupted = FALSE

Fault == /\ faults < MaxFaults /\ faults' = faults + 1
         /\ UNCHANGED <<crashes, launches, interrupted>>

-----------------------------------------------------------------------------
(* Start-up, launch and window close: the callers on the UI thread *)

\* main: recover_interrupted_profile runs before the window opens; without a
\* pointer there is nothing to recover.
Boot ==
    /\ ui = "down"
    /\ Leased => tf2 = "off"
    /\ ui' = IF Leased THEN "boot" ELSE "idle"
    /\ UNCHANGED <<orig, files, pointer, finalizer, lock, step, snapshot, game, bounds>>

\* Mutant of Launch: recording_active is not looked at.
MutantLaunch ==
    /\ ui = "idle"
    /\ launches < MaxLaunches
    /\ tf2 = "off"
    /\ launches' = launches + 1
    /\ ui' = IF Leased THEN "relaunch" ELSE "prepare"
    /\ UNCHANGED <<orig, files, pointer, finalizer, lock, step, snapshot, game,
                   faults, crashes, interrupted>>

\* on_record_selected and on_launch_manual_hlae, refused while a session's
\* finalizer runs (recording_active); recover_interrupted_profile comes first,
\* and both launchers bail while TF2 runs.
Launch ==
    /\ ui = "idle" /\ finalizer = "none"
    /\ launches < MaxLaunches
    /\ tf2 = "off"
    /\ launches' = launches + 1
    /\ ui' = IF Leased THEN "relaunch" ELSE "prepare"
    /\ UNCHANGED <<orig, files, pointer, finalizer, lock, step, snapshot, game,
                   faults, crashes, interrupted>>

\* shutdown_active_recording, once the event loop has ended: without a pointer
\* the process just exits, and the exit ends the finalizer thread.
CloseWindow ==
    /\ ui = "idle"
    /\ IF Leased
       THEN ui' = "close" /\ tf2' = "off" /\ UNCHANGED <<finalizer, hlae>>
       ELSE ui' = "down" /\ finalizer' = "none" /\ UNCHANGED game
    /\ UNCHANGED <<orig, files, pointer, lock, step, snapshot, bounds>>

\* The process ends, whatever its threads were doing: memory is gone, the disk
\* and the other processes stay.
HelperGone ==
    /\ ui' = "down" /\ finalizer' = "none"
    /\ lock' = "free" /\ step' = "clearCustom" /\ snapshot' = FALSE
    /\ UNCHANGED <<orig, files, pointer, game>>

\* taskkill did not end TF2 within the 20 polls: the helper exits without
\* restoring, and takes a finalizer that does restore with it.
CloseTf2Stuck ==
    /\ ui = "idle" /\ Leased
    /\ tf2 = "running"
    /\ Fault
    /\ HelperGone

-----------------------------------------------------------------------------
(* stage_recording_profile *)

Staging(at, next) ==
    /\ ui = at /\ ui' = next
    /\ UNCHANGED <<orig, finalizer, lock, step, snapshot, game, bounds>>

\* Mutant of PrepareBackup: the cfg folder moves before the lease is on disk.
MutantPrepareBackup ==
    /\ Staging("prepare", "pointer")
    /\ backup' = [NoBackup EXCEPT !.hitsounds = orig.hitsounds, !.cfg = cfg]
    /\ cfg' = NoCfg
    /\ UNCHANGED <<custom, pointer>>

\* Create the backup folder and copy the hitsound files of tf/custom into it.
PrepareBackup ==
    /\ Staging("prepare", "pointer")
    /\ backup' = [NoBackup EXCEPT !.hitsounds = orig.hitsounds]
    /\ UNCHANGED <<custom, cfg, pointer>>

\* write_active_profile: the lease is on disk before any original moves.
WritePointer ==
    /\ Staging("pointer", "moveCfg")
    /\ \E isolated \in BOOLEAN : pointer' = Captured(isolated)
    /\ UNCHANGED files

\* Rename the original cfg folder into the backup (its working copy does not
\* exist before CopyCfg), or create the folder of a legacy install.
MoveCfg ==
    /\ Staging("moveCfg", "copyCfg")
    /\ IF pointer.cfgExisted
       THEN cfg' = NoCfg /\ backup' = [backup EXCEPT !.cfg = cfg]
       ELSE cfg' = EmptyCfg /\ UNCHANGED backup
    /\ UNCHANGED <<custom, pointer>>

CopyCfg ==
    /\ Staging("copyCfg", "moveCustom")
    /\ cfg' = IF pointer.cfgExisted
              THEN [own |-> "temp", profileCfg |-> Copied(backup.cfg.profileCfg),
                    offline |-> Copied(backup.cfg.offline)]
              ELSE cfg
    /\ UNCHANGED <<custom, backup, pointer>>

\* Isolated: rename tf/custom into the backup.  Otherwise: create tf/custom
\* when the user has none.
MoveCustom ==
    /\ Staging("moveCustom", "fillCustom")
    /\ IF pointer.isolated
       THEN custom' = NoCustom /\ backup' = [backup EXCEPT !.custom = custom]
       ELSE /\ custom' = IF Here(custom.own) THEN custom
                         ELSE [custom EXCEPT !.own = "empty"]
            /\ UNCHANGED backup
    /\ UNCHANGED <<cfg, pointer>>

\* Isolated: create an empty tf/custom and copy the selected resources into
\* it.  Otherwise: move an old helper folder aside.
FillCustom ==
    /\ Staging("fillCustom", "install")
    /\ IF pointer.isolated
       THEN custom' = [own |-> "temp", helper |-> "absent"] /\ UNCHANGED backup
       ELSE /\ custom' = [custom EXCEPT !.helper = "absent"]
            /\ backup' = [backup EXCEPT !.helper = custom.helper]
    /\ UNCHANGED <<cfg, pointer>>

\* install_recording_resources and install_recording_message_suppression.
InstallResources ==
    /\ Staging("install", "writeCfg")
    /\ custom' = [custom EXCEPT !.helper = "temp"]
    /\ UNCHANGED <<cfg, backup, pointer>>

WriteProfileCfg ==
    /\ Staging("writeCfg", "launch")
    /\ cfg' = [cfg EXCEPT !.profileCfg = "temp", !.offline = "temp"]
    /\ UNCHANGED <<custom, backup, pointer>>

Stage == \/ PrepareBackup \/ WritePointer \/ MoveCfg \/ CopyCfg \/ MoveCustom
         \/ FillCustom \/ InstallResources \/ WriteProfileCfg

\* A call of the staging fails.  Before the pointer is written the error is
\* returned; after it, the profile is restored and a second error is ignored.
StageFails ==
    /\ ui \in StageSteps \ {"launch"}
    /\ Fault
    /\ ui' = IF ui \in {"prepare", "pointer"} THEN "idle" ELSE "undo"
    /\ UNCHANGED <<orig, files, pointer, finalizer, lock, step, snapshot, game>>

-----------------------------------------------------------------------------
(* HLAE, TF2 and the finalizer thread that watches them *)

\* HLAE is spawned; the launcher returns and leaves the session to the
\* finalizer (monitor) thread.
SpawnHlae ==
    /\ ui = "launch"
    /\ ui' = "idle" /\ finalizer' = "starting" /\ hlae' = TRUE
    /\ UNCHANGED <<orig, files, pointer, lock, step, snapshot, tf2, bounds>>

\* HLAE cannot be spawned: the launcher restores before it returns the error.
SpawnFails ==
    /\ ui = "launch" /\ Fault
    /\ ui' = "undo"
    /\ UNCHANGED <<orig, files, pointer, finalizer, lock, step, snapshot, game>>

\* launch_hlae_batch cannot create hlae_launch.log: `?` returns the error and
\* the staged profile stays.
LaunchLogFails ==
    /\ ui = "launch" /\ Fault
    /\ ui' = "idle"
    /\ UNCHANGED <<orig, files, pointer, finalizer, lock, step, snapshot, game>>

\* External: HLAE's loader starts TF2 and is done; or it exits without.
HlaeStartsTf2 ==
    /\ hlae /\ hlae' = FALSE
    /\ tf2' \in {"running", "off"}
    /\ UNCHANGED <<orig, files, pointer, control, bounds>>

\* External: the user quits TF2, or the batch's last VDM command does.
Tf2Exits ==
    /\ tf2 = "running" /\ tf2' = "off"
    /\ UNCHANGED <<orig, files, pointer, control, hlae, bounds>>

\* The start-up wait of the finalizer sees TF2 running.
SeeTf2 ==
    /\ finalizer = "starting" /\ tf2 = "running"
    /\ finalizer' = "watching"
    /\ UNCHANGED <<orig, files, pointer, ui, lock, step, snapshot, game, bounds>>

\* The start-up wait ends without an answer that TF2 runs: HLAE has exited
\* after the last process query, or the 120 s (manual: 90 s) have passed with
\* queries that said no or failed.  TF2 itself may be running by now.  A
\* launcher that is still alive is killed (wait_for_hlae_shutdown).
GiveUpOnTf2 ==
    /\ finalizer = "starting"
    /\ finalizer' = "restore" /\ hlae' = FALSE
    /\ UNCHANGED <<orig, files, pointer, ui, lock, step, snapshot, tf2, bounds>>

\* TF2_ABSENT_CONFIRMATIONS answers in a row said that TF2 is gone.
ConfirmExit ==
    /\ finalizer = "watching" /\ tf2 = "off"
    /\ finalizer' = "restore"
    /\ UNCHANGED <<orig, files, pointer, ui, lock, step, snapshot, game, bounds>>

\* No marker for 45 minutes: the batch finalizer asks Windows to stop TF2 and
\* goes on whatever the answer.
StopStalled ==
    /\ finalizer = "watching" /\ tf2 = "running"
    /\ \/ tf2' = "off" /\ UNCHANGED bounds
       \/ Fault /\ UNCHANGED tf2
    /\ finalizer' = "restore"
    /\ UNCHANGED <<orig, files, pointer, ui, lock, step, snapshot, hlae>>

-----------------------------------------------------------------------------
(* restore_recording_profile *)

Wants(a) == IF a = "ui" THEN ui \in RestoreFor ELSE finalizer = "restore"

\* What the caller does with the result.  Closing the window exits either way
\* (and the exit ends the finalizer thread); a start-up that cannot recover
\* exits too; a launch goes on only after a successful recovery.
Finish(a, ok) ==
    /\ lock' = "free" /\ step' = "clearCustom" /\ snapshot' = FALSE
    /\ IF a = "finalizer"
       THEN finalizer' = "none" /\ UNCHANGED ui
       ELSE /\ ui' = CASE ui = "boot"     -> IF ok THEN "idle" ELSE "down"
                       [] ui = "relaunch" -> IF ok THEN "prepare" ELSE "idle"
                       [] ui = "undo"     -> "idle"
                       [] OTHER           -> "down"
            /\ finalizer' = IF ui = "close" THEN "none" ELSE finalizer

\* Take the lock and look for the pointer.  Another caller may have restored
\* in between: then there is nothing left to do.
BeginRestore(a) ==
    /\ Wants(a) /\ lock = "free"
    /\ \/ /\ Leased
          /\ lock' = a /\ step' = "clearCustom" /\ snapshot' = Here(backup.cfg.own)
          /\ UNCHANGED <<ui, finalizer>>
       \/ ~ Leased /\ Finish(a, TRUE)
    /\ UNCHANGED <<orig, files, pointer, game, bounds>>

Restoring(a, at) ==
    /\ lock = a /\ step = at
    /\ UNCHANGED <<orig, game>>

Continue(next) ==
    /\ step' = next
    /\ UNCHANGED <<pointer, ui, finalizer, lock, snapshot, bounds>>

\* Mutant of Abort: the error path cleans the pointer up.
MutantAbort(a) == Finish(a, FALSE) /\ pointer' = NoSession

\* A `?` or a bail! leaves the function: the lock is released, the pointer
\* and whatever has been restored so far stay.
Abort(a) == Finish(a, FALSE) /\ UNCHANGED pointer

\* A call fails at this step, leaving the files as they are.
StepFails(a) ==
    /\ lock = a
    /\ Fault /\ Abort(a)
    /\ UNCHANGED <<orig, files, game>>

\* Mutant of ClearCustom: tf/custom goes whether or not the session is isolated.
MutantClearCustom(a) ==
    /\ Restoring(a, "clearCustom")
    /\ custom' = NoCustom
    /\ Continue("putCustom")
    /\ UNCHANGED <<cfg, backup>>

\* remove_dir_all of what stands where the original belongs.
ClearCustom(a) ==
    /\ Restoring(a, "clearCustom")
    /\ custom' = IF pointer.isolated THEN NoCustom
                 ELSE [custom EXCEPT !.helper = "absent"]
    /\ Continue("putCustom")
    /\ UNCHANGED <<cfg, backup>>

ClearCustomBreaks(a) ==
    /\ Restoring(a, "clearCustom")
    /\ custom' = IF pointer.isolated
                 THEN [own |-> PartlyRemoved(custom.own),
                       helper |-> PartlyRemoved(custom.helper)]
                 ELSE [custom EXCEPT !.helper = PartlyRemoved(custom.helper)]
    /\ Fault /\ Abort(a)
    /\ UNCHANGED <<cfg, backup>>

\* Rename the original back, if the session says there was one.  A backup
\* that is not there makes the rename fail.
OriginalExisted == IF pointer.isolated THEN pointer.customExisted
                   ELSE pointer.profileExisted
OriginalSaved   == IF pointer.isolated THEN Here(backup.custom.own)
                   ELSE Here(backup.helper)

PutCustom(a) ==
    /\ Restoring(a, "putCustom")
    /\ \/ /\ OriginalExisted /\ ~ OriginalSaved
          /\ Abort(a) /\ UNCHANGED <<files, bounds>>
       \/ /\ OriginalExisted /\ OriginalSaved
          /\ Continue("prune")
          /\ IF pointer.isolated
             THEN /\ custom' = backup.custom
                  /\ backup' = [backup EXCEPT !.custom = NoCustom]
             ELSE /\ custom' = [custom EXCEPT !.helper = backup.helper]
                  /\ backup' = [backup EXCEPT !.helper = "absent"]
          /\ UNCHANGED cfg
       \/ /\ ~ OriginalExisted
          /\ Continue("prune") /\ UNCHANGED files

\* An empty tf/custom that the session created is removed.
PruneCustom(a) ==
    /\ Restoring(a, "prune")
    /\ custom' = IF /\ ~ pointer.isolated /\ ~ pointer.customExisted
                    /\ custom = [own |-> "empty", helper |-> "absent"]
                 THEN NoCustom ELSE custom
    /\ Continue("hitsounds")
    /\ UNCHANGED <<cfg, backup>>

\* restore_hitsound_files copies the saved hitsounds over the restored ones
\* and bails when a saved one is missing.
RestoreHitsounds(a) ==
    /\ Restoring(a, "hitsounds")
    /\ \/ pointer.hitsounds /\ ~ backup.hitsounds /\ Abort(a) /\ UNCHANGED bounds
       \/ (pointer.hitsounds => backup.hitsounds) /\ Continue("clearCfg")
    /\ UNCHANGED files

\* Mutant of ClearCfg: tf/cfg goes whether or not cfg_original is there.
MutantClearCfg(a) ==
    /\ Restoring(a, "clearCfg")
    /\ cfg' = NoCfg
    /\ Continue("putCfg")
    /\ UNCHANGED <<custom, backup>>

\* With a snapshot the working copy of tf/cfg is removed.  Without one, the
\* fallback for older sessions removes the profile CFG and expects it in the
\* backup folder, where only a session without a cfg folder put one.
ClearCfg(a) ==
    /\ Restoring(a, "clearCfg")
    /\ cfg' = IF snapshot THEN NoCfg ELSE [cfg EXCEPT !.profileCfg = "absent"]
    /\ \/ ~ snapshot /\ pointer.profileCfgExisted /\ Abort(a) /\ UNCHANGED bounds
       \/ (snapshot \/ ~ pointer.profileCfgExisted) /\ Continue("putCfg")
    /\ UNCHANGED <<custom, backup>>

ClearCfgBreaks(a) ==
    /\ Restoring(a, "clearCfg") /\ snapshot
    /\ cfg' = [own |-> PartlyRemoved(cfg.own),
               profileCfg |-> PartlyRemoved(cfg.profileCfg),
               offline |-> PartlyRemoved(cfg.offline)]
    /\ Fault /\ Abort(a)
    /\ UNCHANGED <<custom, backup>>

\* Mutant of PutCfg: the original is copied back, and the backup stays.
MutantPutCfg(a) ==
    /\ Restoring(a, "putCfg")
    /\ cfg' = IF snapshot THEN backup.cfg ELSE [cfg EXCEPT !.offline = "absent"]
    /\ Continue("dxLevel")
    /\ UNCHANGED <<custom, backup>>

\* With a snapshot the original folder is renamed back; the fallback ends by
\* removing the offline CFG.
PutCfg(a) ==
    /\ Restoring(a, "putCfg")
    /\ IF snapshot
       THEN /\ cfg' = backup.cfg
            /\ backup' = [backup EXCEPT !.cfg = NoCfg]
       ELSE /\ cfg' = [cfg EXCEPT !.offline = "absent"]
            /\ UNCHANGED backup
    /\ Continue("dxLevel")
    /\ UNCHANGED custom

\* restore_dx_level writes the registry value back; it touches no file.
RestoreDxLevel(a) ==
    /\ Restoring(a, "dxLevel")
    /\ Continue("verify")
    /\ UNCHANGED files

\* verify_restored_profile compares presence, not content.
Verified ==
    /\ pointer.customExisted = Here(custom.own)
    /\ IF pointer.isolated THEN ~ Here(backup.custom.own)
       ELSE pointer.profileExisted = Here(custom.helper)
    /\ pointer.cfgExisted = Here(cfg.own)
    /\ ~ Here(backup.cfg.own)
    /\ pointer.profileCfgExisted = Here(cfg.profileCfg)
    /\ pointer.hitsounds => backup.hitsounds

Verify(a) ==
    /\ Restoring(a, "verify")
    /\ \/ Verified /\ Continue("dropBackup")
       \/ ~ Verified /\ Abort(a) /\ UNCHANGED bounds
    /\ UNCHANGED files

DropBackup(a) ==
    /\ Restoring(a, "dropBackup")
    /\ backup' = NoBackup
    /\ Continue("dropPointer")
    /\ UNCHANGED <<custom, cfg>>

DropBackupBreaks(a) ==
    /\ Restoring(a, "dropBackup")
    /\ backup' = [backup EXCEPT !.hitsounds = FALSE]
    /\ Fault /\ Abort(a)
    /\ UNCHANGED <<custom, cfg>>

DropPointer(a) ==
    /\ Restoring(a, "dropPointer")
    /\ pointer' = NoSession
    /\ Finish(a, TRUE)
    /\ UNCHANGED <<files, bounds>>

RestoreStep(a) ==
    \/ ClearCustom(a) \/ PutCustom(a) \/ PruneCustom(a) \/ RestoreHitsounds(a)
    \/ ClearCfg(a) \/ PutCfg(a) \/ RestoreDxLevel(a) \/ Verify(a)
    \/ DropBackup(a) \/ DropPointer(a)

RestoreBreaks(a) ==
    \/ StepFails(a) \/ ClearCustomBreaks(a) \/ ClearCfgBreaks(a)
    \/ DropBackupBreaks(a)

-----------------------------------------------------------------------------
\* Power loss, a kill or an abort of the helper.
Crash ==
    /\ ui # "down"
    /\ crashes < MaxCrashes /\ crashes' = crashes + 1
    /\ interrupted' = (interrupted \/ ui # "idle" \/ lock # "free")
    /\ HelperGone
    /\ UNCHANGED <<faults, launches>>

Watch == SeeTf2 \/ GiveUpOnTf2 \/ ConfirmExit \/ StopStalled

Next ==
    \/ Boot \/ Launch \/ CloseWindow \/ CloseTf2Stuck
    \/ Stage \/ StageFails
    \/ SpawnHlae \/ SpawnFails \/ LaunchLogFails
    \/ HlaeStartsTf2 \/ Tf2Exits \/ Watch
    \/ \E a \in Actors : BeginRestore(a) \/ RestoreStep(a) \/ RestoreBreaks(a)
    \/ Crash

Spec == Init /\ [][Next]_vars

\* The threads of the helper run on, TF2 and its loader end some day, and the
\* user reopens a helper that is not running and closes one that is.
Fairness ==
    /\ WF_vars(Boot) /\ WF_vars(CloseWindow)
    /\ WF_vars(Stage) /\ WF_vars(SpawnHlae)
    /\ WF_vars(HlaeStartsTf2) /\ WF_vars(Tf2Exits) /\ WF_vars(Watch)
    /\ \A a \in Actors : WF_vars(BeginRestore(a)) /\ WF_vars(RestoreStep(a))

FairSpec == Spec /\ Fairness

-----------------------------------------------------------------------------
(* Properties *)

TypeOK ==
    /\ orig \in [custom : CustomFolder, cfg : CfgFolder, hitsounds : BOOLEAN]
    /\ custom \in CustomFolder
    /\ cfg \in CfgFolder
    /\ backup \in Backup
    /\ pointer \in Session \cup {NoSession}
    /\ ui \in UiStates
    /\ finalizer \in {"none", "starting", "watching", "restore"}
    /\ lock \in Actors \cup {"free"}
    /\ step \in RestoreSteps
    /\ snapshot \in BOOLEAN
    /\ hlae \in BOOLEAN
    /\ tf2 \in {"off", "running"}
    /\ faults \in 0..MaxFaults
    /\ crashes \in 0..MaxCrashes
    /\ launches \in 0..MaxLaunches
    /\ interrupted \in BOOLEAN

\* The user's original tf/cfg is always whole, in its place or in the backup,
\* whichever call fails and wherever the helper dies: stage_recording_profile
\* only renames it, and restore_recording_profile removes the working copy
\* only when cfg_original is in the backup.
CfgNeverLost ==
    orig.cfg.own = "orig" => "orig" \in {cfg.own, backup.cfg.own}

\* The same for the user's tf/custom.  It holds in calm weather only.
CustomNeverLost ==
    orig.custom.own = "orig" => "orig" \in {custom.own, backup.custom.own}

\* No call has failed, the helper has died between whole operations only, and
\* TF2 had a tf/cfg folder when the helper came.
Calm == faults = 0 /\ ~ interrupted /\ Here(orig.cfg.own)

\* tf/custom is in its place or in the backup at every moment of staging and
\* restoring, as long as the weather is calm.
CustomKeptInCalm == Calm => CustomNeverLost

\* Byte for byte what the user had; and the same but for the offline CFG, which
\* the fallback of a restoration without cfg_original removes for good.
AllBack == custom = orig.custom /\ cfg = orig.cfg
AllButOffline ==
    custom = orig.custom /\ cfg = [orig.cfg EXCEPT !.offline = "absent"]

NothingStranded ==
    backup.custom = NoCustom /\ backup.cfg = NoCfg /\ backup.helper = "absent"

\* recording.rs: moving the original folder aside preserves cfg/overrides and
\* every other user script byte for byte.  No recovery marker means nothing to
\* recover: whenever the pointer is gone, tf/cfg and tf/custom are the user's
\* own again, and no later recovery would look at a backup folder.
ClearedMeansRestored ==
    pointer = NoSession => AllBack /\ NothingStranded

\* What does hold in every weather: when the pointer is gone nothing is stranded
\* and everything is back except, after a failure or a death in the middle of an
\* operation, the user's offline CFG.
ClearedMeansReturned ==
    pointer = NoSession =>
        /\ AllBack \/ (~ Calm /\ AllButOffline)
        /\ NothingStranded

Given == IF AllBack THEN "all" ELSE IF AllButOffline THEN "allButOffline" ELSE "some"

\* The helper keeps the promise of ProfileLease: the pointer is the lease.
Lease == INSTANCE ProfileLease WITH held <- Leased, given <- Given, calm <- Calm

LeaseSpec == Lease!Spec

\* MANUAL_HLAE_CAMERA_GUIDE.md: the helper waits for TF2 to be fully gone
\* before it restores the files TF2 has open.
RestoreAfterTf2Closed == lock = "finalizer" => tf2 = "off"

\* The files are restored by one thread at a time, and never while a launch is
\* staging the next profile: the working copies of one session are not taken
\* for those of another.
StageAlone ==
    ui \in StageSteps => lock = "free" /\ finalizer = "none"

\* MANUAL_HLAE_CAMERA_GUIDE.md: reopening the helper recovers a session that
\* was cut short, so no lease lasts for ever, as long as the weather stays calm.
RecoveryCompletes == []Calm => (Leased ~> ~ Leased)

=============================================================================
