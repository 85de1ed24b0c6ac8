--------------------------- MODULE RecordingSessions ---------------------------
(***************************************************************************)
(* What becomes of the captures of a batch recording (app/src/recording.rs): *)
(* TF2 plays the clips of a session and writes markers into its log; the   *)
(* finalizer thread turns each capture into an output file, enters it in   *)
(* the recording index and removes the output it replaces; sessions that   *)
(* did not end well are kept on disk and recovered at the next starts.     *)
(*                                                                         *)
(* The helper may die between any two steps.  Outputs are encoded videos.  *)
(***************************************************************************)
EXTENDS Integers, Sequences, Functions, FiniteSetsExt

CONSTANTS
    Clips,       \* candidates, numbered in the order in which they are played
    Selections,  \* what the user may select for each session
    MaxAttempts, \* MAX_AUTOMATIC_RECOVERY_ATTEMPTS, 3 in the code
    MaxSessions, \* bound: sessions that the user starts
    MaxFaults,   \* bound: calls that fail, lines in two pieces, writers that pause or lag
    MaxCrashes   \* bound: deaths of the helper

ASSUME SessionAssumption ==
    /\ Clips \subseteq Nat \ {0} /\ IsFiniteSet(Clips) /\ Clips # {}
    /\ MaxAttempts \in Nat \ {0}
    /\ Selections \in [1..MaxSessions -> SUBSET SUBSET Clips]
    /\ MaxSessions \in Nat \ {0} /\ MaxFaults \in Nat /\ MaxCrashes \in Nat

Sessions == 1..MaxSessions
None     == 0
Paths    == 1..MaxSessions  \* unique_recording_identifier's suffixes

VARIABLES
    session,  \* each session folder: none, open, disabled, gone
    chosen,   \* the clips of its manifest, none before it is written
    replace,  \* its replace_existing
    tries,    \* automatic_recovery_attempts.txt
    path,     \* expected_output_path of each clip
    raw,      \* the capture in its working folder
    file,     \* the output files of each clip
    idx,      \* what RecordingIndex::load reads: the output of each clip
    torn,     \* the index ends in the middle of a line
    lost,     \* history: an entry was written onto such a line
    tf2,      \* the session that TF2 plays
    toPlay,   \* clips whose FINALIZED marker is still to come
    log, half,\* markers in TF2's log; the last one is not complete
    at, mode, \* the helper: step and loop of its worker thread
    cur, clip,\* the session and the clip in work
    todo,     \* clips of the markers just read, or clips to recover
    read,     \* processed_lines
    completed, failed, \* the two sets of finalize_recording_session
    existed,  \* existing_output of recovery: the output was there before
    allDone,  \* all_complete
    muxed,    \* what FFmpeg has made of the clip in work
    old,      \* the output that this one replaces
    waiting,  \* sessions still to recover at this start
    faults, crashes

folder == <<session, chosen, replace, tries, path>>
index  == <<idx, torn, lost>>
game   == <<tf2, toPlay, log, half>>
judged == <<completed, failed>>
local  == <<todo, read, judged, existed, allDone, muxed, old, waiting>>
vars   == <<folder, raw, file, index, game, at, mode, cur, clip, local, faults, crashes>>

\* A capture is "growing" while its clip is played, "flushing" after its end;
\* then "full", or "cut" short; "rest" when one of its two files is left.
Usable  == {"cut", "full"}
Held    == {"growing", "flushing"}
OnDisk  == Held \cup Usable
Steps   == {"closed", "idle", "prepare", "next", "mux", "move", "copy", "dropVideo",
            "dropAudio", "register", "replace"}

Init ==
    /\ session = [s \in Sessions |-> "none"] /\ chosen = [s \in Sessions |-> {}]
    /\ replace = [s \in Sessions |-> FALSE] /\ tries = [s \in Sessions |-> 0]
    /\ path = [s \in Sessions |-> [c \in Clips |-> None]]
    /\ raw = [s \in Sessions |-> [c \in Clips |-> "none"]]
    /\ file = [c \in Clips |-> [p \in Paths |-> "none"]]
    /\ idx = [c \in Clips |-> None] /\ torn = FALSE /\ lost = FALSE
    /\ tf2 = None /\ toPlay = <<>> /\ log = <<>> /\ half = FALSE
    /\ at = "idle" /\ mode = "watch" /\ cur = None /\ clip = None
    /\ todo = <<>> /\ read = 0 /\ completed = {} /\ failed = {}
    /\ existed = FALSE /\ allDone = TRUE /\ muxed = "none"
    /\ old = None /\ waiting = {}
    /\ faults = 0 /\ crashes = 0

\* The thread has ended: its local variables are as at the start.
NoLocals ==
    /\ mode' = "watch" /\ cur' = None /\ clip' = None
    /\ todo' = <<>> /\ read' = 0 /\ completed' = {} /\ failed' = {}
    /\ existed' = FALSE /\ allDone' = TRUE
    /\ muxed' = "none" /\ old' = None /\ waiting' = {}

\* A call fails, a line comes in two pieces, a writer pauses or lags.
Fault  == faults < MaxFaults /\ faults' = faults + 1
NoFault == UNCHANGED faults

Goes(from, to) == at = from /\ at' = to
Exists(c, p)   == p # None /\ file[c][p] # "none"

-----------------------------------------------------------------------------
(* TF2 under HLAE *)

TF2Step == UNCHANGED <<folder, file, index, at, mode, cur, clip, local, faults, crashes>>

Playing == IF toPlay = <<>> THEN None ELSE Head(toPlay)

Capture(c, r) == raw' = [raw EXCEPT ![tf2][c] = r]

\* mirv_streams record start and end of the clip that is played.
RecordStart ==
    /\ tf2 # None /\ toPlay # <<>> /\ raw[tf2][Playing] = "none"
    /\ Capture(Playing, "growing")
    /\ UNCHANGED game /\ TF2Step

RecordEnd ==
    /\ tf2 # None /\ toPlay # <<>> /\ raw[tf2][Playing] = "growing"
    /\ Capture(Playing, "flushing")
    /\ UNCHANGED game /\ TF2Step

\* HLAE's encoder has written the last byte.
Flushed ==
    /\ tf2 # None
    /\ \E c \in Clips : raw[tf2][c] = "flushing" /\ Capture(c, "full")
    /\ UNCHANGED game /\ TF2Step

\* echo TF2FRAG_RECORD_FINALIZED, 133 ticks after the end: HLAE may still
\* write.  The line may reach the file in two pieces.
Mark ==
    /\ tf2 # None /\ toPlay # <<>> /\ raw[tf2][Playing] \notin {"none", "growing"}
    /\ log' = Append(log, Playing)
    /\ \/ half' = FALSE /\ NoFault
       \/ half' = TRUE /\ Fault
    /\ toPlay' = Tail(toPlay)
    /\ UNCHANGED <<tf2, raw, folder, file, index, at, mode, cur, clip, local, crashes>>

RestOfLine ==
    /\ tf2 # None /\ half /\ half' = FALSE
    /\ UNCHANGED <<tf2, toPlay, log, raw>> /\ TF2Step

\* TF2 quits at the end of the batch, crashes, or is closed by the user or by
\* the helper: what a capture is worth then depends on how far HLAE got.
Ended(r, lucky) ==
    CASE r = "growing"  -> "cut"
      [] r = "flushing" -> IF lucky THEN "full" ELSE "cut"
      [] OTHER          -> r

Tf2Gone ==
    /\ tf2' = None /\ toPlay' = <<>>
    /\ IF tf2 = None THEN UNCHANGED raw ELSE
         \E lucky \in [Clips -> BOOLEAN] :
           raw' = [raw EXCEPT ![tf2] = [c \in Clips |-> Ended(@[c], lucky[c])]]

Tf2Exit ==
    /\ tf2 # None /\ Tf2Gone
    /\ UNCHANGED <<log, half>> /\ TF2Step

-----------------------------------------------------------------------------
(* Starting a session *)

Recorded(c) == Exists(c, idx[c])

\* launch_hlae_batch creates the session's folder first.
Launch ==
    /\ Goes("idle", "prepare") /\ tf2 = None
    /\ \E s \in Sessions :
         /\ session[s] = "none" /\ \A r \in 1..(s - 1) : session[r] # "none"
         /\ session' = [session EXCEPT ![s] = "open"]
         /\ cur' = s
    /\ UNCHANGED <<chosen, replace, tries, path, raw, file, index, game, mode, clip, local, faults, crashes>>

\* The first path that no file has.
FreePath(c) == Min({p \in Paths : ~ Exists(c, p)})

\* The user's selection; candidates that have a recording are recorded again if
\* the user says so, else left out.  prepare_recording_clips,
\* write_recording_manifest.
WriteManifest(selected, again) ==
    /\ at = "prepare" /\ chosen[cur] = {}
    /\ selected \in Selections[cur] /\ selected # {}
    /\ again => \E c \in selected : Recorded(c)
    /\ ~ again => \A c \in selected : ~ Recorded(c)
    /\ chosen' = [chosen EXCEPT ![cur] = selected]
    /\ replace' = [replace EXCEPT ![cur] = again]
    /\ path' = [path EXCEPT ![cur] =
                  [c \in Clips |-> IF c \in selected THEN FreePath(c) ELSE None]]
    /\ UNCHANGED <<session, tries, raw, file, index, game, at, mode, cur, clip, local, faults, crashes>>

\* The clips of a session, in the order in which they are played.
InOrder(clips) ==
    CHOOSE seq \in [1..Cardinality(clips) -> clips] :
        Range(seq) = clips /\ \A i, j \in DOMAIN seq : i < j => seq[i] < seq[j]

\* HLAE starts TF2.  The log of an earlier session is removed, or stays.
StartTf2 ==
    /\ Goes("prepare", "next") /\ chosen[cur] # {}
    /\ mode' = "watch"
    /\ tf2' = cur /\ toPlay' = InOrder(chosen[cur])
    /\ \/ log' = <<>> /\ half' = FALSE /\ NoFault
       \/ log # <<>> /\ Fault /\ UNCHANGED <<log, half>>
    /\ todo' = <<>> /\ read' = 0 /\ completed' = {} /\ failed' = {}
    /\ UNCHANGED <<folder, raw, file, index, cur, clip, existed, allDone, muxed, old, waiting, crashes>>

LaunchFails ==
    /\ Goes("prepare", "idle") /\ Fault /\ cur' = None
    /\ UNCHANGED <<folder, raw, file, index, game, mode, clip, local, crashes>>

-----------------------------------------------------------------------------
(* The finalizer thread: finalize_recording_session *)

Worker == UNCHANGED <<folder, raw, file, index, game, crashes>>

\* process_recording_markers: a line that is not complete counts as processed.
ReadMarkers ==
    /\ todo' = SubSeq(log, read + 1, Len(log) - (IF half THEN 1 ELSE 0))
    /\ read' = Len(log)

Poll ==
    /\ at = "next" /\ mode = "watch" /\ todo = <<>>
    /\ read < Len(log)
    /\ ReadMarkers
    /\ Worker /\ NoFault
    /\ UNCHANGED <<at, mode, cur, clip, judged, existed, allDone, muxed, old, waiting>>

\* TF2 is gone, or the thread gives it up (45 minutes without a marker, a
\* start-up that it missed); the log is read a last time.
LeaveWatch ==
    /\ at = "next" /\ mode = "watch" /\ todo = <<>>
    /\ IF tf2 = None THEN NoFault ELSE Fault
    /\ mode' = "sweep" /\ ReadMarkers
    /\ Worker
    /\ UNCHANGED <<at, cur, clip, judged, existed, allDone, muxed, old, waiting>>

Judged == completed \cup failed

\* A marker of a clip: finalize_one_clip, unless it has been judged already.
TakeMarked ==
    /\ at = "next" /\ mode # "recovery" /\ todo # <<>>
    /\ todo' = Tail(todo)
    /\ IF Head(todo) \in chosen[cur] \ Judged
       THEN at' = "mux" /\ clip' = Head(todo)
       ELSE UNCHANGED <<at, clip>>
    /\ Worker /\ NoFault
    /\ UNCHANGED <<mode, cur, read, judged, existed, allDone, muxed, old, waiting>>

\* The clips that no marker brought: whatever HLAE has written of them.
Sweep ==
    /\ at = "next" /\ mode = "sweep" /\ todo = <<>> /\ chosen[cur] # Judged
    /\ LET c == Min(chosen[cur] \ Judged)
       IN IF raw[cur][c] # "none"
          THEN at' = "mux" /\ clip' = c /\ UNCHANGED failed
          ELSE failed' = failed \cup {c} /\ UNCHANGED <<at, clip>>
    /\ Worker /\ NoFault
    /\ UNCHANGED <<mode, cur, todo, read, completed, existed, allDone, muxed, old, waiting>>

\* What HLAE still has open cannot be removed.
Cleaned(s) == [raw EXCEPT ![s] = [c \in Clips |-> IF @[c] \in Held THEN @[c] ELSE "none"]]
Closed(s)  == \A c \in Clips : raw[s][c] \notin Held

\* remove_completed_recording_session: the folder goes with all that it holds.
Gone(s) ==
    /\ Closed(s) /\ raw' = Cleaned(s)
    /\ session' = [session EXCEPT ![s] = "gone"]
    /\ chosen' = [chosen EXCEPT ![s] = {}] /\ replace' = [replace EXCEPT ![s] = FALSE]
    /\ tries' = [tries EXCEPT ![s] = 0]
    /\ path' = [path EXCEPT ![s] = [c \in Clips |-> None]]
    /\ NoFault

\* remove_dir_all fails half way: any of the folder's files may be left.
PartlyGone(s) ==
    /\ IF Closed(s) THEN Fault ELSE NoFault
    /\ chosen' \in {chosen, [chosen EXCEPT ![s] = {}]}
    /\ tries' \in {tries, [tries EXCEPT ![s] = 0]}
    /\ raw' \in {raw, Cleaned(s)}
    /\ UNCHANGED <<replace, path>>

Removed(s) == Gone(s) \/ (PartlyGone(s) /\ UNCHANGED session)

\* Mutant of Conclude: a session is removed when every clip has been judged.
MutantConclude ==
    /\ Goes("next", "idle") /\ mode = "sweep" /\ todo = <<>> /\ chosen[cur] = Judged
    /\ Removed(cur)
    /\ log' = <<>> /\ half' = FALSE
    /\ NoLocals
    /\ UNCHANGED <<file, index, tf2, toPlay, crashes>>

\* The log is archived, the profile restored; the session is removed if
\* everything went well.
Conclude ==
    /\ Goes("next", "idle") /\ mode = "sweep" /\ todo = <<>> /\ chosen[cur] = Judged
    /\ \/ failed = {} /\ Removed(cur)
       \/ (IF failed = {} THEN Fault ELSE NoFault) /\ UNCHANGED <<folder, raw>>
    /\ log' = <<>> /\ half' = FALSE
    /\ NoLocals
    /\ UNCHANGED <<file, index, tf2, toPlay, crashes>>

-----------------------------------------------------------------------------
(* finalize_encoded_video, for the finalizer and for recovery *)

Out     == path[cur][clip]
Content == raw[cur][clip]

\* wait_for_stable_file, FFmpeg: three equal sizes in a row may be the end of
\* the capture or a pause of its writer; FFmpeg muxes what there is by then.
\* A pause in the flush counts as a fault; a game that hangs writes nothing.
Mux ==
    /\ Goes("mux", "move") /\ Content \in OnDisk
    /\ muxed' = IF Content = "full" THEN "full" ELSE "cut"
    /\ Worker
    /\ IF Content = "flushing" THEN Fault ELSE NoFault
    /\ UNCHANGED <<mode, cur, clip, todo, read, judged, existed, allDone, old, waiting>>

\* The loops turn to the next clip.
ClipEnds == clip' = None /\ existed' = FALSE

\* The clip is failed, or the session is not all complete.
Fails ==
    IF mode = "recovery" THEN allDone' = FALSE /\ UNCHANGED failed
                         ELSE failed' = failed \cup {clip} /\ UNCHANGED allDone

\* What follows an error: the finalizer gives the clip up, recovery goes on
\* with the output that was there before.
GiveUp ==
    /\ IF existed THEN at' = "register" /\ UNCHANGED <<clip, existed>>
                  ELSE at' = "next" /\ ClipEnds
    /\ Fails /\ muxed' = "none"
    /\ UNCHANGED <<mode, cur, todo, read, completed, old, waiting>>

\* No capture, one of its two files missing, one that grows for 20 seconds or
\* that cannot be read yet, or ever.
MuxFails ==
    /\ at = "mux"
    /\ IF Content \in {"flushing", "full"} THEN Fault ELSE NoFault
    /\ GiveUp /\ Worker

Moved == UNCHANGED <<folder, raw, index, game, crashes, mode, cur, clip, todo, read, judged,
                     existed, allDone, old, waiting>>

\* move_file: rename, or copy and remove.
Rename ==
    /\ Goes("move", "dropVideo")
    /\ file' = [file EXCEPT ![clip][Out] = muxed] /\ muxed' = "none"
    /\ NoFault /\ Moved

CopyBegins ==
    /\ Goes("move", "copy")
    /\ file' = [file EXCEPT ![clip][Out] = "partial"] /\ UNCHANGED muxed
    /\ NoFault /\ Moved

CopyEnds ==
    /\ Goes("copy", "dropVideo")
    /\ file' = [file EXCEPT ![clip][Out] = muxed] /\ muxed' = "none"
    /\ NoFault /\ Moved

\* The copy, or the removal of its source after it.
CopyFails ==
    /\ at = "copy" /\ Fault /\ GiveUp
    /\ file' \in {file, [file EXCEPT ![clip][Out] = muxed]}
    /\ UNCHANGED <<folder, raw, index, game, crashes>>

\* An error of the removal is ignored; HLAE may still have the file open.
NotRemoved == UNCHANGED raw /\ (IF Content \in Held THEN NoFault ELSE Fault)

\* The capture's two files are removed.
DropVideo ==
    /\ Goes("dropVideo", "dropAudio")
    /\ \/ Content \notin Held /\ raw' = [raw EXCEPT ![cur][clip] = "rest"] /\ NoFault
       \/ NotRemoved
    /\ UNCHANGED <<folder, file, index, game, crashes, mode, cur, clip, local>>

DropAudio ==
    /\ Goes("dropAudio", "register")
    /\ \/ /\ Content \notin Held /\ NoFault
          /\ raw' = [raw EXCEPT ![cur][clip] = IF @ = "rest" THEN "none" ELSE "rest"]
       \/ NotRemoved
    /\ UNCHANGED <<folder, file, index, game, crashes, mode, cur, clip, local>>

-----------------------------------------------------------------------------
(* The index and the output that is replaced *)

\* append: an entry that follows the rest of a torn line is not readable.
Enter(c, p) ==
    /\ idx' = IF torn THEN idx ELSE [idx EXCEPT ![c] = p]
    /\ torn' = FALSE /\ lost' = (lost \/ torn)

\* Recovery does not enter what the index has already.
Known == mode = "recovery" /\ idx[clip] = Out /\ Exists(clip, Out)

\* register_with_fingerprint, register_recovered.
Register ==
    /\ Goes("register", "replace")
    /\ IF Known THEN UNCHANGED index ELSE Enter(clip, Out)
    /\ old' = IF replace[cur] /\ Recorded(clip) THEN idx[clip] ELSE None
    /\ NoFault
    /\ UNCHANGED <<folder, raw, file, game, crashes, mode, cur, clip, todo, read, judged,
                   existed, allDone, muxed, waiting>>

\* Mutant of RegisterFails: the old output is removed all the same.
MutantRegisterFails ==
    /\ Goes("register", "replace") /\ ~ Known /\ Fault
    /\ torn' \in {torn, TRUE} /\ UNCHANGED <<idx, lost>>
    /\ old' = IF replace[cur] /\ Recorded(clip) THEN idx[clip] ELSE None
    /\ UNCHANGED <<folder, raw, file, game, crashes, mode, cur, clip, todo, read, judged,
                   existed, allDone, muxed, waiting>>

\* The new output stays where it is.
RegisterFails ==
    /\ Goes("register", "next") /\ ~ Known /\ Fault
    /\ torn' \in {torn, TRUE} /\ UNCHANGED <<idx, lost>>
    /\ Fails /\ ClipEnds
    /\ UNCHANGED <<folder, raw, file, game, crashes, mode, cur, todo, read, completed, muxed, old, waiting>>

\* remove_replaced_recording_output; an error is ignored.
Replace ==
    /\ Goes("replace", "next")
    /\ IF old \notin {None, Out}
       THEN \/ file' = [file EXCEPT ![clip][old] = "none"] /\ NoFault
            \/ UNCHANGED file /\ Fault
       ELSE UNCHANGED file /\ NoFault
    /\ completed' = IF mode = "recovery" THEN completed ELSE completed \cup {clip}
    /\ old' = None /\ ClipEnds
    /\ UNCHANGED <<folder, raw, index, game, crashes, mode, cur, todo, read, failed, allDone, muxed, waiting>>

\* reconcile_output_root: an output whose candidate has no entry is entered.
Reconcile(c) ==
    /\ at # "closed" /\ ~ Recorded(c)
    /\ \E p \in Paths : Exists(c, p) /\ Enter(c, p)
    /\ UNCHANGED <<folder, raw, file, game, at, mode, cur, clip, local, faults, crashes>>

-----------------------------------------------------------------------------
(* Recovery at the start of the helper *)

\* recover_interrupted_profile has stopped TF2 before; then the sessions that
\* are not disabled are gone through.  Their order is that of the folders' times.
Start ==
    /\ Goes("closed", "next") /\ mode' = "recovery"
    /\ Tf2Gone
    /\ waiting' = {s \in Sessions : session[s] = "open"}
    /\ UNCHANGED <<folder, file, index, log, half, cur, clip, todo, read, completed, failed,
                   existed, allDone, muxed, old, faults, crashes>>

Disabled(s) == session' = [session EXCEPT ![s] = "disabled"]

\* The error of the write is ignored.
Disables(s) ==
    \/ Disabled(s) /\ NoFault
    \/ UNCHANGED session /\ Fault

Turns == UNCHANGED <<chosen, replace, path, raw, file, index, game, crashes, at, mode, clip, read,
                     judged, existed, muxed, old>>

\* Take the session up, or disable it if it has no clips.
Attempt(s) ==
    IF chosen[s] = {}
    THEN Disabled(s) /\ UNCHANGED <<cur, todo, allDone>>
    ELSE /\ cur' = s /\ todo' = InOrder(chosen[s]) /\ allDone' = TRUE
         /\ UNCHANGED session

NoAttempt == UNCHANGED <<cur, todo, allDone>>

\* The next session of this start.
TakeUp(s) ==
    /\ at = "next" /\ mode = "recovery" /\ cur = None /\ s \in waiting
    /\ waiting' = waiting \ {s}
    /\ Turns

\* Mutant of BeginAttempt: the attempt is not counted.
MutantBeginUncounted(s) ==
    /\ TakeUp(s) /\ UNCHANGED tries /\ NoFault
    /\ IF tries[s] >= MaxAttempts THEN Disabled(s) /\ NoAttempt ELSE Attempt(s)

\* Mutant of BeginAttempt: one attempt too many.
MutantBeginLate(s) ==
    /\ TakeUp(s) /\ NoFault
    /\ IF tries[s] > MaxAttempts
       THEN Disabled(s) /\ NoAttempt /\ UNCHANGED tries
       ELSE tries' = [tries EXCEPT ![s] = @ + 1] /\ Attempt(s)

\* begin_automatic_recovery_attempt: counted in a file, whose write may fail
\* and leave it empty.  A session without clips is disabled.
BeginAttempt(s) ==
    /\ TakeUp(s)
    /\ \/ tries[s] >= MaxAttempts /\ Disables(s) /\ NoAttempt /\ UNCHANGED tries
       \/ /\ tries[s] < MaxAttempts /\ tries' = [tries EXCEPT ![s] = @ + 1]
          /\ \/ Attempt(s) /\ NoFault
             \/ chosen[s] = {} /\ NoAttempt /\ UNCHANGED session /\ Fault
       \/ /\ tries[s] < MaxAttempts /\ tries' \in {tries, [tries EXCEPT ![s] = 0]} /\ Fault
          /\ Attempt(s)

\* Mutant of RecoverClip: an output that is there is taken for whole.
MutantRecoverClip ==
    /\ at = "next" /\ mode = "recovery" /\ cur # None /\ todo # <<>>
    /\ LET c    == Head(todo)
           here == Exists(c, path[cur][c])
       IN /\ IF here THEN at' = "register" /\ clip' = c /\ existed' = here
             ELSE IF raw[cur][c] # "none" THEN at' = "mux" /\ clip' = c /\ existed' = here
             ELSE UNCHANGED <<at, clip, existed>>
          /\ allDone' = (allDone /\ (raw[cur][c] # "none" \/ here))
    /\ todo' = Tail(todo)
    /\ Worker /\ NoFault
    /\ UNCHANGED <<mode, cur, read, completed, failed, muxed, old, waiting>>

\* The next clip of recover_one_recording_session.
RecoverClip ==
    /\ at = "next" /\ mode = "recovery" /\ cur # None /\ todo # <<>>
    /\ LET c    == Head(todo)
           here == Exists(c, path[cur][c])
       IN /\ IF raw[cur][c] # "none" THEN at' = "mux" /\ clip' = c /\ existed' = here
             ELSE IF here THEN at' = "register" /\ clip' = c /\ existed' = here
             ELSE UNCHANGED <<at, clip, existed>>
          /\ allDone' = (allDone /\ (raw[cur][c] # "none" \/ here))
    /\ todo' = Tail(todo)
    /\ Worker /\ NoFault
    /\ UNCHANGED <<mode, cur, read, completed, failed, muxed, old, waiting>>

\* The session is removed when all is done, else kept for the next start; a
\* third attempt that leaves errors is the last one.
EndAttempt ==
    /\ at = "next" /\ mode = "recovery" /\ cur # None /\ todo = <<>>
    /\ \/ allDone /\ Gone(cur)
       \/ /\ IF allDone THEN PartlyGone(cur)
                        ELSE UNCHANGED <<chosen, replace, tries, path, raw, faults>>
          /\ IF tries'[cur] >= MaxAttempts THEN Disabled(cur) ELSE UNCHANGED session
       \/ ~ allDone /\ tries[cur] >= MaxAttempts /\ UNCHANGED <<folder, raw>> /\ Fault
    /\ cur' = None
    /\ UNCHANGED <<file, index, game, crashes, at, mode, clip, todo, read, judged, existed,
                   allDone, muxed, old, waiting>>

RecoveryEnds ==
    /\ Goes("next", "idle") /\ mode = "recovery" /\ cur = None /\ waiting = {}
    /\ NoLocals /\ Worker /\ NoFault

\* The user closes the helper while it rests.
Close ==
    /\ Goes("idle", "closed") /\ tf2 = None
    /\ Worker /\ NoFault /\ UNCHANGED <<mode, cur, clip, local>>

\* The helper dies, or is closed while a thread works.
Crash ==
    /\ at # "closed" /\ at' = "closed"
    /\ crashes < MaxCrashes /\ crashes' = crashes + 1
    /\ torn' \in IF at = "register" /\ ~ Known THEN {torn, TRUE} ELSE {torn}
    /\ NoLocals
    /\ UNCHANGED <<folder, raw, file, idx, lost, game, faults>>

-----------------------------------------------------------------------------
Tf2Next == RecordStart \/ RecordEnd \/ Flushed \/ Mark \/ RestOfLine \/ Tf2Exit

Finalize ==
    \/ Mux \/ MuxFails \/ Rename \/ CopyBegins \/ CopyEnds \/ CopyFails
    \/ DropVideo \/ DropAudio \/ Register \/ RegisterFails \/ Replace

HelperNext ==
    \/ StartTf2 \/ LaunchFails
    \/ \E selected \in SUBSET Clips, again \in BOOLEAN : WriteManifest(selected, again)
    \/ Poll \/ LeaveWatch \/ TakeMarked \/ Sweep \/ Conclude
    \/ Finalize
    \/ \E s \in Sessions : BeginAttempt(s)
    \/ RecoverClip \/ EndAttempt \/ RecoveryEnds

Next ==
    \/ Tf2Next \/ HelperNext
    \/ Launch \/ Close \/ Start \/ Crash
    \/ \E c \in Clips : Reconcile(c)

Spec == Init /\ [][Next]_vars

\* Threads run on, TF2 comes to the end of its playlist, and the user opens the
\* helper again.
FairSpec ==
    Spec /\ WF_vars(Tf2Next) /\ WF_vars(HelperNext) /\ WF_vars(Start) /\ WF_vars(Close)

-----------------------------------------------------------------------------
(* Properties *)

TypeOK ==
    /\ session \in [Sessions -> {"none", "open", "disabled", "gone"}]
    /\ chosen \in [Sessions -> SUBSET Clips] /\ replace \in [Sessions -> BOOLEAN]
    /\ tries \in [Sessions -> 0..MaxAttempts]
    /\ path \in [Sessions -> [Clips -> Paths \cup {None}]]
    /\ raw \in [Sessions -> [Clips -> {"none", "growing", "flushing", "cut", "full", "rest"}]]
    /\ file \in [Clips -> [Paths -> {"none", "partial", "cut", "full"}]]
    /\ idx \in [Clips -> Paths \cup {None}] /\ torn \in BOOLEAN /\ lost \in BOOLEAN
    /\ tf2 \in Sessions \cup {None} /\ toPlay \in Seq(Clips) /\ log \in Seq(Clips) /\ half \in BOOLEAN
    /\ at \in Steps /\ mode \in {"watch", "sweep", "recovery"}
    /\ cur \in Sessions \cup {None} /\ clip \in Clips \cup {None}
    /\ todo \in Seq(Clips) /\ read \in Nat /\ Judged \subseteq Clips
    /\ existed \in BOOLEAN /\ allDone \in BOOLEAN
    /\ muxed \in {"none"} \cup Usable /\ old \in Paths \cup {None} /\ waiting \subseteq Sessions
    /\ faults \in 0..MaxFaults /\ crashes \in 0..MaxCrashes

\* Something to watch, or to make it from: a whole output of the candidate, or
\* a capture in the folder of a session that is kept.
Safe(c) ==
    \/ \E p \in Paths : file[c][p] \in Usable
    \/ \E s \in Sessions : session[s] \in {"open", "disabled"} /\ raw[s][c] \in Usable

\* Whatever fails, and wherever the helper dies, a candidate that has been
\* captured once is never left without a whole output and without a capture to
\* make one from (remove_completed_recording_session, move_file,
\* remove_replaced_recording_output, recover_one_recording_session).
CaptureNeverLost == [][\A c \in Clips : Safe(c) => Safe(c)']_vars

\* A copy of move_file that stopped half way leaves an output that recovery and
\* reconciliation take for a recording (output_still_exists asks only for a
\* length).  Whatever fails, and wherever the helper dies, such an output has its
\* capture in the folder of a session that is kept, so that it can be made again:
\* at the next start, or by hand once recovery is disabled.  Two sessions may have
\* the same output path (recover_one_recording_session, unique_recording_identifier).
HalfCopyKeepsCapture ==
    \A c \in Clips, p \in Paths :
        file[c][p] = "partial" =>
            \E s \in Sessions : /\ session[s] \in {"open", "disabled"}
                                /\ path[s][c] = p /\ raw[s][c] \in OnDisk

\* The index, as it would be read now, never points at an output that the helper
\* has deleted (existing_outputs: "only deleted after the replacement has
\* finalized and been indexed successfully"); an entry written onto the rest of
\* a torn line is the one exception.
IndexedExists == ~ lost => \A c \in Clips : idx[c] # None => Exists(c, idx[c])

\* "the old output is kept until its replacement finishes successfully"
\* (README.md:81): a full recording goes away only if there is another one.
OldOutputKept ==
    [][\A c \in Clips, p \in Paths :
         file[c][p] = "full" /\ file'[c][p] # "full" => \E q \in Paths : file'[c][q] = "full"]_vars

\* Every session that is left on disk is removed or disabled in the end: the
\* three attempts cannot go on for ever (begin_automatic_recovery_attempt,
\* recover_recording_sessions).
SessionsSettle == <>[](\A s \in Sessions : session[s] # "open")

=============================================================================
