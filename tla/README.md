# TF2 Demo Toolkit: specifications and proofs

TLA+ models of the toolkit (Rust; `app/`, `director/`, `parser/`), the TLC runs that
check them and the TLAPS proofs about them. Paths are those of the repository.
`PROJECT.json` lists components, runs, mutants, the lines each definition models,
findings, hazards and theorems.

    tlc -workers 2 -config ProfileCrash.cfg RecordingProfile
    tlapm RecordingProfileProofs.tla

## 1. Inventory

The toolkit parses TF2 demos, scores the frags in them, and records the chosen ones by
running TF2 under HLAE.

| Part | State | Operations | Hard part |
|---|---|---|---|
| Batch pipeline `app/src/batch.rs` | job queues, cancellation flag, first error, child processes | `run_batch`: two phases of worker threads, `run_command`, cancel | workers, errors and the user race for one flag |
| Admission gate, governor `app/src/scheduler.rs` | permits, reserved bytes, last memory sample, low samples | `acquire_for`, drop of a permit, `checkpoint` | values read before the lock, leaks, starvation |
| Recording profile `app/src/recording.rs` | `tf/cfg`, `tf/custom`, backup folder, marker file, registry value | stage, restore, recover at start, shut down | crash and failure between any two file operations; two threads |
| Process monitor `recording.rs` | start-up deadline, absence confirmations, stall clock | start-up wait, watch, stop | TF2 and HLAE are other processes, queries fail |
| Clip finalizer `recording.rs` | markers read, completed and failed clips, manifest, captures, output files | `process_recording_markers`, `finalize_one_clip`, sweep, replacement of outputs | markers ahead of files, cut captures, half-moved outputs |
| Session recovery `recording.rs` | attempt counter, disabled marker, manifests | `recover_recording_sessions` | retries that must stop, captures that must survive |
| Recording index `recording.rs` | append-only file and map | register, reconcile | entries written in part |
| Manual HLAE session `recording.rs` | as the profile, plus a Director process | `launch_manual_hlae_candidate` | as the profile |
| Manual seek and hotkeys `recording.rs` | TF2 aliases, VDM actions | seek chain, kill-tick cycle, restart | a program in aliases whose ticks play more than once |
| Recording passes `recording.rs` | VDM actions | `clip_window`, `partition_recording_windows`, `vdm_text` | windows that touch, flush times |
| Director action queue `director/src/main.rs` | pending, in flight, slot and sequence, transport | enqueue, acknowledge, start next, fallback | TF2's aliases advance on their own; log lines arrive in batches |
| Console log tail `director/src/main.rs` | offset, carried text, keyframe capture | `poll` | partial lines, truncation |
| Keyframe snapshots and edits `director/src/main.rs` | shown markers, gate, retries, selection | snapshot, authorise empty, refresh, edits by position | prints that come early or empty |
| RCON worker `director/src/main.rs`, `rcon.rs` | request in work | send, reconnect | an answer that does not come |
| Windows, settings, preflight, analyzer, parser, packaging | - | - | no protocol of their own (see section 6) |

Interaction: the window (`app/src/main.rs`) starts one batch thread or one recording
session at a time (`recording_active`) and restores on close. A session has a finalizer
thread that shares the profile's files with the UI thread under `restore_lock` and the
marker file. The Director is a process of its own; it and TF2 meet in 64 CFG files and
the console log. Workers of a batch share queue, gate, governor and flag. A session's
finalizer and the recovery of the next start meet in the session's folder (manifest,
captures, attempt counter), the output directory and the index.

What makes each modelled part correct:

- profile: `tf/cfg` survives every failure, and `tf/custom` as long as nothing fails; the
  marker goes away only when the files are back; nobody stages while somebody restores;
- queue: actions run in order, are reported only after they ran, and are reported in the
  end; none runs twice while consumed slots can be overwritten; both sides stay on the
  same slot;
- batch: a complete batch has done every job; an error is not shown as a cancellation;
  nothing leaks; it ends;
- sessions: what has been captured once stays available as an output or as a capture, a
  half-copied output still has its capture, the index is true, and recovery comes to an end;
- keyframes: the markers follow HLAE's table, vanish only by a deletion, and an edit hits
  the keyframe that was selected; no command is sent twice;
- playback: each clip of a batch is recorded whole and alone; a manual session reaches its
  lead-in in short hops, pauses there and stays under the user's hand.

## 2. Modules

| Module | Models | Used by |
|---|---|---|
| `RecordingProfile` | staging, monitor, restoration, recovery | `Profile*.cfg` |
| `ProfileLease` | what the profile promises, as a lease | refinement `LeaseSpec` |
| `RecordingProfileProofs` | theorems about `RecordingProfile` | TLAPS |
| `DirectorMailbox` | queue, telemetry timer, TF2's aliases | `Mailbox*.cfg` |
| `MailboxContract` | in order, reported after, again only from a spoiled slot | refinement `ContractSpec` |
| `DirectorMailboxProofs` | theorems about `DirectorMailbox` | TLAPS |
| `BatchPipeline` | both phases, gate, governor, cancellation | `MCBatchPipeline` |
| `MCBatchPipeline` | sizes of the jobs for TLC | `Batch.cfg` |
| `BatchPipelineProofs` | theorems about `BatchPipeline` | TLAPS |
| `RecordingSessions` | captures, finalizer, index, recovery | `MCRecordingSessions` |
| `MCRecordingSessions` | the user's selections for TLC | `Sessions*.cfg` |
| `RecordingSessionsProofs` | theorems about `RecordingSessions` | TLAPS |
| `KeyframeSync` | HLAE's table, log, gate, timer, edits, RCON worker | `Keyframe*.cfg` |
| `KeyframeSyncProofs` | theorems about `KeyframeSync` | TLAPS |
| `DemoPlayback` | passes of a batch, safe seek of a manual session, demo player | `MCDemoPlayback` |
| `MCDemoPlayback` | lead-ins and outros for TLC | `Playback.cfg` |
| `DemoPlaybackProofs` | theorems about `DemoPlayback` | TLAPS |
| `FiniteFacts` | lemmas: induction, extremes, sums and orders of finite sets | the proof modules |

### RecordingProfile

One action per file operation that a failure or a death can separate from the next.
`custom` and `cfg` say what became of each folder's content: absent, empty, the user's,
the helper's, or the user's with files deleted; the two files and the folder that the
helper itself writes are tracked one by one, everything else is one value. `backup` is
the session's folder, `pointer` the marker file with the facts that
`RecordingProfileSession` records. Writing the marker is one action: it is written aside
and renamed, and the old one does not exist then. `ui` and `finalizer` are the two
threads of the helper, `step` the program counter of `restore_recording_profile` under
`lock`, `snapshot` its local `cfg_snapshot_exists`. `ClearCustomBreaks`,
`ClearCfgBreaks` and `DropBackupBreaks` are a `remove_dir_all` that fails half way. The
process monitor answers with what TF2 did last: `GiveUpOnTf2` may be taken with TF2
running because the code asks for TF2 first and for the launcher second. `Crash` loses
the threads and keeps the disk, TF2 and HLAE; `CloseTf2Stuck`, the exit of a helper that
could not stop TF2, does the same. The history variable `interrupted` says that the helper
has died in the middle of an operation.

`ProfileLease` is the promise: a lease is on record before any file is touched, and ends
only with the files given back. "Given back" is byte for byte (`AllBack`: each folder, the
helper's resource folder in `tf/custom`, the profile CFG and the offline CFG); after a
failure or an interrupted operation the offline CFG may be missing (`AllButOffline`),
because the fallback of a restoration without `cfg_original` removes it (finding 3).
`Calm` is the weather without that exception: no failing call, no death in the middle of
an operation, and a TF2 that had a `tf/cfg`.

Abstracted: the registry value (a step that may fail), names, the session folders of
`temporary_paths`, and the files `config.cfg` and `video.txt` of an install without
`tf/cfg`. `HlaeStartsTf2` and `Tf2Exits` are external.

### DirectorMailbox

An action is the number of its request. `pending`, `inFlight`, `nextSlot`, `nextSeq` and
`transport` are the fields of `DirectorActionQueue`; `slot` the CFG files; `cursor` the
alias `tf2frag_director_poll_action`, which each executed slot advances before its
command runs. `ReadLog` is one tick of the telemetry timer: it takes any number of the
complete lines, merges them as `TelemetryPoll` does (a ready line wins over a reload line
whatever their order), and stops before the acknowledgements while it believes that the
demo loads. One file call of a request or an acknowledgement may fail. Lines other than
the five kinds, and `cfg.tmp` files, are left out. With `LocalRcon` the queue is not used.

The overwrite of a consumed slot may fail at any acknowledgement, which the code ignores
(`let _ =`, `main.rs:1343`): `Retired` has both outcomes and the history variable `spoiled`
tells that it happened. A slot that kept its action does no harm until TF2 comes round to
it. Then TF2 carries the old action out again, counted in `repeats`, and its alias is one
slot ahead of the Director's `nextSlot`. The action that the Director writes next lies at a
slot TF2 is not looking at, and waits there until the alias has come round again or for
ever. No document or comment promises otherwise, except that a consumed slot says of itself
"waiting for this slot to be reused". What stays true is in the properties: the first
executions keep the order of the requests, no report comes before its action has run,
nothing is repeated without a spoiled slot (`ContractSpec`), and the two sides agree until
something has been repeated (`CursorsAgree`).

### BatchPipeline

Each worker has a place in its loop (`at`) and the job it claimed. Looking at the flag,
claiming an index, measuring, deciding under the gate's lock, working, looking at the
flag after an error and setting it are steps of their own. What `acquire_for` read before
the lock is kept in `limit` and `usable` until the decision. Sizes are in units; a
memory reading is any of `Readings`; CPU load is any scale of the limit down to a
quarter. The three reads of available memory between checkpoint and lock are one; both
phases have the same `Ceiling`. A panic in phase 1, which the caller turns into a failure
of the whole batch, is not modelled.

### RecordingSessions

A session is a folder: `chosen`, `replace`, `path` are its manifest, `tries` its attempt
counter, `raw` its captures ("growing" while the clip is played, "flushing" while HLAE
writes the rest, "full", "cut" when TF2 ended too early, "rest" when one of the two files is
left). `file` holds the outputs of each candidate under the names that
`unique_recording_identifier` gives. `idx` is what the index would be read as; `torn` says
that its last line has no end, `lost` that an entry was written onto such a line.
`at`/`mode`/`cur`/`clip` are the program counter of the one worker thread: the watch, the
sweep and recovery share the actions of `finalize_encoded_video`, as in the code.
`wait_for_stable_file` is a heuristic and is modelled as one: three equal sizes in a row may
be the end of a capture or a pause of its writer, so `Mux` accepts a growing, flushing, cut
or full capture, and `muxed` is what FFmpeg could read of it. A pause while HLAE flushes
counts against `MaxFaults`; a capture that stands still because the game hangs is free. A
clip that was accepted too early is counted as completed with a cut output. Nothing in the
repository promises more of one clip, so no property forbids it; when the output replaces a
full one, it is finding 5. Files that HLAE still has open cannot be removed (`NotRemoved`,
`Closed`), neither one by one nor with their folder. A move may be a rename or a copy that
is seen half done. `Crash` loses the thread (also a window closed while it works), keeps the
disk and leaves TF2 running until the next start, which stops it in
`recover_interrupted_profile`. `Gone` and `PartlyGone` are the removal of a folder and its
failure half way: the manifest, the counter or the captures may then be missing, and the
next start finds what is left. The writes of the counter and of the file that disables a
session may fail as well; the code ignores both errors.

Abstracted: outputs are encoded videos (image sequences are not modelled); the statuses in
the manifest, which recovery does not read; the profile (`RecordingProfile` has it;
its restoration is the failing call of `Conclude`); recovery reads the index anew for each
clip, the code once per session; bounds on the scan of the folder and on file sizes.

### KeyframeSync

A keyframe is its tick and its id the position in HLAE's table, as `mirv_campath print`
counts it. `path` is the table, `shown` the markers, `verified` and `permission` the two
fields of `KeyframeSnapshotGate`, `retries` and `due` the timer's variables. `log` holds
the lines that the timer has not read; `Tick` takes any number of them, merges them as
`TelemetryPoll` does (the last complete table counts, flags are joined whatever their
order) and drops everything while it believes that the demo loads. `Run` is a command in
TF2's buffer: its markers and the print that the transport puts behind it, which may show
the table before or after the change, and after a seek up to `MaxBlanks` prints in a row
may be empty; both are what the comments at `main.rs:371` and `main.rs:664` say of HLAE.
With `direct` the commands go to the RCON worker: `Unavailable` is 15 s without a
connection, `BreaksSending` and `AnswerLate` are `SentUnconfirmed`.

Abstracted: a print is one complete table (captures that span polls, unknown rows and a
truncated log are left out); ticks lie within the clip; a mailbox command is delivered in
order and once, which `Mailbox.cfg` checks; the print of a refresh comes in a later frame
than the change it follows; a loaded camera path has all of `Ticks`. The application
itself writes sessions with `CfgMailbox`; RCON is reached from a session file that says
so.

### DemoPlayback

Both scripts are sets of actions at ticks, computed from clips as `vdm_text` and
`manual_hlae_vdm_text` do; the player runs the actions of a tick, in any order, whenever
playback reaches it, and a jump may or may not run those of the tick it lands on. The
numbers that `add_vdm_action` gives would order the actions of a tick; leaving the order
open allows more behaviours, and every property holds in all of them. `armed`, `restore`
and `nextKill` are the aliases that change. `Partition` is the greedy algorithm as a
recursive function: `Fitting` are the passes that take a window, `Placed` the passes with
that window in the first of them or in a new one. An instance plays one demo; a later demo
starts like a later pass. Actions that change nothing here (profile, camera focus, echoes)
are left out, and a key comes when the actions of a tick have run.

With a lead-in and an outro of 0 and one kill, a window is one tick long and its start
and stop CFG are due at the same tick: the recording has no frame. `Playback.cfg` has that
case; `AllTaken` is about ticks and order, so it holds.

## 3. Runs

| Run | Question | Bounds | Distinct states |
|---|---|---|---|
| `ProfileCrash` | are `tf/cfg`, marker and staging safe whatever fails? are `tf/custom` and the end of the lease in calm weather? | 1 failing call, 1 death anywhere, 2 sessions | 155,393 |
| `ProfileCustomLoss` | is `tf/custom` safe as the guide says? (no) | as `ProfileCrash` | violated |
| `ProfileFallback` | is everything back when the marker is gone? (no) | no failing call, 1 death, 1 session | violated |
| `ProfileRestoreWhileRunning` | is TF2 gone when files are restored? (no) | no failure, 1 session | violated |
| `Mailbox` | in order, honestly reported, cursors agree, reported in the end? | 2 slots, 4 actions, 1 failing call, 1 restart, any failed overwrites, 1 repetition | 223,314 |
| `MailboxReload` | is an acknowledgement ever lost? (yes) | 1 action, 1 restart | violated |
| `Batch` | is the verdict right, does anything leak, does it end? | 3 demos, 2 workers, memory 0 or 6 units | 85,050 |
| `Sessions` | is a capture ever lost, is the index true, does recovery end? | 2 clips, 2 sessions, 2 attempts, 1 failing call or pause, 1 death | 1,591,553 |
| `SessionsInterrupted` | is the old output kept until its replacement is done? (no) | 1 clip, 2 sessions, 3 attempts | violated |
| `Keyframes` | do the markers follow the path, do edits hit? | 2 ticks, 3 acts (2 with RCON), 2 empty prints, 1 failing exchange | 183,935 |
| `KeyframeGhost` | does the last marker go? (no) | 1 tick, 2 acts | violated |
| `Playback` | is every clip recorded, is the lead-in reached? | 3 clips over 4 kill ticks, 20 ticks, 3 keys | 52,438 |

Why the bounds are enough for what they ask: two sessions let the second find what the first
left, one failure with one death reaches every pair of steps they can separate (the proofs
lift the bound); four actions turn a ring of two slots twice, so that TF2 comes round to a
slot that kept its action; three demos and two workers leave one demo in the queue while two
workers fail, finish or are cancelled, and a reading of 0 or 6 units is below the critical
level or holds the demo alone. Two sessions over the same clips make the second one meet the
first one's outputs, index and kept folder; one failing call and one death reach every pair
of steps between them Three acts let two changes overlap and a third one come too early; two
empty prints exhaust the two retries. Four kill ticks with a flush of 5 give windows that
are disjoint, touch by one tick and overlap; a target of 7 with a step of 3 gives a chain of
three seeks, three keys a restart in the middle of one. All runs switch deadlock checking
off: the helper, the director and a batch may come to rest (bounds reached, batch over, TF2
closed).

### Fairness

- Profile: threads of the helper run on, HLAE and TF2 end some day, the user reopens a
  helper that is not running and closes one that is. Without the user's part a marker may
  stay for ever: nothing else recovers it.
- Mailbox: the 15 ms timer, TF2's command buffer, and the user who presses the key that
  the panel asks for while an action waits for it and no poller runs. `HotkeysOnly` has
  no other transport, so without the user no action would run.
- Batch: every thread runs on, and a parser process or an analysis ends. The user's
  cancellation has no fairness.
- Sessions: the worker thread runs on, TF2 comes to the end of its playlist, and the user
  opens a closed helper and closes one that rests: recovery happens at a start only.
- Keyframes: TF2 runs its commands and finishes loading, the worker sends, the 15 ms timer
  reads all that there is. The user owes nothing.
- Playback: the player plays on. The user owes nothing.

### Findings

Six runs end with a violation that a document or comment of the repository rules out
(details and quotations in `PROJECT.json`):

1. `restore_recording_profile` removes `tf/custom` of an isolated session even if the
   original was never moved into the backup.
2. The start-up wait can miss TF2 (TF2 asked first, launcher second) and restore files
   under the running game.
3. A restoration that finds no `cfg_original` takes the session for one of an older build and
   removes the user's own profile CFG and offline CFG, although this session has died before
   it moved anything; the loss of the offline CFG passes verification and the marker goes.
4. An acknowledgement that shares a poll with the line of a safe restart is dropped; the
   queue then waits for ever.
5. A clip that is recorded again and cut short by the end of TF2 passes for completed; the
   old full output is removed.
6. The permission to show an empty keyframe table is used up by the early print of the old
   table; the marker of a deleted last keyframe stays.

Some properties state where they stop. `CustomKeptInCalm` and `RecoveryCompletes` are about
calm weather: findings 1 and 3 are what a failure or an interruption does, and with a
profile CFG of the user's the recovery of finding 3 fails at every start, so that its lease
never ends. `EveryActionCompletes` is about histories without a restart, a failing write of
an action or a repetition (`Undisturbed`), `AckComesUndisturbed` about those without a
restart; finding 4 is what a restart does. `MarkersConverge` excepts deletions (finding 6),
failing RCON exchanges (no refresh follows them) and a frag seek while an earlier change
settles: such a seek asks for no refresh, its empty prints use up the retries of the other
one, and the markers stay behind until the next change. After the deletion of a keyframe
that is not the last one the permission may also be left for a later empty print, which then
erases the markers until the next refresh; `KeptWithoutDeletion` is about the time before
any deletion.

## 4. Proofs

Every safety invariant, action property and refinement of a passing run is a theorem.
The theorems hold for all values of the constants that the named assumptions of the models
allow: `ProfileAssumption`, `MailboxAssumption`, `BatchAssumption`, `SessionAssumption`,
`KeyframeAssumption`, `PlaybackAssumption`. They say that bounds are natural numbers, that
sets of clips and ticks are finite, and what the code's own constants guarantee (a gap of
two ticks, a step that is not 0); TLC evaluates each of them. No theorem has a hypothesis
besides: where a property holds of some histories only, the state says which (`Calm`,
`repeats`, `reloads`, `lost`).

Each part of `Calm` is needed for `CustomKeptInCalm`. `ProfileCustomLoss` shows the first
two. For the third: without a `tf/cfg` staging creates one, a restore empties it and leaves
it there, and verification, which wants the folder gone as it was, stops the restore with
the marker in place; the next one finds no `custom` in the backup and removes the live
`tf/custom`.

| Module | Theorems |
|---|---|
| `RecordingProfileProofs` | `TypeInvariant`, `CfgIsNeverLost`, `ClearedIsReturned`, `StagesAlone`, `ImplementsLease`, `CalmLosesNothing` |
| `DirectorMailboxProofs` | `TypeInvariant`, `CursorsNeverPart`, `AcknowledgementNotLost`, `ImplementsContract` |
| `BatchPipelineProofs` | `TypeInvariant`, `CompleteIsAll`, `CancelledWasAsked`, `GateNeverLeaks`, `NothingRunsOn` |
| `RecordingSessionsProofs` | `TypeInvariant`, `HalfCopiesKeepCaptures`, `IndexHolds`, `CapturesKept` |
| `KeyframeSyncProofs` | `TypeInvariant`, `SelectionIsShown`, `OnlyDeletionsErase`, `PatienceHits`, `DeliveryIsHonest` |
| `DemoPlaybackProofs` | `TypeInvariant`, `BatchNeverRefused`, `PassesAreFewest`, `ClipsNeverOverlap`, `HopsAreShort`, `NeverBehindTheBack` |

### Arguments

The properties are seldom inductive; each module names the parts that make them so.

`RecordingProfile`. That `tf/cfg` may be removed depends on what the restoring thread saw
before (`snapshot`), on the step it has reached and on the facts in the marker. `IInv` adds
`OrigInv`, `FactsInv` (the marker's facts describe what the user had), `ControlInv` (staging
is alone and holds the marker from its first move on; the lock is held by a thread that
restores), `CfgInv` (the original is in the backup or in its place; a restoration that saw
it in the backup finds it there until it renames it back) and a part for `tf/custom`.
`ImplementsLease` maps every step to `Take`, `Use`, `Return` or a stutter. `CalmInv` adds for
calm weather that a session that has moved `tf/custom` keeps it in the backup until it has
put it back, that no step of the restore gives up after that, and that the whole `tf/cfg` is
in its place or in the backup, so that the fallback is never taken. For any weather
`ClearedInv` says that nothing but the offline CFG can be missing when the marker is gone.

`DirectorMailbox`. TF2 is ahead of the reports by the action in flight at most (`AheadInv`);
a slot holds nothing, the action in flight, or one that has run and could not be
overwritten, and both sides are at the same slot until such a one is run again (`RingInv`);
what waits, is in flight and has been reported is in the order of the requests (`OrderInv`,
`AskedInv`); a line with the number in flight says that TF2 ran that action (`AckInv`), and
without a restart that line is still to be read (`HeardInv`). `ImplementsContract` maps each
step to the contract's request, run, report or give up, or to a stutter.

`BatchPipeline`. Where a claimed job can be (`Accounted`: done, in a worker's hands, or the
batch is stopping), why a worker stops (`DrainedInv`), who sets the flag (`FlagInv`), and
what the gate has booked (`GateInv`: the sum over the running workers, which a step changes
by one worker's need).

`RecordingSessions`. What the output and the capture of the clip in work are at each step
(`OutputInv`); a half-copied output still has its capture (`HalfCopyKeepsCapture`), which
rests on the paths of a session being free when it was launched (`LaunchInv`, `PathInv`) and
still free when its finalizer comes to them (`FreshInv`); only the session that is played
has files that HLAE holds open (`HeldInv`); an attempt that has met no error has made the
outputs behind it (`DoneInv`); an output is in the index before the one that it replaces is
removed (`IndexInv`). `CapturesKept` then looks at each step that removes a file.

`KeyframeSync`. As long as nothing was deleted no empty table is permitted and no line on
its way permits one (`GateInv`); a command has one number, and one that waits has not run
nor been called NOT SENT (`DeliveryInv`); a patient user's last command is the only one that
waits, and the position in it is that of the keyframe that was selected (`PatientInv`).

`DemoPlayback`. `Good` holds of the passes after every window, by induction over the greedy
partition: each is a sequence that `vdm_text` accepts (`Playable`), a window that is not the
last of its pass is out of the way of all that follow (`Settled`), and some windows are wanted
at one moment, as many as there are passes (`Needed`). In a pass, the clips that have begun
are those up to the player's tick and the open one is finalized before the next begins
(`Earlier`, `Ahead`, `Begun`). In a manual session no alias of a seek that the demo has
passed is armed, and none at all after the pause at the lead-in (`SeekInv`); `SeekFacts` is
the arithmetic of the hops.

`FiniteFacts` has the induction. The library's induction theorems take the predicate as an
operator; `NatSetInduction` takes the set of the numbers that satisfy it, and is proved from
the well-foundedness of `<`. With it the module proves that a finite set of numbers has a
greatest element and can be put in order (`SortedExists`, for `KillOrder` and `InOrder`)
and that a sum over a finite set does not depend on the order in which `MapThenSumSet`
takes the elements.

### Only model-checked

The liveness properties `RecoveryCompletes`, `EveryActionCompletes`, `BatchEnds`,
`SessionsSettle`, `MarkersConverge`, `AllTaken` and `GetsReady`: each needs `WF_`, that is
ENABLED, which the provers do not handle. The six violations of section 3 are TLC's too.

## 5. Plan

Done: recording profile, director queue, batch pipeline with its gate, recording sessions
with index and recovery, keyframes with the RCON worker, playback; theorems for all their
safety properties. Left, in this order:

1. The safety half of the liveness arguments: that only a failing write sets an
   attempt counter back (`SessionsSettle`), that a worker that waits at the gate of an idle
   batch is let in (`BatchEnds`), that an armed seek lies ahead of the demo (`GetsReady`).
2. What two queued keyframe edits do to each other's positions.
3. Image sequences; two instances of the helper over one profile; settings.

## 6. Not modelled

The overlay and application windows (platform calls and widgets), CFG and encoder text
(tables), disk estimates (arithmetic), the analyzer (a scoring heuristic) and the demo
parser (decoding, mostly generated tables) have no protocol for a model checker to
explore; packaging is scripts. Parts planned but not yet modelled are in section 5.
