------------------------------ MODULE DemoPlayback ------------------------------
(***************************************************************************)
(* The two scripts that drive TF2's demo player: the passes of a recording *)
(* batch and the safe seek of a manual session.  app/src/recording.rs      *)
(* writes them as VDM actions and aliases: clip_window,                    *)
(* partition_recording_windows, vdm_text, manual_seek_targets,             *)
(* manual_hlae_vdm_text, manual_seek_control_cfg, manual_hotkey_cfg.       *)
(* The player is external: it plays tick after tick, runs the actions of a *)
(* tick, in any order, whenever playback reaches that tick, and jumps; a   *)
(* jump may or may not run the actions of the tick it lands on.            *)
(***************************************************************************)
EXTENDS Integers, Sequences, FiniteSets

CONSTANTS
    Flush,    \* RECORDING_FLUSH_TICKS (133 in the code)
    Gap,      \* VDM_ACTION_GAP_TICKS (2 in the code)
    Step,     \* MANUAL_SEEK_STEP_TICKS (15,000 in the code)
    Second,   \* MANUAL_ONE_SECOND_TICKS (67 in the code)
    Kills,    \* ticks at which kills may happen
    Clips,    \* number of clips of a demo, bound
    Margins,  \* lead-in and outro, in ticks: a set of pairs
    Targets,  \* lead-in ticks of manual sessions
    LastTick, \* end of the demo
    MaxKeys   \* bound on the user's keys

ASSUME PlaybackAssumption ==
    /\ {Flush, Gap, Second, Clips, LastTick, MaxKeys} \subseteq Nat
    /\ Gap >= 2 /\ Step \in Nat \ {0} /\ Clips > 0
    /\ Kills \subseteq Nat /\ Targets \subseteq Nat /\ Margins \subseteq Nat \X Nat
    /\ Kills # {} /\ IsFiniteSet(Kills) /\ \A k \in Kills : k <= LastTick
    /\ \A t \in Targets : t < LastTick

VARIABLES
    script,   \* "batch" or "manual"
    windows,  \* batch: the clips of a demo, sorted by start
    pass,     \* batch: the pass that plays
    takes,    \* batch: ticks at which each clip was started, stopped, finalized
    target, kills, \* manual: the lead-in, the distinct kill ticks
    armed,    \* manual: seek aliases that are not the no-op; 0 is tf2frag_manual_ready
    restore,  \* manual: tf2frag_manual_restore_campath is armed
    nextKill, \* manual: tf2frag_manual_next_kill
    tick, todo, paused, \* the player; actions of this tick that have not run
    over,     \* TF2 has quit
    keys,     \* bound
    atStart, meddled \* history: ready since the last restart; keys before that

batch  == <<windows, pass, takes>>
aliases == <<armed, restore, nextKill>>
player == <<tick, todo, paused>>
vars == <<script, batch, target, kills, aliases, player, over, keys, atStart, meddled>>

Larger(a, b) == IF a > b THEN a ELSE b
Never == -1

------------------------------------------------------------------------------
\* The passes of a batch.

ClipWindow(first, last, margin) ==
    LET start == Larger(first - margin[1], 0) IN
    [start |-> start, end |-> Larger(last + margin[2], start + 1)]

FinalizeTick(window) == window.end + Flush

\* Mutant: the flush is not part of the window.
MutantCompatible(window, last) == window.start > last.end + Gap

\* A pass takes a window that starts late enough after the last one it has.
Compatible(window, last) == window.start > FinalizeTick(last) + Gap

\* Mutant: only the newest pass is tried.
MutantPartition(ws) ==
    LET Place[i \in 0..Len(ws)] ==
            IF i = 0 THEN <<>>
            ELSE LET before == Place[i - 1]
                     newest == Len(before) IN
                 IF newest = 0 THEN <<<<i>>>>
                 ELSE IF Compatible(ws[i], ws[before[newest][Len(before[newest])]])
                      THEN [before EXCEPT ![newest] = Append(@, i)]
                      ELSE Append(before, <<i>>)
    IN Place[Len(ws)]

\* Mutant: a window is compared with the first one of a pass.
MutantPartitionFirst(ws) ==
    LET Place[i \in 0..Len(ws)] ==
            IF i = 0 THEN <<>>
            ELSE LET before == Place[i - 1]
                     fits == {p \in DOMAIN before : Compatible(ws[i], ws[before[p][1]])} IN
                 IF fits = {} THEN Append(before, <<i>>)
                 ELSE LET first == CHOOSE p \in fits : \A q \in fits : p <= q IN
                      [before EXCEPT ![first] = Append(@, i)]
    IN Place[Len(ws)]

\* The passes whose last window lets window i in.
Fitting(ws, passes, i) ==
    {p \in DOMAIN passes : Compatible(ws[i], ws[passes[p][Len(passes[p])]])}

\* Window i goes to the first pass that takes it, else to a new one.
Placed(ws, passes, i) ==
    LET fits == Fitting(ws, passes, i) IN
    IF fits = {} THEN Append(passes, <<i>>)
    ELSE LET first == CHOOSE p \in fits : \A q \in fits : p <= q IN
         [passes EXCEPT ![first] = Append(@, i)]

Partition(ws) ==
    LET Place[i \in 0..Len(ws)] == IF i = 0 THEN <<>> ELSE Placed(ws, Place[i - 1], i)
    IN Place[Len(ws)]

Passes == Partition(windows)

Action(at, does, arg) == [at |-> at, does |-> does, arg |-> arg]

\* Mutant: the seek goes one tick too far.
MutantClipActions(clips, n) ==
    LET clip == clips[n]
        w    == windows[clip]
        seek == IF n = 1 THEN 2 ELSE FinalizeTick(windows[clips[n - 1]]) + 2 IN
    {Action(w.start + 1, "start", clip), Action(w.end, "stop", clip),
     Action(FinalizeTick(w), "finalize", clip)}
    \cup IF w.start > seek THEN {Action(seek, "goto", w.start + 1)} ELSE {}

\* The actions for the n-th clip of a pass.
ClipActions(clips, n) ==
    LET clip == clips[n]
        w    == windows[clip]
        seek == IF n = 1 THEN 2 ELSE FinalizeTick(windows[clips[n - 1]]) + 2 IN
    {Action(w.start + 1, "start", clip), Action(w.end, "stop", clip),
     Action(FinalizeTick(w), "finalize", clip)}
    \cup IF w.start > seek THEN {Action(seek, "goto", w.start)} ELSE {}

VdmText(clips, last) ==
    LET end == FinalizeTick(windows[clips[Len(clips)]]) IN
    (UNION {ClipActions(clips, n) : n \in DOMAIN clips})
    \cup {IF last THEN Action(end + 3, "quit", 0) ELSE Action(end + 2, "playdemo", 0)}

\* vdm_text refuses a pass whose windows are too close.
Refused(clips) ==
    \E n \in 2..Len(clips) : ~Compatible(windows[clips[n]], windows[clips[n - 1]])

------------------------------------------------------------------------------
\* The safe seek of a manual session.

\* Mutant: one seek whatever the distance.
MutantSeekTargets(to) == IF to = 0 THEN <<>> ELSE <<to>>

SeekTargets(to) ==
    [n \in 1..((to + Step - 1) \div Step) |-> IF n * Step < to THEN n * Step ELSE to]

Cue(kill) == Larger(kill - Second, target)
KillOrder == CHOOSE seq \in [1..Cardinality(kills) -> kills] :
                \A i, j \in DOMAIN seq : i < j => seq[i] < seq[j]

\* The tick of the n-th seek: the first one, or that after the seek before.
SeekAt(n) == IF n = 1 THEN 1 ELSE SeekTargets(target)[n - 1] + 1

ManualVdm ==
    {Action(SeekAt(n), "seek", n) : n \in DOMAIN SeekTargets(target)}
    \cup {Action(target + 1, "ready", 0)}
    \cup {Action(Cue(kill) + 1, "restore", 0) : kill \in kills}

\* Mutant: the restart does not arm the pause at the lead-in.
MutantArmAll == armed' = DOMAIN SeekTargets(target)

ArmAll == armed' = {0} \cup DOMAIN SeekTargets(target)

------------------------------------------------------------------------------
\* The player.

Script == IF script = "manual" THEN ManualVdm
          ELSE VdmText(Passes[pass], pass = Len(Passes))

At(t) == {action \in Script : action.at = t}

Play ==
    /\ ~over /\ ~paused /\ todo = {} /\ tick < LastTick
    /\ tick' = tick + 1 /\ todo' = At(tick + 1)
    /\ UNCHANGED <<script, batch, target, kills, aliases, paused, over, keys, atStart, meddled>>

\* The actions left of this tick, and those of the tick it lands on.
Jump(to, rest) == tick' = to /\ todo' \in {rest, rest \cup At(to)}

\* An action of this tick runs.
Fires(action, does) == action \in todo /\ action.does = does

SkipAhead(action) ==
    /\ Fires(action, "goto") /\ Jump(action.arg, todo \ {action})
    /\ UNCHANGED <<script, batch, target, kills, aliases, paused, over, keys, atStart, meddled>>

BatchFrame(action) ==
    /\ todo' = todo \ {action}
    /\ UNCHANGED <<script, windows, target, kills, aliases, paused, keys, atStart, meddled>>

\* The CFG of the clip starts or stops the recording; the third is an echo.
Mark(action) ==
    /\ \E mark \in {"start", "stop", "finalize"} :
         Fires(action, mark) /\ takes' = [takes EXCEPT ![action.arg][mark] = tick]
    /\ BatchFrame(action) /\ UNCHANGED <<pass, tick, over>>

PlayNextPass(action) ==
    /\ Fires(action, "playdemo") /\ pass' = pass + 1 /\ tick' = 0 /\ todo' = {}
    /\ UNCHANGED <<script, windows, takes, target, kills, aliases, paused, over, keys,
                   atStart, meddled>>

Quit(action) ==
    /\ Fires(action, "quit") /\ over' = TRUE /\ BatchFrame(action)
    /\ UNCHANGED <<pass, takes, tick>>

\* Mutant: the alias stays what it was.
MutantSeekAlias(action) ==
    /\ Fires(action, "seek")
    /\ IF action.arg \in armed THEN Jump(SeekTargets(target)[action.arg], todo \ {action})
                               ELSE todo' = todo \ {action} /\ UNCHANGED tick
    /\ UNCHANGED <<script, batch, target, kills, aliases, paused, over, keys, atStart, meddled>>

\* An alias that has fired becomes the no-op.
SeekAlias(action) ==
    /\ Fires(action, "seek")
    /\ IF action.arg \in armed
       THEN armed' = armed \ {action.arg} /\ Jump(SeekTargets(target)[action.arg], todo \ {action})
       ELSE todo' = todo \ {action} /\ UNCHANGED <<armed, tick>>
    /\ UNCHANGED <<script, batch, target, kills, restore, nextKill, paused, over, keys,
                   atStart, meddled>>

ReadyAlias(action) ==
    /\ Fires(action, "ready") /\ todo' = todo \ {action}
    /\ IF 0 \in armed THEN armed' = armed \ {0} /\ paused' = TRUE /\ atStart' = TRUE
                      ELSE UNCHANGED <<armed, paused, atStart>>
    /\ UNCHANGED <<script, batch, target, kills, restore, nextKill, tick, over, keys, meddled>>

RestoreAlias(action) ==
    /\ Fires(action, "restore") /\ todo' = todo \ {action} /\ restore' = FALSE
    /\ UNCHANGED <<script, batch, target, kills, armed, nextKill, tick, paused, over, keys,
                   atStart, meddled>>

------------------------------------------------------------------------------
\* The user of a manual session.

Key == /\ script = "manual" /\ todo = {} /\ keys < MaxKeys /\ keys' = keys + 1
       /\ UNCHANGED <<script, batch, target, kills, over>>

\* Moving or pausing the demo before it has reached the lead-in gets in the script's way.
Meddle == meddled' = (meddled \/ ~atStart)

TogglePause ==
    /\ Key /\ Meddle /\ paused' = ~paused /\ UNCHANGED <<aliases, tick, todo, atStart>>

\* Mutant: no way back from the last kill.
MutantNextKill ==
    /\ Key /\ Meddle
    /\ Jump(Cue(KillOrder[nextKill]), {}) /\ paused' = TRUE
    /\ restore' = TRUE /\ nextKill' = nextKill + 1
    /\ UNCHANGED <<armed, atStart>>

NextKill ==
    /\ Key /\ Meddle
    /\ Jump(Cue(KillOrder[nextKill]), {}) /\ paused' = TRUE
    /\ restore' = TRUE
    /\ nextKill' = IF nextKill = Cardinality(kills) THEN 1 ELSE nextKill + 1
    /\ UNCHANGED <<armed, atStart>>

\* The keys for a second back and a quarter forward, and the Director's seeks.
Seek ==
    /\ Key /\ Meddle
    /\ \E to \in 0..LastTick : Jump(to, {})
    /\ paused' \in BOOLEAN
    /\ UNCHANGED <<aliases, atStart>>

SafeRestart ==
    /\ Key /\ ArmAll /\ tick' = 0 /\ todo' = {} /\ paused' = FALSE /\ atStart' = FALSE
    /\ UNCHANGED <<restore, nextKill, meddled>>

------------------------------------------------------------------------------
Windows ==
    {ws \in UNION {[1..Clips -> {ClipWindow(k[1], k[2], margin) :
                                     k \in {pair \in Kills \X Kills : pair[1] <= pair[2]}}] :
                     margin \in Margins} :
        /\ \A i \in 1..(Clips - 1) : ws[i].start <= ws[i + 1].start
        /\ \A i \in 1..Clips : ws[i].end + Flush + 3 <= LastTick}

NoTake == [start |-> Never, stop |-> Never, finalize |-> Never]

Init ==
    /\ \/ /\ script = "batch" /\ windows \in Windows
          /\ target = 0 /\ kills = {} /\ armed = {}
       \/ /\ script = "manual" /\ windows = <<>>
          /\ target \in Targets
          /\ kills \in {ks \in SUBSET Kills : ks # {} /\ \A k \in ks : target <= k}
          /\ armed = {0} \cup DOMAIN SeekTargets(target)
    /\ pass = 1 /\ takes = [c \in 1..Clips |-> NoTake]
    /\ restore = FALSE /\ nextKill = 1
    /\ tick = 0 /\ todo = {} /\ paused = FALSE /\ over = FALSE
    /\ keys = 0 /\ atStart = FALSE /\ meddled = FALSE

Player ==
    \/ Play
    \/ \E action \in todo :
         \/ SkipAhead(action) \/ Mark(action) \/ PlayNextPass(action) \/ Quit(action)
         \/ SeekAlias(action) \/ ReadyAlias(action) \/ RestoreAlias(action)
User == TogglePause \/ NextKill \/ Seek \/ SafeRestart
Next == Player \/ User

\* The player plays on.
Spec == Init /\ [][Next]_vars /\ WF_vars(Player)

------------------------------------------------------------------------------
TypeOK ==
    /\ pass \in 1..Larger(Len(Passes), 1)
    /\ tick \in 0..LastTick /\ keys \in 0..MaxKeys
    /\ todo \subseteq At(tick)
    /\ \A c \in 1..Clips : \A mark \in DOMAIN NoTake : takes[c][mark] \in Nat \cup {Never}
    /\ armed \subseteq {0} \cup DOMAIN SeekTargets(target)
    /\ nextKill \in 1..Larger(Cardinality(kills), 1)
    /\ {restore, paused, over, atStart, meddled} \subseteq BOOLEAN

Open(c) == takes[c].start # Never /\ takes[c].finalize = Never

(* A clip is not started while HLAE still writes another one: the flush is   *)
(* part of the window (partition_recording_windows, recording.rs 3261).      *)
OneAtATime == \A c, d \in 1..Clips : Open(c) /\ Open(d) => c = d

(* The passes are as few as can be: as many as windows that are wanted at    *)
(* one moment (recording.rs 3239-3241).                                      *)
FewestPasses ==
    script = "batch" =>
        \E i \in 1..Clips :
            Len(Passes) = Cardinality({j \in 1..i : ~(j < i /\ Compatible(windows[i], windows[j]))})

(* vdm_text never meets the overlap that it refuses (recording.rs 3574).     *)
NeverRefused == script = "batch" => \A p \in DOMAIN Passes : ~Refused(Passes[p])

(* Every clip of a batch is recorded from its lead-in to its outro, in one   *)
(* of the passes, and TF2 quits (recording.rs 3239-3241).                    *)
AllTaken ==
    script = "batch" =>
        <>(over /\ \A c \in 1..Clips :
             takes[c] = [start |-> windows[c].start + 1, stop |-> windows[c].end,
                         finalize |-> FinalizeTick(windows[c])])

(* The script of a manual session moves the demo by MANUAL_SEEK_STEP_TICKS   *)
(* at most (MANUAL_HLAE_CAMERA_GUIDE.md 12 and 27).                          *)
ShortHops == [][script = "manual" /\ keys' = keys => tick' - tick <= Step]_vars

(* Once the demo has been paused at the lead-in, going back and playing over *)
(* the ticks of the safe seek does not start it again.                       *)
NoSurpriseJump ==
    [][script = "manual" /\ atStart /\ ~meddled /\ keys' = keys => tick' \in {tick, tick + 1}]_vars

(* A start, and every safe restart, ends up paused at the lead-in unless the *)
(* user moves or pauses the demo before.                                     *)
GetsReady == (script = "manual" /\ ~atStart) ~> (atStart \/ meddled)
==============================================================================
