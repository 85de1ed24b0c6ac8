---------------------------- MODULE DirectorMailbox ----------------------------
(***************************************************************************)
(* The Director's command queue (DirectorControl::CfgMailbox): one action  *)
(* at a time is written into a ring of CFG slots, TF2's polling alias      *)
(* executes the slot its cursor points at and echoes the action's sequence *)
(* number into the console log, and the Director's telemetry timer reads   *)
(* the log, retires the slot and writes the next action.                   *)
(* director/src/main.rs: DirectorActionQueue and the telemetry timer;      *)
(* app/src/recording.rs: the aliases of manual_hotkey_cfg.                 *)
(***************************************************************************)
EXTENDS Naturals, Sequences

CONSTANTS
    Slots,         \* DIRECTOR_ACTION_SLOTS (64 in the code)
    MaxActions,    \* bound on requests
    MaxReloads,    \* bound on safe restarts of the demo
    MaxRepeats,    \* bound on actions that TF2 carries out again
    MaxFaults      \* bound on failing file calls, but for the overwrites

ASSUME MailboxAssumption ==
    /\ Slots \in Nat /\ Slots > 1
    /\ MaxActions \in Nat /\ MaxReloads \in Nat
    /\ MaxRepeats \in Nat /\ MaxFaults \in Nat

VARIABLES
    requested, \* requests so far; an action is its number
    pending,   \* the Director's queue
    inFlight,  \* the action written to a slot and not acknowledged
    nextSlot, nextSeq, transport,
    ready,     \* demo_ready, the Director's belief
    slot,      \* what each CFG slot file holds
    log,       \* lines of the console log that the Director has not read
    cursor,    \* TF2's alias tf2frag_director_poll_action
    polling,   \* TF2's alias tf2frag_director_poll is the loop
    key,       \* a press of the emergency key is on its way to TF2
    demo,      \* "loading" or "loaded"
    probe,     \* TF2's wait probe has not answered yet
    executed, reported, dropped, spoiled, repeats, \* history: see MailboxContract
    reloads, faults

director == <<pending, inFlight, nextSlot, nextSeq, transport, ready>>
game     == <<cursor, polling, demo, probe>>
history  == <<executed, reported, dropped, spoiled, repeats>>
bounds   == <<reloads, faults>>
vars     == <<requested, director, slot, log, game, key, history, bounds>>

SlotIds == 0..(Slots - 1)
Actions == 1..MaxActions

Nothing    == [action |-> 0, seq |-> 0]
SlotFile   == [action : Actions, seq : Nat] \cup {Nothing}
NoAction   == [none |-> TRUE]
InFlight   == [action : Actions, seq : Nat, slot : SlotIds]
Transports == {"ManualKey", "PollPending", "Polling", "InputFallback"}

Line(kind)      == [line |-> kind, seq |-> 0]
AckLine(seq)    == [line |-> "ack", seq |-> seq]
Reloading       == Line("reload")       \* TF2FRAG_MANUAL_SAFE_RESTART_FROM_ZERO
PausedAtStart   == Line("ready")        \* TF2FRAG_MANUAL_PAUSED_AT_START
PollReady       == Line("pollReady")
PollUnavailable == Line("pollUnavailable")
Lines == [line : {"reload", "ready", "pollReady", "pollUnavailable", "ack"}, seq : Nat]

\* Mutant of NextSlot: the slots are not a ring.
MutantNextSlot(s) == s + 1

NextSlot(s) == (s + 1) % Slots

\* The windows open once the log says that the demo is loaded; the timer then
\* reads the log from its beginning, with the wait probe still to answer.
Init ==
    /\ requested = 0
    /\ pending = <<>> /\ inFlight = NoAction
    /\ nextSlot = 0 /\ nextSeq = 1
    /\ transport \in {"PollPending", "ManualKey"} \* CfgMailbox, HotkeysOnly
    /\ ready = TRUE
    /\ slot = [s \in SlotIds |-> Nothing]
    /\ log = <<PausedAtStart>>
    /\ cursor = 0 /\ polling = FALSE /\ key = FALSE
    /\ demo = "loaded" /\ probe = TRUE
    /\ executed = <<>> /\ reported = <<>> /\ dropped = {}
    /\ spoiled = FALSE /\ repeats = 0
    /\ reloads = 0 /\ faults = 0

-----------------------------------------------------------------------------
(* The Director: DirectorActionQueue *)

NoFault == UNCHANGED faults
Fault   == faults < MaxFaults /\ faults' = faults + 1

\* Mutant of WriteSlot: the head of the queue is looked at, not taken.
MutantWriteSlot(queue, disk, at) ==
    /\ NoFault
    /\ slot' = [disk EXCEPT ![at] = [action |-> Head(queue), seq |-> nextSeq]]
    /\ inFlight' = [action |-> Head(queue), seq |-> nextSeq, slot |-> at]
    /\ pending' = queue
    /\ nextSeq' = nextSeq + 1
    /\ UNCHANGED dropped

\* start_next writes the head of the queue into slot `at`.
WriteSlot(queue, disk, at) ==
    /\ NoFault
    /\ slot' = [disk EXCEPT ![at] = [action |-> Head(queue), seq |-> nextSeq]]
    /\ inFlight' = [action |-> Head(queue), seq |-> nextSeq, slot |-> at]
    /\ pending' = Tail(queue)
    /\ nextSeq' = nextSeq + 1
    /\ UNCHANGED dropped

\* The directory cannot be made: `?` leaves with the action already popped.
DirectoryFails(queue, disk) ==
    /\ Fault
    /\ slot' = disk /\ inFlight' = NoAction
    /\ pending' = Tail(queue)
    /\ dropped' = dropped \cup {Head(queue)}
    /\ UNCHANGED nextSeq

\* The slot cannot be replaced: the action goes back to the front of the queue
\* and waits there until the next request.
WriteFails(queue, disk) ==
    /\ Fault
    /\ slot' = disk /\ inFlight' = NoAction
    /\ pending' = queue
    /\ nextSeq' = nextSeq + 1
    /\ UNCHANGED dropped

StartNext(queue, disk, at) ==
    IF queue = <<>>
    THEN /\ slot' = disk /\ inFlight' = NoAction /\ pending' = queue
         /\ UNCHANGED <<nextSeq, dropped, faults>>
    ELSE \/ WriteSlot(queue, disk, at)
         \/ DirectoryFails(queue, disk)
         \/ WriteFails(queue, disk)

\* trigger_input_fallback presses the key for the user; TF2 gets it only while
\* it has the focus.
PressKeyIf(triggered) == key' \in IF triggered THEN {key, TRUE} ELSE {key}

\* enqueue, from a button of the panel.  Only the quit button works while the
\* demo loads.
Enqueue ==
    /\ requested < MaxActions
    /\ requested' = requested + 1
    /\ LET queue == Append(pending, requested')
       IN IF inFlight = NoAction
          THEN StartNext(queue, slot, nextSlot)
          ELSE /\ pending' = queue
               /\ UNCHANGED <<inFlight, nextSeq, slot, dropped, faults>>
    /\ PressKeyIf(inFlight = NoAction /\ inFlight' # NoAction
                  /\ transport = "InputFallback")
    /\ UNCHANGED <<nextSlot, transport, ready, log, game, executed, reported, spoiled,
                   repeats, reloads>>

\* The consumed slot is overwritten with a comment.  That it cannot be is
\* ignored: the slot keeps the action it holds.
Retired == {[slot EXCEPT ![inFlight.slot] = Nothing], slot}

\* Mutant of Acknowledge: the next action waits for the next request.
MutantAcknowledge ==
    /\ nextSlot' = NextSlot(inFlight.slot)
    /\ reported' = Append(reported, inFlight.action)
    /\ slot' \in Retired /\ inFlight' = NoAction
    /\ spoiled' = (spoiled \/ slot' = slot)
    /\ UNCHANGED <<pending, nextSeq, dropped, faults>>

\* acknowledge, with the awaited sequence number: retire the slot, report the
\* action complete and start the next one.
Acknowledge ==
    /\ nextSlot' = NextSlot(inFlight.slot)
    /\ reported' = Append(reported, inFlight.action)
    /\ \E disk \in Retired :
          /\ spoiled' = (spoiled \/ disk = slot)
          /\ StartNext(pending, disk, NextSlot(inFlight.slot))

\* acknowledge of anything else, or no acknowledgement.
KeepWaiting ==
    UNCHANGED <<nextSlot, reported, pending, inFlight, nextSeq, slot, dropped, spoiled,
                faults>>

\* set_poll_available
PollAnswer(lines) ==
    transport' = CASE transport = "ManualKey"   -> transport
                   [] PollUnavailable \in lines -> "InputFallback"
                   [] PollReady \in lines       -> "Polling"
                   [] OTHER                     -> transport

\* Mutant of BelievesReady: only this poll's lines count.
MutantBelievesReady(lines) ==
    PausedAtStart \in lines

\* demo_ready: the loading line is processed before the ready line, whichever
\* came first in the log.
BelievesReady(lines) ==
    PausedAtStart \in lines \/ (ready /\ Reloading \notin lines)

\* The telemetry timer reads the complete lines the file has by now into one
\* TelemetryPoll.  While the demo loads it stops before the acknowledgements.
ReadLog ==
    \E n \in 1..Len(log) :
       LET lines   == {log[i] : i \in 1..n}
           settled == /\ BelievesReady(lines)
                      /\ inFlight # NoAction
                      /\ AckLine(inFlight.seq) \in lines
       IN /\ log' = SubSeq(log, n + 1, Len(log))
          /\ ready' = BelievesReady(lines)
          /\ PollAnswer(lines)
          /\ IF settled THEN Acknowledge ELSE KeepWaiting
          /\ PressKeyIf(/\ transport' = "InputFallback"
                        /\ \/ inFlight # NoAction /\ PollUnavailable \in lines
                           \/ settled /\ inFlight' # NoAction)
          /\ UNCHANGED <<requested, game, executed, repeats, reloads>>

-----------------------------------------------------------------------------
(* TF2: the aliases of manual_hotkey_cfg *)

Executed(a) == \E i \in DOMAIN executed : executed[i] = a

\* executed lists the actions as they are carried out first, repeats counts the
\* other times.
CarryOut(a) ==
    \/ /\ ~ Executed(a)
       /\ executed' = Append(executed, a) /\ UNCHANGED repeats
    \/ /\ Executed(a) /\ repeats < MaxRepeats
       /\ repeats' = repeats + 1 /\ UNCHANGED executed

\* Mutant of ExecuteSlot: the alias is not advanced.
MutantExecuteSlot ==
    IF slot[cursor] = Nothing
    THEN UNCHANGED <<cursor, executed, repeats, log>>
    ELSE /\ cursor' = cursor
         /\ CarryOut(slot[cursor].action)
         /\ log' = Append(log, AckLine(slot[cursor].seq))

\* exec of the slot: it advances the alias, runs the action and echoes the
\* acknowledgement, in one command buffer.
ExecuteSlot ==
    IF slot[cursor] = Nothing
    THEN UNCHANGED <<cursor, executed, repeats, log>>
    ELSE /\ cursor' = NextSlot(cursor)
         /\ CarryOut(slot[cursor].action)
         /\ log' = Append(log, AckLine(slot[cursor].seq))

\* tf2frag_director_poll_loop
PollLoop ==
    /\ polling /\ slot[cursor] # Nothing
    /\ ExecuteSlot
    /\ UNCHANGED <<requested, director, slot, polling, demo, probe, key, reported,
                   dropped, spoiled, bounds>>

\* tf2frag_director_execute, the emergency key.
KeyArrives ==
    /\ key /\ key' = FALSE
    /\ ExecuteSlot
    /\ UNCHANGED <<requested, director, slot, polling, demo, probe, reported,
                   dropped, spoiled, bounds>>

UserPressesKey ==
    /\ ~ key /\ key' = TRUE
    /\ UNCHANGED <<requested, director, slot, log, game, history, bounds>>

\* tf2frag_manual_clip_start: the poller stops and the demo loads again.
SafeRestart ==
    /\ reloads < MaxReloads /\ reloads' = reloads + 1
    /\ polling' = FALSE /\ demo' = "loading"
    /\ log' = Append(log, Reloading)
    /\ UNCHANGED <<requested, director, slot, cursor, probe, key, history, faults>>

\* tf2frag_manual_ready: the seek is over; say so and probe for wait.
DemoLoaded ==
    /\ demo = "loading" /\ demo' = "loaded"
    /\ probe' = TRUE
    /\ log' = Append(log, PausedAtStart)
    /\ UNCHANGED <<requested, director, slot, cursor, polling, key, history, bounds>>

\* tf2frag_director_wait_result, a frame later.
WaitProbe ==
    /\ probe /\ probe' = FALSE
    /\ \/ polling' = TRUE /\ log' = Append(log, PollReady)
       \/ polling' = FALSE /\ log' = Append(log, PollUnavailable)
    /\ UNCHANGED <<requested, director, slot, cursor, demo, key, history, bounds>>

Next ==
    \/ Enqueue \/ ReadLog
    \/ PollLoop \/ KeyArrives \/ UserPressesKey
    \/ SafeRestart \/ DemoLoaded \/ WaitProbe

Spec == Init /\ [][Next]_vars

\* The timer fires every 15 ms, TF2 runs its command buffer, and the user
\* presses the key the panel asks for while an action waits for it.
Fairness ==
    /\ WF_vars(ReadLog)
    /\ WF_vars(PollLoop) /\ WF_vars(KeyArrives)
    /\ WF_vars(WaitProbe) /\ WF_vars(DemoLoaded)
    /\ WF_vars(UserPressesKey /\ ~ polling /\ inFlight # NoAction)

FairSpec == Spec /\ Fairness

-----------------------------------------------------------------------------
(* Properties *)

TypeOK ==
    /\ requested \in 0..MaxActions
    /\ pending \in Seq(Actions)
    /\ inFlight \in InFlight \cup {NoAction}
    /\ nextSlot \in SlotIds /\ nextSeq \in Nat
    /\ transport \in Transports /\ ready \in BOOLEAN
    /\ slot \in [SlotIds -> SlotFile]
    /\ log \in Seq(Lines)
    /\ cursor \in SlotIds /\ polling \in BOOLEAN /\ key \in BOOLEAN
    /\ demo \in {"loading", "loaded"} /\ probe \in BOOLEAN
    /\ executed \in Seq(Actions) /\ reported \in Seq(Actions)
    /\ dropped \subseteq Actions
    /\ spoiled \in BOOLEAN /\ repeats \in 0..MaxRepeats
    /\ reloads \in 0..MaxReloads /\ faults \in 0..MaxFaults

\* Whatever the poller, the emergency key, safe restarts and failing writes do,
\* TF2 first carries the actions out in order, and the Director reports an
\* action complete only after that; TF2 carries one out again only if a
\* consumed slot could not be overwritten before (start_next, acknowledge).
Contract == INSTANCE MailboxContract

ContractSpec == Contract!Spec

\* The Director and TF2 count slots separately and agree: TF2 looks at the slot
\* in flight until it has executed it, and at the one the Director will write
\* next from then on.  Only an action carried out again, from a slot that could
\* not be overwritten, parts them (acknowledge).
CursorsAgree ==
    repeats = 0 =>
        IF inFlight = NoAction THEN cursor = nextSlot
        ELSE cursor = IF Executed(inFlight.action)
                      THEN NextSlot(inFlight.slot) ELSE inFlight.slot

\* An action TF2 has acknowledged does not stay in flight: its acknowledgement
\* is still to be read as long as the Director waits for it.
AckStillToCome ==
    inFlight # NoAction /\ Executed(inFlight.action)
        => \E i \in DOMAIN log : log[i] = AckLine(inFlight.seq)

\* An acknowledgement is not lost as long as the demo has not been restarted,
\* whatever slots TF2 runs again (note_ack, the order of the telemetry timer's
\* steps).
AckComesUndisturbed == reloads = 0 => AckStillToCome

\* No write of an action has failed, the demo has not been restarted and no
\* slot has run twice.
Undisturbed == reloads = 0 /\ faults = 0 /\ repeats = 0

\* Every action asked for is reported complete, as long as nothing of the kind
\* happens; a slot that could not be overwritten does not matter before TF2
\* comes round to it.
EveryActionCompletes ==
    []Undisturbed =>
        \A a \in Actions :
            requested >= a ~> \E i \in DOMAIN reported : reported[i] = a

=============================================================================
