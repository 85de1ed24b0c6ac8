------------------------------ MODULE KeyframeSync ------------------------------
(***************************************************************************)
(* The Director's copy of HLAE's camera path.  TF2 runs the Director's     *)
(* commands and prints the table of keyframes into the console log; the    *)
(* telemetry timer reads the log, decides which tables to believe and asks *)
(* again after a change.  director/src/main.rs: keyframe actions, log      *)
(* tail, KeyframeSnapshotGate, telemetry timer, RCON worker.               *)
(* A keyframe is its tick, its id is its position in the table.  HLAE and  *)
(* TF2 are external: a print in the command buffer of a change shows the   *)
(* table before or after it, and the prints that follow a seek may come    *)
(* out empty although the path is intact.                                  *)
(***************************************************************************)
EXTENDS Integers, FiniteSetsExt, Sequences, Functions

CONSTANTS
    Ticks,     \* ticks at which keyframes may be
    MaxActs,   \* bound on what the user does
    MaxRconActs, \* the same in a session with RCON
    MaxBlanks, \* bound on the empty prints that follow one seek
    MaxUnread, \* bound on the lines unread when TF2 writes more
    MaxFaults  \* bound on RCON exchanges that fail

ASSUME KeyframeAssumption ==
    /\ Ticks \subseteq Nat \ {0} /\ IsFiniteSet(Ticks)
    /\ MaxActs \in Nat /\ MaxRconActs \in 0..MaxActs /\ MaxBlanks \in Nat /\ MaxUnread \in Nat
    /\ MaxFaults \in Nat

VARIABLES
    path, blanks, demo,         \* HLAE and TF2
    direct,                     \* DirectorControl::LocalRcon, not CfgMailbox
    pending,                    \* commands for the mailbox or the RCON worker
    sent, inbox,                \* the worker waits for an answer, TF2's sockets
    log,                        \* lines that the Director has not read
    ready,                      \* demo_ready
    verified, permission,       \* KeyframeSnapshotGate
    retries, due,               \* transient_empty_retries, keyframe_refresh_due
    shown, selected,            \* the markers, selected_keyframe
    acts, faults,
    ran, notSent,               \* history: runs of each command, those called "NOT SENT"
    deleted, hurried, patient, wrong \* history: see the properties

game     == <<path, blanks, demo>>
channel  == <<pending, sent, inbox>>
gate     == <<verified, permission>>
refresh  == <<retries, due>>
panel    == <<shown, selected>>
history  == <<deleted, hurried, patient, wrong>>
vars == <<game, direct, channel, log, ready, gate, refresh, panel,
          acts, faults, ran, notSent, history>>

Tables == SUBSET Ticks
NoKey  == [id |-> -1, tick |-> 0]
Id(table, tick) == Cardinality({other \in table : other < tick})
Keys(table)     == {[id |-> Id(table, tick), tick |-> tick] : tick \in table}
AtId(table, id) == {key.tick : key \in {k \in Keys(table) : k.id = id}}

Sync == [does |-> "sync", number |-> 0, id |-> -1, tick |-> 0]
Command(does, key) == [does |-> does, number |-> acts + 1, id |-> key.id, tick |-> key.tick]
Kinds == {"delete", "move", "goto", "frag", "load", "sync"}

Line(kind)     == [line |-> kind, rows |-> {}]
Printout(rows) == <<[line |-> "table", rows |-> rows]>>

TypeOK ==
    /\ path \in Tables /\ shown \in Tables /\ blanks \in 0..MaxBlanks
    /\ demo \in {"loading", "loaded"} /\ direct \in BOOLEAN
    /\ \A cmd \in Range(pending) \cup Range(inbox) :
          /\ cmd.does \in Kinds
          /\ cmd.does \in {"delete", "move", "goto"} => cmd.id \in 0..(Cardinality(Ticks) - 1)
    /\ \A line \in Range(log) : line.rows \in Tables
    /\ {sent, ready, verified, permission, due, deleted, hurried, patient, wrong} \subseteq BOOLEAN
    /\ retries \in 0..2 /\ acts \in 0..MaxActs /\ faults \in 0..MaxFaults
    /\ ran \in [1..MaxActs -> Nat] /\ notSent \subseteq 1..MaxActs

\* The Director's windows open when the log holds the line of the lead-in, which
\* its own tail has not read yet.
Init ==
    /\ path = {} /\ blanks = 0 /\ demo = "loaded" /\ direct \in BOOLEAN
    /\ pending = <<>> /\ sent = FALSE /\ inbox = <<>>
    /\ log = <<Line("ready")>> \o Printout({})
    /\ ready = TRUE /\ verified = FALSE /\ permission = FALSE
    /\ retries = 0 /\ due = FALSE /\ shown = {} /\ selected = NoKey
    /\ acts = 0 /\ faults = 0 /\ ran = [n \in 1..MaxActs |-> 0] /\ notSent = {}
    /\ deleted = FALSE /\ hurried = FALSE /\ patient = TRUE /\ wrong = FALSE

\* Nothing is on its way and the markers are the path.
Settled ==
    /\ ready /\ demo = "loaded" /\ blanks = 0 /\ shown = path /\ ~due
    /\ pending = <<>> /\ inbox = <<>> /\ log = <<>> /\ ~sent

Act == acts < (IF direct THEN MaxRconActs ELSE MaxActs) /\ acts' = acts + 1 /\ patient' = (patient /\ Settled)

------------------------------------------------------------------------------
\* The user at the Director.

Dispatch(cmd) == pending' = Append(pending, cmd)

SelectKey ==
    /\ ready /\ \E key \in Keys(shown) : selected # key /\ selected' = key
    /\ UNCHANGED <<game, direct, channel, log, ready, gate, refresh, shown,
                   acts, faults, ran, notSent, history>>

Dismiss ==
    /\ selected # NoKey /\ selected' = NoKey
    /\ UNCHANGED <<game, direct, channel, log, ready, gate, refresh, shown,
                   acts, faults, ran, notSent, history>>

EditKey ==
    /\ Act /\ ready /\ selected # NoKey
    /\ \E does \in {"delete", "move", "goto"} : Dispatch(Command(does, selected))
    /\ selected' = NoKey
    /\ UNCHANGED <<game, direct, sent, inbox, log, ready, gate, refresh, shown,
                   faults, ran, notSent, deleted, hurried, wrong>>

GoToFrag ==
    /\ Act /\ ready /\ Dispatch(Command("frag", NoKey)) /\ selected' = NoKey
    /\ UNCHANGED <<game, direct, sent, inbox, log, ready, gate, refresh, shown,
                   faults, ran, notSent, deleted, hurried, wrong>>

LoadCampath ==
    /\ Act /\ Dispatch(Command("load", NoKey))
    /\ UNCHANGED <<game, direct, sent, inbox, log, ready, gate, refresh, panel,
                   faults, ran, notSent, deleted, hurried, wrong>>

------------------------------------------------------------------------------
\* TF2 and HLAE.

\* What a print shows, and how many of the next ones may still be empty.
Printed(tables, left, rows) ==
    IF left > 0
    THEN rows = {} /\ blanks' = left - 1
    ELSE rows \in tables /\ blanks' = 0

Emit(lines) == Len(log) <= MaxUnread /\ log' = log \o lines

AddKey ==
    /\ Act /\ demo = "loaded"
    /\ \E tick \in Ticks \ path, rows \in Tables :
          /\ path' = path \cup {tick}
          /\ Printed({path, path'}, blanks, rows)
          /\ Emit(<<Line("dirty")>> \o Printout(rows))
    /\ UNCHANGED <<demo, direct, channel, ready, gate, refresh, panel, faults,
                   ran, notSent, deleted, hurried, wrong>>

TypeClear ==
    /\ Act /\ demo = "loaded" /\ path # {} /\ path' = {} /\ Emit(<<Line("clear")>>)
    /\ deleted' = TRUE
    /\ UNCHANGED <<blanks, demo, direct, channel, ready, gate, refresh, panel,
                   faults, ran, notSent, hurried, wrong>>

SafeRestart ==
    /\ Act /\ demo = "loaded" /\ demo' = "loading" /\ Emit(<<Line("reload")>>)
    /\ UNCHANGED <<path, blanks, direct, channel, ready, gate, refresh, panel,
                   faults, ran, notSent, deleted, hurried, wrong>>

ManualReady ==
    /\ demo = "loading" /\ demo' = "loaded"
    /\ \E rows \in Tables :
          Printed({path}, blanks, rows) /\ Emit(<<Line("ready")>> \o Printout(rows))
    /\ UNCHANGED <<path, direct, channel, ready, gate, refresh, panel, acts,
                   faults, ran, notSent, history>>

\* The paths that a command may leave.
Outcomes(cmd) ==
    CASE cmd.does = "delete" -> {path \ AtId(path, cmd.id)}
      [] cmd.does = "move" -> IF AtId(path, cmd.id) = {} THEN {path}
                              ELSE {(path \ AtId(path, cmd.id)) \cup {to} : to \in Ticks}
      [] cmd.does = "load" -> {Ticks}
      [] OTHER -> {path}

\* Mutant: loading a path does not ask for a refresh.
MutantMarks(cmd) ==
    CASE cmd.does = "delete" -> <<Line("allow"), Line("dirty")>>
      [] cmd.does \in {"move", "goto"} -> <<Line("dirty")>>
      [] OTHER -> <<>>

Marks(cmd) ==
    CASE cmd.does = "delete" -> <<Line("allow"), Line("dirty")>>
      [] cmd.does \in {"move", "goto", "load"} -> <<Line("dirty")>>
      [] OTHER -> <<>>

Seeks == {"goto", "frag"}

\* The command, and the print that each transport puts behind it.
Run(cmd) ==
    /\ demo = "loaded"
    /\ path' \in Outcomes(cmd)
    /\ \E left \in 0..MaxBlanks, rows \in Tables :
          /\ cmd.does \notin Seeks => left = blanks
          /\ Printed({path, path'}, left, rows)
          /\ Emit(Marks(cmd) \o (IF cmd.does = "sync" THEN Printout(rows) \o Printout(rows)
                                                     ELSE Printout(rows)))
    /\ ran' = IF cmd.number = 0 THEN ran ELSE [ran EXCEPT ![cmd.number] = @ + 1]
    /\ deleted' = (deleted \/ cmd.does = "delete")
    /\ hurried' = (hurried \/ (cmd.does = "frag" /\ ~(shown = path /\ log = <<>> /\ ~due
                                                       /\ blanks = 0)))
    /\ wrong' = (wrong \/ (/\ cmd.does \in {"delete", "move"}
                           /\ AtId(path, cmd.id) # {cmd.tick}))
    /\ UNCHANGED <<demo, direct, ready, gate, refresh, panel, acts, patient>>

\* DirectorMailbox: in order, one after the other.
Mailbox ==
    /\ ~direct /\ pending # <<>> /\ Run(Head(pending)) /\ pending' = Tail(pending)
    /\ UNCHANGED <<sent, inbox, faults, notSent>>

\* A command of RCON is run; its answer reaches the worker if that still waits for it.
RconRuns ==
    /\ inbox # <<>> /\ Run(Head(inbox)) /\ inbox' = Tail(inbox)
    /\ sent' = (sent /\ Len(inbox) > 1)
    /\ UNCHANGED <<pending, faults, notSent>>

------------------------------------------------------------------------------
\* The RCON worker (spawn_direct_action_worker, execute_once).

RconFrame == UNCHANGED <<game, direct, log, ready, gate, refresh, panel, acts,
                         ran, history>>

Send ==
    /\ direct /\ ~sent /\ pending # <<>>
    /\ sent' = TRUE /\ pending' = Tail(pending) /\ inbox' = Append(inbox, Head(pending))
    /\ RconFrame /\ UNCHANGED <<faults, notSent>>

Fault == faults < MaxFaults /\ faults' = faults + 1 /\ RconFrame

\* No connection for DIRECT_CONTROL_READY_TIMEOUT.
Unavailable ==
    /\ direct /\ ~sent /\ pending # <<>> /\ Fault
    /\ pending' = Tail(pending) /\ notSent' = notSent \cup ({Head(pending).number} \ {0})
    /\ UNCHANGED <<sent, inbox>>

\* The connection breaks while the command is being sent.
BreaksSending ==
    /\ direct /\ ~sent /\ pending # <<>> /\ Fault /\ pending' = Tail(pending)
    /\ UNCHANGED <<sent, inbox, notSent>>

\* Mutant: a command without an answer is sent again.
MutantAnswerLate ==
    /\ sent /\ sent' = FALSE /\ Fault /\ pending' = <<inbox[Len(inbox)]>> \o pending
    /\ UNCHANGED <<inbox, notSent>>

\* No answer within IO_TIMEOUT: SentUnconfirmed, TF2 may run the command yet.
AnswerLate ==
    /\ sent /\ sent' = FALSE /\ Fault /\ UNCHANGED <<pending, inbox, notSent>>

------------------------------------------------------------------------------
\* The telemetry timer.

\* One poll merges its lines into flags; of its tables the last one counts.
Poll(lines) ==
    LET kinds == {line.line : line \in Range(lines)} IN
    [tables     |-> {place \in DOMAIN lines : lines[place].line = "table"},
     refreshing |-> kinds \cap {"dirty", "clear"} # {},
     allow      |-> kinds \cap {"allow", "clear"} # {},
     loading    |-> "reload" \in kinds,
     ready      |-> "ready" \in kinds]

NowReady(poll) == poll.ready \/ (ready /\ ~poll.loading)

\* demo_ready is FALSE: whatever else the poll brought is dropped.
ReadWhileLoading(count) ==
    LET poll == Poll(SubSeq(log, 1, count)) IN
    /\ count > 0 /\ ~NowReady(poll)
    /\ ready' = FALSE /\ log' = SubSeq(log, count + 1, Len(log))
    /\ selected' = IF poll.loading THEN NoKey ELSE selected
    /\ UNCHANGED <<game, direct, channel, gate, refresh, shown, acts, faults, ran, notSent,
                   history>>

\* Mutant: an empty table that came three times is believed.
MutantAccept(rows, permitted) == rows # {} \/ ~verified \/ permitted \/ retries = 2

Accept(rows, permitted) == rows # {} \/ ~verified \/ permitted

\* Mutant: no bound on the retries.
MutantAsksAgain(tried) == TRUE

\* An empty table that is not believed is asked for again, twice at most.
AsksAgain(tried) == tried < 2

\* Mutant: a selection whose id is gone is kept.
MutantReselectedGone(key, rows) ==
    IF AtId(rows, key.id) # {} THEN CHOOSE k \in Keys(rows) : k.id = key.id ELSE key

\* Mutant: the selection keeps the tick of an older table.
MutantReselectedStale(key, rows) == IF AtId(rows, key.id) # {} THEN key ELSE NoKey

Reselected(key, rows) ==
    IF key # NoKey /\ AtId(rows, key.id) # {}
    THEN CHOOSE k \in Keys(rows) : k.id = key.id
    ELSE NoKey

ReadAndShow(count, fires) ==
    LET poll      == Poll(SubSeq(log, 1, count))
        permitted == permission \/ poll.allow
        arrived   == poll.tables # {}
        rows      == log[Max(poll.tables)].rows
        accepted  == arrived /\ Accept(rows, permitted)
        tried     == IF poll.refreshing THEN 0 ELSE retries
        again     == arrived /\ ~accepted /\ AsksAgain(tried)
        kept      == IF poll.loading THEN NoKey ELSE selected IN
    /\ count > 0 \/ fires
    /\ NowReady(poll) /\ ready' = TRUE
    /\ fires => due /\ ~poll.refreshing /\ ~again
    /\ log' = SubSeq(log, count + 1, Len(log))
    /\ permission' = (permitted /\ ~accepted)
    /\ IF accepted
       THEN /\ verified' = (rows # {}) /\ shown' = rows /\ retries' = 0
            /\ selected' = Reselected(kept, rows)
       ELSE /\ selected' = kept /\ UNCHANGED <<verified, shown>>
            /\ retries' = IF again THEN tried + 1 ELSE tried
    /\ due' = (again \/ poll.refreshing \/ (due /\ ~fires))
    /\ IF fires THEN Dispatch(Sync) ELSE UNCHANGED pending
    /\ UNCHANGED <<game, direct, sent, inbox, acts, faults, ran, notSent, history>>

Tick == \E count \in 0..Len(log) :
           ReadWhileLoading(count) \/ \E fires \in BOOLEAN : ReadAndShow(count, fires)

------------------------------------------------------------------------------
User == SelectKey \/ Dismiss \/ EditKey \/ GoToFrag \/ LoadCampath
Game == AddKey \/ TypeClear \/ SafeRestart \/ ManualReady \/ Mailbox \/ RconRuns
Rcon == Send \/ Unavailable \/ BreaksSending \/ AnswerLate
Next == User \/ Game \/ Rcon \/ Tick

Spec == Init /\ [][Next]_vars

\* TF2 runs on, the worker works, and the timer reads what there is; the user owes nothing.
FairSpec ==
    /\ Spec
    /\ WF_vars(ManualReady \/ Mailbox \/ RconRuns)
    /\ WF_vars(Send)
    /\ WF_vars(ReadWhileLoading(Len(log)) \/ \E fires \in BOOLEAN : ReadAndShow(Len(log), fires))

------------------------------------------------------------------------------
(* The selection is a marker that is shown: its id and its tick are those of *)
(* one row of the last verified table (reselection, main.rs 692-706).        *)
SelectedIsShown == selected # NoKey => selected \in Keys(shown)

(* Seeks, additions, moves, loads and restarts never erase the markers: only *)
(* a deletion or a clear can (gate, main.rs 2102-2121).                      *)
KeptWithoutDeletion == [][~deleted /\ shown # {} => shown' # {}]_vars

(* Whoever waits for the markers to settle before each action edits and      *)
(* deletes the keyframe that was selected, although the command names a      *)
(* position (main.rs 1475-1520).                                             *)
PatientEditsHit == patient => ~wrong

(* A command runs once at most, and never when the panel said NOT SENT       *)
(* (main.rs 1166-1219).                                                      *)
DeliveredHonestly ==
    \A n \in 1..MaxActs : ran[n] <= 1 /\ (n \in notSent => ran[n] = 0)

(* The markers become the path, whatever prints came too early or came out   *)
(* empty, as long as nothing is deleted, no exchange fails and a frag is not *)
(* sought while an earlier change settles (refresh, main.rs 661-731).        *)
MarkersConverge == [](~deleted /\ ~hurried /\ faults = 0) => <>[](shown = path)

(* A path that stays empty after the deletion of its last keyframe ends up   *)
(* shown as empty (main.rs 344-346).                                         *)
GhostsGo == <>[](patient /\ path = {} /\ faults = 0) => <>[](shown = {})
==============================================================================
