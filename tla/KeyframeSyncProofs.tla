--------------------------- MODULE KeyframeSyncProofs ---------------------------
(***************************************************************************)
(* Proofs about KeyframeSync for any ticks, any number of actions, blank   *)
(* prints and failing exchanges: the types; that the markers are erased by *)
(* a deletion only; that a command runs once at most, and never when the   *)
(* panel said NOT SENT; and that whoever waits edits the keyframe that was *)
(* selected.                                                               *)
(***************************************************************************)
EXTENDS KeyframeSync, SequenceTheorems, FiniteFacts, TLAPS

(* The inductive invariant *)

\* What a command and a line of the log are.
Commands ==
    {cmd \in [does : Kinds, number : 0..MaxActs, id : Int, tick : Int] :
        /\ cmd.number = 0 <=> cmd.does = "sync"
        /\ cmd.does \in {"delete", "move", "goto"} => cmd.id \in 0..(Cardinality(Ticks) - 1)}

Lines    == [line : {"ready", "table", "dirty", "clear", "reload", "allow"}, rows : Tables]
Harmless == [line : {"ready", "table", "dirty", "reload"}, rows : Tables]

Flags ==
    /\ direct \in BOOLEAN /\ sent \in BOOLEAN /\ ready \in BOOLEAN /\ verified \in BOOLEAN
    /\ permission \in BOOLEAN /\ due \in BOOLEAN /\ deleted \in BOOLEAN
    /\ hurried \in BOOLEAN /\ patient \in BOOLEAN /\ wrong \in BOOLEAN

Data ==
    /\ path \in Tables /\ shown \in Tables /\ blanks \in 0..MaxBlanks
    /\ demo \in {"loading", "loaded"}
    /\ retries \in 0..2 /\ acts \in 0..MaxActs /\ faults \in 0..MaxFaults
    /\ ran \in [1..MaxActs -> Nat] /\ notSent \subseteq 1..MaxActs

Queues == pending \in Seq(Commands) /\ inbox \in Seq(Commands)

\* As long as nothing was deleted no empty table is permitted, and no line on
\* its way permits one.
GateInv ==
    /\ log \in Seq(Lines)
    /\ ~deleted => ~permission /\ log \in Seq(Harmless)
    /\ verified <=> shown # {}

\* A number stands for one command.
Once(queue) ==
    \A i, j \in DOMAIN queue : queue[i].number = queue[j].number /\ queue[i].number # 0 => i = j

Apart(queue, cmd) == \A i \in DOMAIN queue : queue[i].number # 0 => queue[i].number # cmd.number

\* A command that waits has not been run, nor been called NOT SENT.
Fresh(queue, last, times, refused) ==
    \A i \in DOMAIN queue : queue[i].number # 0 =>
        /\ queue[i].number <= last /\ queue[i].number \notin refused
        /\ times[queue[i].number] = 0

DeliveryInv ==
    /\ Once(pending) /\ Once(inbox)
    /\ Fresh(pending, acts, ran, notSent) /\ Fresh(inbox, acts, ran, notSent)
    /\ \A i \in DOMAIN pending : Apart(inbox, pending[i])
    /\ \A n \in 1..MaxActs :
          /\ ran[n] <= 1 /\ (n \in notSent => ran[n] = 0)
          /\ n > acts => ran[n] = 0 /\ n \notin notSent

\* The last command is the only one that waits, and it names its keyframe.
Aimed(queue, last, table) ==
    \A i \in DOMAIN queue : queue[i].number # 0 =>
        /\ queue[i].number = last
        /\ queue[i].does \in {"delete", "move"} => AtId(table, queue[i].id) = {queue[i].tick}

PatientInv == patient => ~wrong /\ Aimed(pending, acts, path) /\ Aimed(inbox, acts, path)

IInv == Flags /\ Data /\ Queues /\ GateInv /\ SelectedIsShown /\ DeliveryInv /\ PatientInv


------------------------------------------------------------------------------
(* Tables: a keyframe's id names it. *)

LEMMA TicksType == /\ Ticks \subseteq Nat \ {0} /\ IsFiniteSet(Ticks) /\ MaxActs \in Nat
                   /\ MaxRconActs \in Nat /\ MaxRconActs <= MaxActs /\ MaxBlanks \in Nat
                   /\ MaxUnread \in Nat /\ MaxFaults \in Nat
  BY KeyframeAssumption

LEMMA IdType ==
    ASSUME NEW table \in Tables, NEW tick \in table
    PROVE  Id(table, tick) \in 0..(Cardinality(Ticks) - 1)
<1> DEFINE before == {other \in table : other < tick}
<1>1. tick \in Ticks /\ IsFiniteSet(Ticks \ {tick}) /\ before \subseteq Ticks \ {tick}
  <2>1. tick \in Ticks /\ tick \in Nat /\ IsFiniteSet(Ticks)
    BY TicksType DEF Tables
  <2>2. IsFiniteSet(Ticks \ {tick})
    BY <2>1, FS_RemoveElement
  <2>3. before \subseteq Ticks \ {tick}
    <3> SUFFICES ASSUME NEW other \in table, other < tick PROVE other \in Ticks \ {tick}
      OBVIOUS
    <3> QED BY <2>1 DEF Tables
  <2> QED BY <2>1, <2>2, <2>3
<1>2. /\ Cardinality(Ticks) \in Nat /\ Cardinality(Ticks \ {tick}) = Cardinality(Ticks) - 1
  BY <1>1, TicksType, FS_CardinalityType, FS_RemoveElement
<1>3. /\ IsFiniteSet(before) /\ Cardinality(before) <= Cardinality(Ticks \ {tick})
  BY <1>1, FS_Subset
<1>4. Cardinality(before) \in Nat
  BY <1>3, FS_CardinalityType
<1> QED BY <1>2, <1>3, <1>4 DEF Id

\* A later keyframe has a greater id.
LEMMA IdGrows ==
    ASSUME NEW table \in Tables, NEW a \in table, NEW b \in table, a < b
    PROVE  Id(table, a) < Id(table, b)
<1> DEFINE First(tick) == {other \in table : other < tick}
<1>1. table \subseteq Nat /\ IsFiniteSet(table)
  BY TicksType, FS_Subset DEF Tables
<1>2. First(a) \subseteq First(b) \ {a} /\ a \in First(b)
  <2> SUFFICES ASSUME NEW other \in table, other < a PROVE other < b /\ other # a
    OBVIOUS
  <2> QED BY <1>1
<1>3. IsFiniteSet(First(b)) /\ IsFiniteSet(First(b) \ {a}) /\ IsFiniteSet(First(a))
  <2>1. First(b) \subseteq table /\ First(b) \ {a} \subseteq table /\ First(a) \subseteq table
    OBVIOUS
  <2> HIDE DEF First
  <2> QED BY <1>1, <2>1, FS_Subset
<1> HIDE DEF First
<1>4. /\ Cardinality(First(b)) \in Nat /\ Cardinality(First(a)) \in Nat
      /\ Cardinality(First(b) \ {a}) = Cardinality(First(b)) - 1
  BY <1>2, <1>3, FS_CardinalityType, FS_RemoveElement
<1>5. Cardinality(First(a)) <= Cardinality(First(b) \ {a})
  BY <1>2, <1>3, FS_Subset
<1>6. Cardinality(First(a)) < Cardinality(First(b))
  BY <1>4, <1>5
<1> QED BY <1>6 DEF Id, First

\* The command for a marker names it, as long as the path is what is shown.
LEMMA KeyNames ==
    ASSUME NEW table \in Tables, NEW key \in Keys(table)
    PROVE  /\ AtId(table, key.id) = {key.tick}
           /\ key.id \in 0..(Cardinality(Ticks) - 1) /\ key.id \in Int /\ key.tick \in Int
<1>1. PICK tick \in table : key = [id |-> Id(table, tick), tick |-> tick]
  BY DEF Keys
<1>2. key.id = Id(table, tick) /\ key.tick = tick
  BY <1>1
<1>3. ASSUME NEW k \in Keys(table), k.id = key.id PROVE k.tick = tick
  <2>1. PICK other \in table : k = [id |-> Id(table, other), tick |-> other]
    BY DEF Keys
  <2>2. Id(table, other) = Id(table, tick) /\ k.tick = other
    BY <1>2, <1>3, <2>1
  <2>3. other \in Nat /\ tick \in Nat /\ Id(table, tick) \in Int /\ Id(table, other) \in Int
    BY IdType, TicksType DEF Tables
  <2>4. ~(other < tick) /\ ~(tick < other)
    BY <2>2, <2>3, IdGrows
  <2> QED BY <2>2, <2>3, <2>4
<1>4. AtId(table, key.id) = {key.tick}
  BY <1>2, <1>3 DEF AtId
<1>5. key.id \in 0..(Cardinality(Ticks) - 1)
  BY <1>2, IdType
<1>6. Cardinality(Ticks) \in Nat /\ key.tick \in Int
  BY <1>2, TicksType, FS_CardinalityType DEF Tables
<1> QED BY <1>4, <1>5, <1>6

LEMMA AtIdType == ASSUME NEW table, NEW id PROVE AtId(table, id) \subseteq table
  BY DEF AtId, Keys

\* The selection that is kept is a marker of the new table.
LEMMA ReselectedType ==
    ASSUME NEW key, NEW rows \in Tables
    PROVE  Reselected(key, rows) # NoKey => Reselected(key, rows) \in Keys(rows)
<1> SUFFICES ASSUME key # NoKey, AtId(rows, key.id) # {}
             PROVE  (CHOOSE k \in Keys(rows) : k.id = key.id) \in Keys(rows)
  BY DEF Reselected
<1>1. \E k \in Keys(rows) : k.id = key.id
  BY DEF AtId
<1> QED BY <1>1

------------------------------------------------------------------------------
(* Queues *)

LEMMA Element == ASSUME NEW S, NEW s \in Seq(S), NEW i \in DOMAIN s PROVE s[i] \in S
  BY LenProperties

LEMMA Indices == ASSUME NEW S, NEW s \in Seq(S) PROVE Len(s) \in Nat /\ DOMAIN s = 1..Len(s)
  BY LenProperties

LEMMA Appended ==
    ASSUME NEW S, NEW s \in Seq(S), NEW e \in S
    PROVE  /\ Append(s, e) \in Seq(S) /\ Len(s) \in Nat
           /\ DOMAIN s = 1..Len(s) /\ DOMAIN Append(s, e) = 1..(Len(s) + 1)
           /\ \A i \in 1..Len(s) : Append(s, e)[i] = s[i]
           /\ Append(s, e)[Len(s) + 1] = e
<1>1. /\ Append(s, e) \in Seq(S) /\ Len(Append(s, e)) = Len(s) + 1
      /\ \A i \in 1..Len(s) : Append(s, e)[i] = s[i]
      /\ Append(s, e)[Len(s) + 1] = e
  BY AppendProperties
<1>2. Len(s) \in Nat /\ DOMAIN s = 1..Len(s)
  BY LenProperties
<1>3. DOMAIN Append(s, e) = 1..(Len(s) + 1)
  BY <1>1, LenProperties
<1> QED BY <1>1, <1>2, <1>3

LEMMA Advanced ==
    ASSUME NEW S, NEW s \in Seq(S), s # <<>>
    PROVE  /\ Head(s) \in S /\ Tail(s) \in Seq(S) /\ Len(s) \in Nat /\ Len(s) > 0
           /\ Head(s) = s[1] /\ 1 \in DOMAIN s
           /\ \A i \in DOMAIN Tail(s) : i + 1 \in DOMAIN s /\ Tail(s)[i] = s[i + 1] /\ i \in Nat
<1>1. /\ Head(s) \in S /\ Tail(s) \in Seq(S) /\ Len(Tail(s)) = Len(s) - 1
      /\ \A i \in 1..Len(Tail(s)) : Tail(s)[i] = s[i + 1]
  BY HeadTailProperties
<1>2. Len(s) \in Nat /\ DOMAIN s = 1..Len(s) /\ DOMAIN Tail(s) = 1..Len(Tail(s))
  BY <1>1, LenProperties
<1>3. Len(s) > 0
  BY <1>2, EmptySeq
<1> QED BY <1>1, <1>2, <1>3

\* What the head of a queue leaves behind.
LEMMA TailQueue ==
    ASSUME NEW queue \in Seq(Commands), queue # <<>>
    PROVE  /\ Head(queue) \in Commands /\ Tail(queue) \in Seq(Commands)
           /\ Head(queue) = queue[1] /\ 1 \in DOMAIN queue
           /\ Once(queue) => Once(Tail(queue)) /\ Apart(Tail(queue), Head(queue))
           /\ \A i \in DOMAIN Tail(queue) : \E j \in DOMAIN queue : Tail(queue)[i] = queue[j]
<1>1. /\ Head(queue) \in Commands /\ Tail(queue) \in Seq(Commands)
      /\ Head(queue) = queue[1] /\ 1 \in DOMAIN queue
      /\ \A i \in DOMAIN Tail(queue) : i + 1 \in DOMAIN queue /\ Tail(queue)[i] = queue[i + 1]
                                       /\ i \in Nat
  BY Advanced
<1>2. ASSUME Once(queue) PROVE Once(Tail(queue)) /\ Apart(Tail(queue), Head(queue))
  <2>1. Once(Tail(queue))
    BY <1>1, <1>2 DEF Once
  <2>2. ASSUME NEW i \in DOMAIN Tail(queue), Tail(queue)[i].number # 0
        PROVE  Tail(queue)[i].number # Head(queue).number
    <3>1. i + 1 # 1 /\ i + 1 \in DOMAIN queue
      BY <1>1, <2>2
    <3>2. ~(queue[i + 1].number = queue[1].number /\ queue[i + 1].number # 0)
      BY <1>1, <1>2, <3>1 DEF Once
    <3> QED BY <1>1, <2>2, <3>2
  <2> QED BY <2>1, <2>2 DEF Apart
<1> QED BY <1>1, <1>2

LEMMA TailFresh ==
    ASSUME NEW queue \in Seq(Commands), queue # <<>>, NEW last, NEW times, NEW refused,
           Fresh(queue, last, times, refused)
    PROVE  Fresh(Tail(queue), last, times, refused)
  BY Advanced DEF Fresh

LEMMA TailAimed ==
    ASSUME NEW queue \in Seq(Commands), queue # <<>>, NEW last, NEW table,
           Aimed(queue, last, table)
    PROVE  Aimed(Tail(queue), last, table)
<1> SUFFICES ASSUME NEW i \in DOMAIN Tail(queue), Tail(queue)[i].number # 0
             PROVE  /\ Tail(queue)[i].number = last
                    /\ Tail(queue)[i].does \in {"delete", "move"}
                          => AtId(table, Tail(queue)[i].id) = {Tail(queue)[i].tick}
  BY DEF Aimed
<1>1. i + 1 \in DOMAIN queue /\ Tail(queue)[i] = queue[i + 1]
  BY Advanced
<1> QED BY <1>1 DEF Aimed

LEMMA TailApart ==
    ASSUME NEW queue \in Seq(Commands), queue # <<>>, NEW cmd, Apart(queue, cmd)
    PROVE  Apart(Tail(queue), cmd)
  BY Advanced DEF Apart

\* What a command adds to a queue.
LEMMA AppendQueue ==
    ASSUME NEW queue \in Seq(Commands), NEW cmd \in Commands
    PROVE  /\ Append(queue, cmd) \in Seq(Commands)
           /\ Once(queue) /\ Apart(queue, cmd) => Once(Append(queue, cmd))
           /\ \A i \in DOMAIN Append(queue, cmd) :
                 \/ i \in DOMAIN queue /\ Append(queue, cmd)[i] = queue[i]
                 \/ Append(queue, cmd)[i] = cmd
<1>1. /\ Append(queue, cmd) \in Seq(Commands) /\ Len(queue) \in Nat
      /\ DOMAIN queue = 1..Len(queue) /\ DOMAIN Append(queue, cmd) = 1..(Len(queue) + 1)
      /\ \A i \in 1..Len(queue) : Append(queue, cmd)[i] = queue[i]
      /\ Append(queue, cmd)[Len(queue) + 1] = cmd
  BY Appended
<1>2. \A i \in DOMAIN Append(queue, cmd) :
         \/ i \in DOMAIN queue /\ Append(queue, cmd)[i] = queue[i]
         \/ i = Len(queue) + 1 /\ Append(queue, cmd)[i] = cmd
  BY <1>1
<1>3. Once(queue) /\ Apart(queue, cmd) => Once(Append(queue, cmd))
  BY <1>2 DEF Once, Apart
<1> QED BY <1>1, <1>2, <1>3

------------------------------------------------------------------------------
(* What a command that is dispatched, run, or handed on does to the queues. *)

\* The timer's command, which has no number.
LEMMA SyncQueued ==
    ASSUME Data, Queues, DeliveryInv, PatientInv, pending' = Append(pending, Sync),
           UNCHANGED <<inbox, acts, ran, notSent, path, patient, wrong>>
    PROVE  Queues' /\ DeliveryInv' /\ PatientInv'
<1>1. Sync \in Commands /\ Sync.number = 0
  BY TicksType DEF Sync, Commands, Kinds
<1>2. /\ pending' \in Seq(Commands)
      /\ Once(pending) /\ Apart(pending, Sync) => Once(pending')
      /\ \A i \in DOMAIN pending' : \/ i \in DOMAIN pending /\ pending'[i] = pending[i]
                                    \/ pending'[i] = Sync
  BY <1>1, AppendQueue DEF Queues
<1>3. Once(pending')
  BY <1>1, <1>2 DEF Apart, DeliveryInv
<1>4. Fresh(pending', acts', ran', notSent')
  BY <1>1, <1>2 DEF DeliveryInv, Fresh
<1>5. \A i \in DOMAIN pending' : Apart(inbox', pending'[i])
  BY <1>1, <1>2 DEF DeliveryInv, Apart
<1>6. patient' => Aimed(pending', acts', path')
  <2> SUFFICES ASSUME patient, NEW i \in DOMAIN pending', pending'[i].number # 0
               PROVE  /\ pending'[i].number = acts
                      /\ pending'[i].does \in {"delete", "move"}
                            => AtId(path, pending'[i].id) = {pending'[i].tick}
    BY Zenon DEF Aimed
  <2>1. i \in DOMAIN pending /\ pending'[i] = pending[i]
    BY <1>1, <1>2
  <2> QED BY <2>1 DEF PatientInv, Aimed
<1> QED BY <1>2, <1>3, <1>4, <1>5, <1>6 DEF Queues, DeliveryInv, PatientInv

\* A command of the user, who has the next number.
LEMMA ActQueued ==
    ASSUME Data, Queues, DeliveryInv, acts' = acts + 1, acts' \in 0..MaxActs,
           NEW cmd \in Commands, cmd.number = acts + 1, pending' = Append(pending, cmd),
           UNCHANGED <<inbox, ran, notSent>>
    PROVE  Queues' /\ DeliveryInv'
<1>1. /\ pending' \in Seq(Commands)
      /\ Once(pending) /\ Apart(pending, cmd) => Once(pending')
      /\ \A i \in DOMAIN pending' : \/ i \in DOMAIN pending /\ pending'[i] = pending[i]
                                    \/ pending'[i] = cmd
  BY AppendQueue DEF Queues
<1>2. acts \in Nat /\ acts + 1 \in 1..MaxActs
  BY TicksType DEF Data
<1>3. ASSUME NEW queue \in Seq(Commands), Fresh(queue, acts, ran, notSent)
      PROVE  Apart(queue, cmd) /\ Fresh(queue, acts', ran', notSent')
  <2>1. \A i \in DOMAIN queue : queue[i].number \in 0..MaxActs
    BY Element DEF Commands
  <2> QED BY <1>2, <1>3, <2>1 DEF Apart, Fresh
<1>4. Once(pending')
  BY <1>1, <1>3 DEF DeliveryInv, Queues
<1>5. Fresh(pending', acts', ran', notSent')
  <2>1. ran[acts + 1] = 0 /\ acts + 1 \notin notSent
    BY <1>2 DEF DeliveryInv
  <2>2. Fresh(pending, acts', ran', notSent')
    BY <1>3 DEF DeliveryInv, Queues
  <2> QED BY <1>1, <1>2, <2>1, <2>2 DEF Fresh
<1>6. \A i \in DOMAIN pending' : Apart(inbox', pending'[i])
  <2>1. Apart(inbox, cmd)
    BY <1>3 DEF DeliveryInv, Queues
  <2> QED BY <1>1, <2>1 DEF DeliveryInv
<1>7. Fresh(inbox', acts', ran', notSent') /\ Once(inbox')
  BY <1>3 DEF DeliveryInv, Queues
<1>8. \A n \in 1..MaxActs : /\ ran'[n] <= 1 /\ (n \in notSent' => ran'[n] = 0)
                            /\ n > acts' => ran'[n] = 0 /\ n \notin notSent'
  BY <1>2 DEF DeliveryInv
<1> QED BY <1>1, <1>4, <1>5, <1>6, <1>7, <1>8 DEF Queues, DeliveryInv

\* A step of the user that sends no command.
LEMMA ActAlone ==
    ASSUME Data, Queues, DeliveryInv, acts' = acts + 1, acts' \in 0..MaxActs,
           UNCHANGED <<pending, inbox, ran, notSent>>
    PROVE  Queues' /\ DeliveryInv'
<1>1. acts \in Nat
  BY DEF Data
<1>2. ASSUME NEW queue \in Seq(Commands), Fresh(queue, acts, ran, notSent)
      PROVE  Fresh(queue, acts', ran', notSent')
  <2>1. \A i \in DOMAIN queue : queue[i].number \in 0..MaxActs
    BY Element DEF Commands
  <2> QED BY <1>1, <1>2, <2>1 DEF Fresh
<1>3. Fresh(pending', acts', ran', notSent') /\ Fresh(inbox', acts', ran', notSent')
  BY <1>2 DEF DeliveryInv, Queues
<1>4. \A n \in 1..MaxActs : /\ ran'[n] <= 1 /\ (n \in notSent' => ran'[n] = 0)
                            /\ n > acts' => ran'[n] = 0 /\ n \notin notSent'
  BY <1>1 DEF DeliveryInv
<1> QED BY <1>3, <1>4 DEF Queues, DeliveryInv

\* Who settled before has nothing waiting.
LEMMA Settles ==
    ASSUME PatientInv, patient' = (patient /\ Settled), wrong' = wrong, patient'
    PROVE  /\ patient /\ ~wrong' /\ shown = path
           /\ pending = <<>> /\ inbox = <<>>
<1>1. patient /\ Settled
  BY Zenon
<1> QED BY <1>1 DEF Settled, PatientInv

LEMMA NothingAimed == \A last, table : Aimed(<<>>, last, table)
  BY DEF Aimed

Counted(times, cmd) == IF cmd.number = 0 THEN times ELSE [times EXCEPT ![cmd.number] = @ + 1]

LEMMA StillFresh ==
    ASSUME NEW cmd \in Commands, NEW queue \in Seq(Commands), Apart(queue, cmd),
           NEW last, NEW times \in [1..MaxActs -> Nat], NEW refused,
           Fresh(queue, last, times, refused)
    PROVE  Fresh(queue, last, Counted(times, cmd), refused)
<1> SUFFICES ASSUME NEW i \in DOMAIN queue, queue[i].number # 0
             PROVE  /\ queue[i].number <= last /\ queue[i].number \notin refused
                    /\ Counted(times, cmd)[queue[i].number] = 0
  BY DEF Fresh
<1>1. queue[i].number \in 1..MaxActs
  <2>1. queue[i] \in Commands
    BY Element
  <2>2. queue[i].number \in 0..MaxActs
    BY <2>1 DEF Commands
  <2> QED BY <2>2, TicksType
<1>2. queue[i].number # cmd.number
  BY DEF Apart
<1>3. Counted(times, cmd)[queue[i].number] = times[queue[i].number]
  BY <1>1, <1>2 DEF Counted
<1> QED BY <1>3 DEF Fresh

LEMMA CountedOnce ==
    ASSUME Data, DeliveryInv, NEW cmd \in Commands,
           cmd.number # 0 => /\ cmd.number <= acts /\ cmd.number \notin notSent
                             /\ ran[cmd.number] = 0
    PROVE  /\ Counted(ran, cmd) \in [1..MaxActs -> Nat]
           /\ \A n \in 1..MaxActs :
                 /\ Counted(ran, cmd)[n] <= 1 /\ (n \in notSent => Counted(ran, cmd)[n] = 0)
                 /\ n > acts => Counted(ran, cmd)[n] = 0 /\ n \notin notSent
<1>1. CASE cmd.number = 0
  BY <1>1 DEF Counted, Data, DeliveryInv
<1>2. CASE cmd.number # 0
  <2>1. cmd.number \in 1..MaxActs
    <3>1. cmd.number \in 0..MaxActs
      BY DEF Commands
    <3> QED BY <1>2, <3>1, TicksType
  <2>2. ran \in [1..MaxActs -> Nat] /\ acts \in Nat
    BY DEF Data
  <2>3. Counted(ran, cmd) = [ran EXCEPT ![cmd.number] = @ + 1]
    BY <1>2 DEF Counted
  <2>4. Counted(ran, cmd) \in [1..MaxActs -> Nat]
    BY <2>1, <2>2, <2>3
  <2>5. Counted(ran, cmd)[cmd.number] = 1
    BY <1>2, <2>1, <2>2, <2>3
  <2>6. \A n \in 1..MaxActs : n # cmd.number => Counted(ran, cmd)[n] = ran[n]
    BY <2>1, <2>2, <2>3
  <2> QED BY <1>2, <2>1, <2>2, <2>4, <2>5, <2>6 DEF DeliveryInv
<1> QED BY <1>1, <1>2

LEMMA ApartBothWays ==
    ASSUME DeliveryInv PROVE \A j \in DOMAIN inbox : Apart(pending, inbox[j])
  BY DEF DeliveryInv, Apart

LEMMA HeadFresh ==
    ASSUME NEW queue \in Seq(Commands), queue # <<>>, NEW last, NEW times, NEW refused,
           Fresh(queue, last, times, refused), Head(queue).number # 0
    PROVE  /\ Head(queue).number <= last /\ Head(queue).number \notin refused
           /\ times[Head(queue).number] = 0
  BY TailQueue DEF Fresh

\* What is known of the command that waits first, and of those behind it.
LEMMA FirstPending ==
    ASSUME Queues, DeliveryInv, pending # <<>>
    PROVE  /\ Head(pending) \in Commands /\ Tail(pending) \in Seq(Commands)
           /\ Once(Tail(pending)) /\ Apart(Tail(pending), Head(pending))
           /\ Apart(inbox, Head(pending))
           /\ \A i \in DOMAIN Tail(pending) : Apart(inbox, Tail(pending)[i])
           /\ Fresh(Tail(pending), acts, ran, notSent)
           /\ Head(pending).number # 0 =>
                 /\ Head(pending).number <= acts /\ Head(pending).number \notin notSent
                 /\ ran[Head(pending).number] = 0
<1>1. /\ Head(pending) \in Commands /\ Tail(pending) \in Seq(Commands)
      /\ Once(Tail(pending)) /\ Apart(Tail(pending), Head(pending))
      /\ Head(pending) = pending[1] /\ 1 \in DOMAIN pending
      /\ \A i \in DOMAIN Tail(pending) : \E j \in DOMAIN pending : Tail(pending)[i] = pending[j]
  BY TailQueue DEF Queues, DeliveryInv
<1>2. Apart(inbox, Head(pending)) /\ \A i \in DOMAIN Tail(pending) : Apart(inbox, Tail(pending)[i])
  BY <1>1 DEF DeliveryInv
<1>3. Fresh(Tail(pending), acts, ran, notSent)
  BY TailFresh DEF Queues, DeliveryInv
<1>4. Head(pending).number # 0 =>
         /\ Head(pending).number <= acts /\ Head(pending).number \notin notSent
         /\ ran[Head(pending).number] = 0
  BY HeadFresh DEF Queues, DeliveryInv
<1> QED BY <1>1, <1>2, <1>3, <1>4

\* The mailbox runs the first command of its queue.
LEMMA RunsFromMailbox ==
    ASSUME Data, Queues, DeliveryInv, pending # <<>>, ran' = Counted(ran, Head(pending)),
           pending' = Tail(pending), UNCHANGED <<inbox, acts, notSent>>
    PROVE  /\ Queues' /\ DeliveryInv' /\ ran' \in [1..MaxActs -> Nat]
           /\ Apart(Tail(pending), Head(pending)) /\ Apart(inbox, Head(pending))
<1> DEFINE cmd == Head(pending)
           rest == Tail(pending)
<1>1. /\ cmd \in Commands /\ rest \in Seq(Commands) /\ Once(rest) /\ Apart(rest, cmd)
      /\ Apart(inbox, cmd) /\ \A i \in DOMAIN rest : Apart(inbox, rest[i])
      /\ Fresh(rest, acts, ran, notSent)
      /\ cmd.number # 0 => /\ cmd.number <= acts /\ cmd.number \notin notSent
                           /\ ran[cmd.number] = 0
  BY FirstPending
<1> HIDE DEF cmd, rest
<1>2. pending' = rest /\ ran' = Counted(ran, cmd)
  BY DEF cmd, rest
<1>3. Fresh(pending', acts', ran', notSent') /\ Fresh(inbox', acts', ran', notSent')
  <2>1. Fresh(rest, acts, Counted(ran, cmd), notSent)
    BY <1>1, StillFresh DEF Data
  <2>2. Fresh(inbox, acts, Counted(ran, cmd), notSent)
    BY <1>1, StillFresh DEF Data, Queues, DeliveryInv
  <2> QED BY <1>2, <2>1, <2>2
<1>4. /\ Counted(ran, cmd) \in [1..MaxActs -> Nat]
      /\ \A n \in 1..MaxActs :
            /\ Counted(ran, cmd)[n] <= 1 /\ (n \in notSent => Counted(ran, cmd)[n] = 0)
            /\ n > acts => Counted(ran, cmd)[n] = 0 /\ n \notin notSent
  BY <1>1, CountedOnce
<1>5. Queues' /\ DeliveryInv'
  BY <1>1, <1>2, <1>3, <1>4 DEF Queues, DeliveryInv
<1> QED BY <1>1, <1>2, <1>4, <1>5 DEF cmd, rest

\* TF2 runs the first command that RCON brought.
LEMMA RunsFromRcon ==
    ASSUME Data, Queues, DeliveryInv, inbox # <<>>, ran' = Counted(ran, Head(inbox)),
           inbox' = Tail(inbox), UNCHANGED <<pending, acts, notSent>>
    PROVE  /\ Queues' /\ DeliveryInv' /\ ran' \in [1..MaxActs -> Nat]
           /\ Apart(Tail(inbox), Head(inbox)) /\ Apart(pending, Head(inbox))
<1> DEFINE cmd == Head(inbox)
           rest == Tail(inbox)
<1>1. /\ cmd \in Commands /\ rest \in Seq(Commands) /\ Once(rest) /\ Apart(rest, cmd)
      /\ cmd = inbox[1] /\ 1 \in DOMAIN inbox
  BY TailQueue DEF Queues, DeliveryInv
<1>2. Apart(pending, cmd)
  BY <1>1, ApartBothWays
<1>3. Fresh(rest, acts, ran, notSent)
  BY TailFresh DEF Queues, DeliveryInv
<1>4. cmd.number # 0 => /\ cmd.number <= acts /\ cmd.number \notin notSent
                        /\ ran[cmd.number] = 0
  BY HeadFresh DEF Queues, DeliveryInv
<1>5. \A i \in DOMAIN pending : Apart(rest, pending[i])
  BY TailApart DEF DeliveryInv, Queues
<1> HIDE DEF cmd, rest
<1>6. inbox' = rest /\ ran' = Counted(ran, cmd)
  BY DEF cmd, rest
<1>7. Fresh(pending', acts', ran', notSent') /\ Fresh(inbox', acts', ran', notSent')
  <2>1. Fresh(rest, acts, Counted(ran, cmd), notSent)
    BY <1>1, <1>3, StillFresh DEF Data
  <2>2. Fresh(pending, acts, Counted(ran, cmd), notSent)
    BY <1>1, <1>2, StillFresh DEF Data, Queues, DeliveryInv
  <2> QED BY <1>6, <2>1, <2>2
<1>8. /\ Counted(ran, cmd) \in [1..MaxActs -> Nat]
      /\ \A n \in 1..MaxActs :
            /\ Counted(ran, cmd)[n] <= 1 /\ (n \in notSent => Counted(ran, cmd)[n] = 0)
            /\ n > acts => Counted(ran, cmd)[n] = 0 /\ n \notin notSent
  BY <1>1, <1>4, CountedOnce
<1>9. Queues' /\ DeliveryInv'
  BY <1>1, <1>5, <1>6, <1>7, <1>8 DEF Queues, DeliveryInv
<1> QED BY <1>1, <1>2, <1>6, <1>8, <1>9 DEF cmd, rest

\* The RCON worker sends a command: it waits on, in the other queue.
LEMMA HandsOn ==
    ASSUME Data, Queues, DeliveryInv, pending # <<>>, pending' = Tail(pending),
           inbox' = Append(inbox, Head(pending)), UNCHANGED <<acts, ran, notSent>>
    PROVE  Queues' /\ DeliveryInv'
<1> DEFINE cmd == Head(pending)
           rest == Tail(pending)
<1>1. /\ cmd \in Commands /\ rest \in Seq(Commands) /\ Once(rest) /\ Apart(rest, cmd)
      /\ Apart(inbox, cmd) /\ \A i \in DOMAIN rest : Apart(inbox, rest[i])
      /\ Fresh(rest, acts, ran, notSent)
      /\ cmd.number # 0 => /\ cmd.number <= acts /\ cmd.number \notin notSent
                           /\ ran[cmd.number] = 0
  BY FirstPending
<1> HIDE DEF cmd, rest
<1>2. pending' = rest /\ inbox' = Append(inbox, cmd)
  BY DEF cmd, rest
<1>3. /\ inbox' \in Seq(Commands) /\ Once(inbox')
      /\ \A i \in DOMAIN inbox' : \/ i \in DOMAIN inbox /\ inbox'[i] = inbox[i]
                                  \/ inbox'[i] = cmd
  BY <1>1, <1>2, AppendQueue DEF Queues, DeliveryInv
<1>4. Fresh(inbox', acts', ran', notSent')
  BY <1>1, <1>3 DEF DeliveryInv, Fresh
<1>5. ASSUME NEW i \in DOMAIN rest PROVE Apart(inbox', rest[i])
  <2>1. Apart(inbox, rest[i])
    BY <1>1
  <2>2. cmd.number # 0 => cmd.number # rest[i].number
    BY <1>1 DEF Apart
  <2> QED BY <1>3, <2>1, <2>2 DEF Apart
<1> QED BY <1>1, <1>2, <1>3, <1>4, <1>5 DEF Queues, DeliveryInv

\* The RCON worker gives a command up; when TF2 was not reached it says NOT SENT.
LEMMA GivenUp ==
    ASSUME Data, Queues, DeliveryInv, pending # <<>>, pending' = Tail(pending),
           notSent' \in {notSent, notSent \cup ({Head(pending).number} \ {0})},
           UNCHANGED <<inbox, acts, ran>>
    PROVE  Queues' /\ DeliveryInv' /\ notSent' \subseteq 1..MaxActs
<1> DEFINE cmd == Head(pending)
           rest == Tail(pending)
<1>1. /\ cmd \in Commands /\ rest \in Seq(Commands) /\ Once(rest) /\ Apart(rest, cmd)
      /\ Apart(inbox, cmd) /\ \A i \in DOMAIN rest : Apart(inbox, rest[i])
      /\ Fresh(rest, acts, ran, notSent)
      /\ cmd.number # 0 => /\ cmd.number <= acts /\ cmd.number \notin notSent
                           /\ ran[cmd.number] = 0
  BY FirstPending
<1> HIDE DEF cmd, rest
<1>2. pending' = rest /\ \A n \in notSent' : n \in notSent \/ (n = cmd.number /\ n # 0)
  BY DEF cmd, rest
<1>3. ASSUME NEW queue, Apart(queue, cmd), Fresh(queue, acts, ran, notSent)
      PROVE  Fresh(queue, acts, ran, notSent')
  BY <1>2, <1>3 DEF Fresh, Apart
<1>4. Fresh(pending', acts', ran', notSent') /\ Fresh(inbox', acts', ran', notSent')
  BY <1>1, <1>2, <1>3 DEF DeliveryInv
<1>5. notSent' \subseteq 1..MaxActs
  <2>1. cmd.number \in 0..MaxActs /\ notSent \subseteq 1..MaxActs
    BY <1>1 DEF Commands, Data
  <2> QED BY <1>2, <2>1, TicksType
<1>6. \A n \in 1..MaxActs :
          /\ ran'[n] <= 1 /\ (n \in notSent' => ran'[n] = 0)
          /\ n > acts' => ran'[n] = 0 /\ n \notin notSent'
  <2>1. acts \in Nat
    BY DEF Data
  <2> QED BY <1>1, <1>2, <2>1 DEF DeliveryInv
<1> QED BY <1>1, <1>2, <1>4, <1>5, <1>6 DEF Queues, DeliveryInv

------------------------------------------------------------------------------
(* What a command does to the path, and what it prints. *)

LEMMA OutcomesType ==
    ASSUME NEW cmd \in Commands, path \in Tables, NEW table \in Outcomes(cmd)
    PROVE  table \in Tables /\ (cmd.number = 0 => table = path)
<1>1. CASE cmd.does = "delete"
  BY <1>1 DEF Outcomes, Tables, Commands
<1>2. CASE cmd.does = "move"
  <2>1. \/ table = path
        \/ \E to \in Ticks : table = (path \ AtId(path, cmd.id)) \cup {to}
    BY <1>2 DEF Outcomes
  <2> QED BY <1>2, <2>1 DEF Tables, Commands
<1>3. CASE cmd.does = "load"
  BY <1>3 DEF Outcomes, Tables, Commands
<1>4. CASE cmd.does \notin {"delete", "move", "load"}
  BY <1>4 DEF Outcomes
<1> QED BY <1>1, <1>2, <1>3, <1>4

LEMMA PrintType ==
    ASSUME NEW rows \in Tables
    PROVE  Printout(rows) \in Seq(Lines) /\ Printout(rows) \in Seq(Harmless)
<1>1. /\ [line |-> "table", rows |-> rows] \in Lines
      /\ [line |-> "table", rows |-> rows] \in Harmless
  BY DEF Lines, Harmless
<1> QED BY <1>1 DEF Printout

LEMMA LineType ==
    ASSUME NEW kind \in {"ready", "dirty", "reload"}
    PROVE  <<Line(kind)>> \in Seq(Lines) /\ <<Line(kind)>> \in Seq(Harmless)
<1>1. Line(kind) \in Lines /\ Line(kind) \in Harmless
  BY DEF Line, Lines, Harmless, Tables
<1> QED BY <1>1

LEMMA MarksType ==
    ASSUME NEW cmd \in Commands
    PROVE  Marks(cmd) \in Seq(Lines) /\ (cmd.does # "delete" => Marks(cmd) \in Seq(Harmless))
<1>1. CASE cmd.does = "delete"
  <2>1. Line("allow") \in Lines /\ Line("dirty") \in Lines
    BY DEF Line, Lines, Tables
  <2>2. Marks(cmd) = <<Line("allow"), Line("dirty")>>
    BY <1>1 DEF Marks
  <2> QED BY <1>1, <2>1, <2>2
<1>2. CASE cmd.does # "delete"
  <2>1. Marks(cmd) = <<Line("dirty")>> \/ Marks(cmd) = <<>>
    <3>1. CASE cmd.does \in {"move", "goto", "load"}
      BY <1>2, <3>1 DEF Marks
    <3>2. CASE cmd.does \notin {"move", "goto", "load"}
      BY <1>2, <3>2 DEF Marks
    <3> QED BY <3>1, <3>2
  <2>2. <<Line("dirty")>> \in Seq(Lines) /\ <<Line("dirty")>> \in Seq(Harmless)
    BY LineType
  <2>3. <<>> \in Seq(Lines) /\ <<>> \in Seq(Harmless)
    OBVIOUS
  <2>4. Marks(cmd) \in Seq(Lines) /\ Marks(cmd) \in Seq(Harmless)
    BY <2>1, <2>2, <2>3, Zenon
  <2> QED BY <2>4
<1> QED BY <1>1, <1>2

\* Lines are appended to the log.
LEMMA EmitType ==
    ASSUME GateInv, NEW lines \in Seq(Lines), Emit(lines), deleted => deleted',
           ~deleted' => lines \in Seq(Harmless), UNCHANGED <<permission, verified, shown>>
    PROVE  GateInv'
<1>1. log' = log \o lines
  BY DEF Emit
<1>2. log' \in Seq(Lines)
  BY <1>1, ConcatProperties DEF GateInv
<1>3. ASSUME ~deleted' PROVE ~permission' /\ log' \in Seq(Harmless)
  <2>1. ~deleted
    BY <1>3
  <2>2. ~permission /\ log \in Seq(Harmless)
    BY <2>1 DEF GateInv
  <2>3. log' \in Seq(Harmless)
    BY <1>1, <1>3, <2>2, ConcatProperties
  <2> QED BY <2>2, <2>3
<1> QED BY <1>2, <1>3 DEF GateInv

LEMMA PrintedType ==
    ASSUME NEW tables, NEW left \in 0..MaxBlanks, NEW rows, Printed(tables, left, rows)
    PROVE  blanks' \in 0..MaxBlanks
  BY TicksType DEF Printed

\* A command that runs keeps the types, and permits an empty table only if it
\* is a deletion.
LEMMA RunTypes ==
    ASSUME Flags, Data, GateInv, NEW cmd \in Commands, Run(cmd)
    PROVE  /\ path' \in Tables /\ blanks' \in 0..MaxBlanks /\ GateInv'
           /\ ran' = Counted(ran, cmd)
           /\ deleted' \in BOOLEAN /\ hurried' \in BOOLEAN /\ wrong' \in BOOLEAN
<1>1. path' \in Tables
  BY OutcomesType DEF Run, Data
<1>2. PICK left \in 0..MaxBlanks, rows \in Tables :
         /\ Printed({path, path'}, left, rows)
         /\ Emit(Marks(cmd) \o (IF cmd.does = "sync" THEN Printout(rows) \o Printout(rows)
                                                    ELSE Printout(rows)))
  BY Zenon DEF Run
<1>3. blanks' \in 0..MaxBlanks
  BY <1>2, PrintedType
<1>4. deleted' = (deleted \/ cmd.does = "delete")
  BY Zenon DEF Run
<1> DEFINE prints == IF cmd.does = "sync" THEN Printout(rows) \o Printout(rows)
                                          ELSE Printout(rows)
<1>5. prints \in Seq(Lines) /\ prints \in Seq(Harmless)
  BY PrintType, ConcatProperties
<1> HIDE DEF prints
<1>6. /\ Marks(cmd) \o prints \in Seq(Lines)
      /\ cmd.does # "delete" => Marks(cmd) \o prints \in Seq(Harmless)
  BY <1>5, MarksType, ConcatProperties
<1>7. Emit(Marks(cmd) \o prints)
  BY <1>2 DEF prints
<1>8. UNCHANGED <<permission, verified, shown>>
  BY DEF Run, gate, panel
<1>9. GateInv'
  BY <1>4, <1>6, <1>7, <1>8, EmitType
<1>10. ran' = Counted(ran, cmd)
  BY DEF Run, Counted
<1>11. deleted' \in BOOLEAN /\ hurried' \in BOOLEAN /\ wrong' \in BOOLEAN
  BY Zenon DEF Run, Flags
<1> QED BY <1>1, <1>3, <1>9, <1>10, <1>11

\* A command that runs hits what it named, and none that waits behind it names
\* a keyframe.
LEMMA RunHits ==
    ASSUME Data, NEW cmd \in Commands, Run(cmd), ~wrong,
           cmd.number # 0 => /\ cmd.number = acts
                             /\ cmd.does \in {"delete", "move"}
                                  => AtId(path, cmd.id) = {cmd.tick}
    PROVE  /\ ~wrong'
           /\ \A queue \in Seq(Commands) :
                 Apart(queue, cmd) /\ Aimed(queue, acts, path) => Aimed(queue, acts, path')
<1>1. cmd.does \in {"delete", "move"} => AtId(path, cmd.id) = {cmd.tick}
  BY DEF Commands
<1>2. ~wrong'
  BY <1>1, Zenon DEF Run
<1>3. ASSUME NEW queue \in Seq(Commands), Apart(queue, cmd), Aimed(queue, acts, path)
      PROVE  Aimed(queue, acts, path')
  <2>1. CASE cmd.number = 0
    <3>1. path' = path
      BY <2>1, OutcomesType DEF Run, Data
    <3> QED BY <1>3, <3>1
  <2>2. CASE cmd.number # 0
    <3>1. \A i \in DOMAIN queue : queue[i].number = 0
      <4> SUFFICES ASSUME NEW i \in DOMAIN queue, queue[i].number # 0 PROVE FALSE
        OBVIOUS
      <4>1. queue[i].number = acts
        BY <1>3 DEF Aimed
      <4>2. queue[i].number # cmd.number
        BY <1>3 DEF Apart
      <4> QED BY <2>2, <4>1, <4>2
    <3> QED BY <3>1 DEF Aimed
  <2> QED BY <2>1, <2>2
<1> QED BY <1>2, <1>3

LEMMA HeadAimed ==
    ASSUME NEW queue \in Seq(Commands), queue # <<>>, Aimed(queue, acts, path),
           Head(queue).number # 0
    PROVE  /\ Head(queue).number = acts
           /\ Head(queue).does \in {"delete", "move"}
                => AtId(path, Head(queue).id) = {Head(queue).tick}
<1>1. Head(queue) = queue[1] /\ 1 \in DOMAIN queue
  BY TailQueue
<1> QED BY <1>1 DEF Aimed

------------------------------------------------------------------------------
(* The telemetry timer. *)

\* What one poll finds in the lines that it reads.
LEMMA PollType ==
    ASSUME NEW S \in {Lines, Harmless}, log \in Seq(S), NEW count \in 0..Len(log)
    PROVE  /\ SubSeq(log, count + 1, Len(log)) \in Seq(S)
           /\ S = Harmless => ~Poll(SubSeq(log, 1, count)).allow
           /\ Poll(SubSeq(log, 1, count)).tables # {} =>
                log[Max(Poll(SubSeq(log, 1, count)).tables)].rows \in Tables
<1> DEFINE lines == SubSeq(log, 1, count)
<1>1. Len(log) \in Nat /\ DOMAIN log = 1..Len(log) /\ count \in Nat
  BY Indices
<1>2. \A i \in 1..Len(log) : log[i] \in S
  BY <1>1, Element
<1>3. SubSeq(log, count + 1, Len(log)) \in Seq(S)
  <2>1. \A i \in count + 1 .. Len(log) : log[i] \in S
    BY <1>1, <1>2
  <2> QED BY <1>1, <2>1, SubSeqProperties
<1>4. lines \in Seq(S) /\ Len(lines) = count
  <2>1. \A i \in 1..count : log[i] \in S
    BY <1>1, <1>2
  <2>2. /\ lines \in Seq(S) /\ Len(lines) = IF 1 <= count THEN count - 1 + 1 ELSE 0
    BY <1>1, <2>1, SubSeqProperties
  <2> QED BY <1>1, <2>2
<1> HIDE DEF lines
<1>5. DOMAIN lines = 1..count /\ \A i \in DOMAIN lines : lines[i] \in S
  BY <1>4, Indices, Element
<1>6. ASSUME S = Harmless PROVE ~Poll(lines).allow
  <2>1. \A i \in DOMAIN lines : lines[i].line \notin {"allow", "clear"}
    BY <1>5, <1>6 DEF Harmless
  <2>2. {line.line : line \in Range(lines)} \cap {"allow", "clear"} = {}
    BY <2>1 DEF Range
  <2> QED BY <2>2 DEF Poll
<1>7. ASSUME Poll(lines).tables # {} PROVE log[Max(Poll(lines).tables)].rows \in Tables
  <2>1. Poll(lines).tables \in SUBSET (1..count)
    BY <1>5 DEF Poll
  <2>2. Max(Poll(lines).tables) \in Poll(lines).tables
    BY <1>1, <1>7, <2>1, MaxIn
  <2>3. Max(Poll(lines).tables) \in 1..Len(log)
    BY <1>1, <2>1, <2>2
  <2>4. log[Max(Poll(lines).tables)] \in Lines \cup Harmless
    BY <1>2, <2>3
  <2> QED BY <2>4 DEF Lines, Harmless
<1> QED BY <1>3, <1>6, <1>7 DEF lines

ShowFrame == UNCHANGED <<game, direct, sent, inbox, acts, faults, ran, notSent, history>>

\* What a poll with a verified table, or without one, leaves behind.
LEMMA ShowEffect ==
    ASSUME Flags, Data, GateInv, NEW count \in 0..Len(log), NEW fires \in BOOLEAN,
           ReadAndShow(count, fires)
    PROVE  /\ log' = SubSeq(log, count + 1, Len(log))
           /\ ready' \in BOOLEAN /\ permission' \in BOOLEAN /\ due' \in BOOLEAN
           /\ retries' \in 0..2
           /\ ~deleted => ~permission'
           /\ pending' = pending \/ pending' = Append(pending, Sync)
           /\ \/ /\ UNCHANGED <<verified, shown>> /\ selected' \in {selected, NoKey}
              \/ \E rows \in Tables, kept \in {selected, NoKey} :
                    /\ verified' = (rows # {}) /\ shown' = rows
                    /\ ~deleted /\ shown # {} => rows # {}
                    /\ selected' = Reselected(kept, rows)
           /\ ShowFrame
<1> DEFINE poll      == Poll(SubSeq(log, 1, count))
           permitted == permission \/ poll.allow
           arrived   == poll.tables # {}
           rows      == log[Max(poll.tables)].rows
           accepted  == arrived /\ Accept(rows, permitted)
           tried     == IF poll.refreshing THEN 0 ELSE retries
           again     == arrived /\ ~accepted /\ AsksAgain(tried)
           kept      == IF poll.loading THEN NoKey ELSE selected
<1>1. /\ ready' = TRUE
      /\ log' = SubSeq(log, count + 1, Len(log))
      /\ permission' = (permitted /\ ~accepted)
      /\ IF accepted
         THEN /\ verified' = (rows # {}) /\ shown' = rows /\ retries' = 0
              /\ selected' = Reselected(kept, rows)
         ELSE /\ selected' = kept /\ UNCHANGED <<verified, shown>>
              /\ retries' = IF again THEN tried + 1 ELSE tried
      /\ due' = (again \/ poll.refreshing \/ (due /\ ~fires))
      /\ IF fires THEN Dispatch(Sync) ELSE UNCHANGED pending
      /\ ShowFrame
  BY Zenon DEF ReadAndShow, ShowFrame
<1>2. ready' \in BOOLEAN /\ permission' \in BOOLEAN /\ due' \in BOOLEAN
  BY <1>1, Zenon
<1>3. arrived => rows \in Tables
  BY PollType DEF GateInv
<1>4. ~deleted => ~permitted
  BY PollType DEF GateInv
<1>5. tried \in 0..2
  BY DEF Data
<1>6. again => tried < 2
  BY DEF AsksAgain
<1>7. kept \in {selected, NoKey}
  OBVIOUS
<1>8. pending' = pending \/ pending' = Append(pending, Sync)
  BY <1>1 DEF Dispatch
<1>9. accepted => (rows # {} \/ ~verified \/ permitted) /\ arrived
  BY DEF Accept
<1>10. ~deleted => ~permission'
  BY <1>1, <1>4, Zenon
<1> HIDE DEF poll, permitted, arrived, rows, accepted, tried, again, kept
<1>11. CASE accepted
  <2>1. verified' = (rows # {}) /\ shown' = rows /\ selected' = Reselected(kept, rows)
    BY <1>1, <1>11
  <2>2. ~deleted /\ shown # {} => rows # {}
    BY <1>4, <1>9, <1>11 DEF GateInv
  <2>3. retries' \in 0..2
    BY <1>1, <1>11
  <2> QED BY <1>1, <1>2, <1>3, <1>7, <1>8, <1>9, <1>10, <1>11, <2>1, <2>2, <2>3
<1>12. CASE ~accepted
  <2>1. UNCHANGED <<verified, shown>> /\ selected' \in {selected, NoKey}
    BY <1>1, <1>7, <1>12
  <2>2. retries' \in 0..2
    BY <1>1, <1>5, <1>6, <1>12
  <2> QED BY <1>1, <1>2, <1>8, <1>10, <2>1, <2>2
<1> QED BY <1>11, <1>12

------------------------------------------------------------------------------
(* One lemma per action *)

LEMMA InitIInv == Init => IInv
<1> SUFFICES ASSUME Init PROVE IInv
  OBVIOUS
<1>1. Flags
  BY Zenon DEF Init, Flags
<1>2. Data
  BY TicksType DEF Init, Data, Tables
<1>3. Queues
  BY DEF Init, Queues
<1>4. GateInv
  <2>1. <<Line("ready")>> \in Seq(Lines) /\ <<Line("ready")>> \in Seq(Harmless)
    BY LineType
  <2>2. Printout({}) \in Seq(Lines) /\ Printout({}) \in Seq(Harmless)
    BY PrintType DEF Tables
  <2>3. log \in Seq(Lines) /\ log \in Seq(Harmless)
    BY <2>1, <2>2, ConcatProperties DEF Init
  <2> QED BY <2>3 DEF Init, GateInv
<1>5. SelectedIsShown
  BY DEF Init, SelectedIsShown
<1>6. DeliveryInv
  BY DEF Init, DeliveryInv, Once, Fresh
<1>7. PatientInv
  BY DEF Init, PatientInv, Aimed
<1> QED BY <1>1, <1>2, <1>3, <1>4, <1>5, <1>6, <1>7 DEF IInv

LEMMA Selecting == IInv /\ (SelectKey \/ Dismiss) => IInv'
<1> SUFFICES ASSUME IInv, SelectKey \/ Dismiss PROVE IInv'
  OBVIOUS
<1>1. UNCHANGED <<game, direct, channel, log, ready, gate, refresh, shown,
                  acts, faults, ran, notSent, history>>
  BY DEF SelectKey, Dismiss
<1>2. selected' # NoKey => selected' \in Keys(shown')
  BY <1>1 DEF SelectKey, Dismiss
<1>3. Flags' /\ Data'
  BY <1>1 DEF IInv, Flags, Data, game, channel, refresh, gate, history
<1>4. Queues' /\ GateInv'
  BY <1>1 DEF IInv, Queues, GateInv, channel, gate, history
<1>5. DeliveryInv'
  BY <1>1 DEF IInv, DeliveryInv, channel
<1>6. PatientInv'
  BY <1>1 DEF IInv, PatientInv, channel, history, game
<1> QED BY <1>2, <1>3, <1>4, <1>5, <1>6 DEF IInv, SelectedIsShown

LEMMA ActType ==
    ASSUME Data, Act
    PROVE  /\ acts' = acts + 1 /\ acts' \in 0..MaxActs /\ patient' = (patient /\ Settled)
           /\ patient' \in BOOLEAN /\ acts \in Nat /\ acts < MaxActs
<1>1. acts \in Nat /\ acts < MaxActs
  BY TicksType DEF Data, Act
<1>2. patient' \in BOOLEAN
  BY Zenon DEF Act
<1> QED BY <1>1, <1>2, TicksType DEF Act

\* The frame that the user's commands have in common.
CommandFrame ==
    UNCHANGED <<game, direct, sent, inbox, log, ready, gate, refresh, shown,
                faults, ran, notSent, deleted, hurried, wrong>>

\* A command of the user that names a marker, or none.
LEMMA Commanding ==
    ASSUME IInv, Act, NEW cmd \in Commands, cmd.number = acts + 1,
           pending' = Append(pending, cmd), CommandFrame, selected' \in {selected, NoKey},
           cmd.does \in {"delete", "move"} => AtId(shown, cmd.id) = {cmd.tick}
    PROVE  IInv'
<1>1. /\ acts' = acts + 1 /\ acts' \in 0..MaxActs /\ patient' = (patient /\ Settled)
      /\ patient' \in BOOLEAN /\ acts \in Nat
  BY ActType DEF IInv
<1>2. Flags' /\ Data'
  BY <1>1 DEF IInv, Flags, Data, CommandFrame, game, gate, refresh
<1>3. Queues' /\ DeliveryInv'
  BY <1>1, ActQueued DEF IInv, CommandFrame
<1>4. GateInv' /\ SelectedIsShown'
  BY DEF IInv, GateInv, SelectedIsShown, CommandFrame, gate
<1>5. PatientInv'
  <2> SUFFICES ASSUME patient'
               PROVE  ~wrong' /\ Aimed(pending', acts', path') /\ Aimed(inbox', acts', path')
    BY Zenon DEF PatientInv
  <2>1. /\ patient /\ ~wrong' /\ shown = path
        /\ pending = <<>> /\ inbox = <<>>
    BY <1>1, Settles DEF IInv, CommandFrame
  <2>2. path' = path /\ inbox' = <<>> /\ pending' = <<cmd>>
    BY <2>1 DEF CommandFrame, game
  <2>3. Aimed(inbox', acts', path')
    BY <2>2, NothingAimed
  <2>4. cmd.does \in {"delete", "move"} => AtId(path, cmd.id) = {cmd.tick}
    BY <2>1
  <2>5. \A i \in DOMAIN pending' : pending'[i] = cmd
    BY <2>2
  <2>6. Aimed(pending', acts', path')
    BY <1>1, <2>2, <2>4, <2>5 DEF Aimed
  <2> QED BY <2>1, <2>3, <2>6
<1> QED BY <1>2, <1>3, <1>4, <1>5 DEF IInv

LEMMA CommandType ==
    ASSUME Data, acts < MaxActs, NEW does \in Kinds \ {"sync"},
           NEW id \in Int, NEW tick \in Int,
           does \in {"delete", "move", "goto"} => id \in 0..(Cardinality(Ticks) - 1)
    PROVE  /\ Command(does, [id |-> id, tick |-> tick]) \in Commands
           /\ Command(does, [id |-> id, tick |-> tick]).number = acts + 1
<1>1. acts + 1 \in 0..MaxActs /\ acts + 1 # 0
  BY TicksType DEF Data
<1> QED BY <1>1 DEF Command, Commands

LEMMA Editing == IInv /\ EditKey => IInv'
<1> SUFFICES ASSUME IInv, Act, selected # NoKey,
                    NEW does \in {"delete", "move", "goto"},
                    pending' = Append(pending, Command(does, selected)),
                    selected' = NoKey, CommandFrame
             PROVE  IInv'
  BY DEF EditKey, Dispatch, CommandFrame
<1>1. selected \in Keys(shown) /\ shown \in Tables
  BY DEF IInv, SelectedIsShown, Data
<1>2. /\ AtId(shown, selected.id) = {selected.tick}
      /\ selected.id \in 0..(Cardinality(Ticks) - 1) /\ selected.id \in Int
      /\ selected.tick \in Int
  BY <1>1, KeyNames
<1>3. selected = [id |-> selected.id, tick |-> selected.tick]
  BY <1>1 DEF Keys
<1> DEFINE cmd == Command(does, selected)
<1>4. cmd \in Commands /\ cmd.number = acts + 1
  <2>1. does \in Kinds \ {"sync"}
    BY DEF Kinds
  <2>2. Data /\ acts < MaxActs
    BY ActType DEF IInv
  <2> QED BY <1>2, <1>3, <2>1, <2>2, CommandType
<1>5. cmd.id = selected.id /\ cmd.tick = selected.tick
  BY DEF Command
<1> HIDE DEF cmd
<1>6. pending' = Append(pending, cmd)
  BY DEF cmd
<1> QED BY <1>2, <1>4, <1>5, <1>6, Commanding

LEMMA Sending == IInv /\ (GoToFrag \/ LoadCampath) => IInv'
<1> SUFFICES ASSUME IInv, Act, NEW does \in {"frag", "load"},
                    pending' = Append(pending, Command(does, NoKey)),
                    selected' \in {selected, NoKey}, CommandFrame
             PROVE  IInv'
  BY DEF GoToFrag, LoadCampath, Dispatch, CommandFrame, panel
<1> DEFINE cmd == Command(does, NoKey)
<1>1. cmd \in Commands /\ cmd.number = acts + 1
  <2>1. does \in Kinds \ {"sync"} /\ ~(does \in {"delete", "move", "goto"})
    BY DEF Kinds
  <2>2. Data /\ acts < MaxActs
    BY ActType DEF IInv
  <2>3. NoKey = [id |-> -1, tick |-> 0] /\ -1 \in Int /\ 0 \in Int
    BY DEF NoKey
  <2> QED BY <2>1, <2>2, <2>3, CommandType
<1>2. cmd.does = does
  BY DEF Command
<1> HIDE DEF cmd
<1>3. pending' = Append(pending, cmd) /\ cmd.does \notin {"delete", "move"}
  BY <1>2 DEF cmd
<1> QED BY <1>1, <1>3, Commanding

\* What AddKey, TypeClear and SafeRestart have in common: an action that sends
\* no command, and waits for the markers before if it is patient.
LEMMA ActingInTheGame ==
    ASSUME IInv, Act, path' \in Tables, blanks' \in 0..MaxBlanks,
           demo' \in {"loading", "loaded"}, deleted' \in BOOLEAN, GateInv',
           UNCHANGED <<direct, channel, ready, gate, refresh, panel, faults, ran, notSent,
                       hurried, wrong>>
    PROVE  IInv'
<1>1. /\ acts' = acts + 1 /\ acts' \in 0..MaxActs /\ patient' = (patient /\ Settled)
      /\ patient' \in BOOLEAN
  BY ActType DEF IInv
<1>2. Flags' /\ Data'
  BY <1>1 DEF IInv, Flags, Data, channel, gate, refresh, panel
<1>3. Queues' /\ DeliveryInv'
  BY <1>1, ActAlone DEF IInv, channel
<1>4. SelectedIsShown'
  BY DEF IInv, SelectedIsShown, panel
<1>5. PatientInv'
  <2> SUFFICES ASSUME patient'
               PROVE  ~wrong' /\ Aimed(pending', acts', path') /\ Aimed(inbox', acts', path')
    BY Zenon DEF PatientInv
  <2>1. ~wrong' /\ pending = <<>> /\ inbox = <<>>
    BY <1>1, Settles DEF IInv
  <2>2. pending' = <<>> /\ inbox' = <<>>
    BY <2>1 DEF channel
  <2> QED BY <2>1, <2>2, NothingAimed
<1> QED BY <1>2, <1>3, <1>4, <1>5 DEF IInv

LEMMA Adding == IInv /\ AddKey => IInv'
<1> SUFFICES ASSUME IInv, AddKey PROVE IInv'
  OBVIOUS
<1>1. PICK tick \in Ticks \ path, rows \in Tables :
         /\ path' = path \cup {tick}
         /\ Printed({path, path'}, blanks, rows)
         /\ Emit(<<Line("dirty")>> \o Printout(rows))
  BY Zenon DEF AddKey
<1>2. path' \in Tables
  BY <1>1 DEF IInv, Data, Tables
<1>3. blanks' \in 0..MaxBlanks
  BY <1>1, PrintedType DEF IInv, Data
<1>4. /\ <<Line("dirty")>> \o Printout(rows) \in Seq(Lines)
      /\ <<Line("dirty")>> \o Printout(rows) \in Seq(Harmless)
  BY LineType, PrintType, ConcatProperties
<1>5. UNCHANGED <<demo, direct, channel, ready, gate, refresh, panel, faults,
                  ran, notSent, deleted, hurried, wrong>> /\ Act
  BY DEF AddKey
<1>6. GateInv'
  BY <1>1, <1>4, <1>5, EmitType DEF IInv, gate, panel
<1>7. demo' \in {"loading", "loaded"} /\ deleted' \in BOOLEAN
  BY <1>5 DEF IInv, Data, Flags
<1> QED BY <1>2, <1>3, <1>5, <1>6, <1>7, ActingInTheGame

LEMMA Clearing == IInv /\ TypeClear => IInv'
<1> SUFFICES ASSUME IInv, TypeClear PROVE IInv'
  OBVIOUS
<1>1. <<Line("clear")>> \in Seq(Lines)
  <2>1. Line("clear") \in Lines
    BY DEF Line, Lines, Tables
  <2> QED BY <2>1
<1>2. /\ path' = {} /\ Emit(<<Line("clear")>>) /\ deleted' = TRUE /\ Act
      /\ UNCHANGED <<blanks, demo, direct, channel, ready, gate, refresh, panel,
                     faults, ran, notSent, hurried, wrong>>
  BY DEF TypeClear
<1>3. GateInv'
  BY <1>1, <1>2, EmitType DEF IInv, gate, panel
<1>4. /\ path' \in Tables /\ blanks' \in 0..MaxBlanks /\ demo' \in {"loading", "loaded"}
      /\ deleted' \in BOOLEAN
  BY <1>2 DEF IInv, Data, Tables
<1> QED BY <1>2, <1>3, <1>4, ActingInTheGame

LEMMA Restarting == IInv /\ SafeRestart => IInv'
<1> SUFFICES ASSUME IInv, SafeRestart PROVE IInv'
  OBVIOUS
<1>1. <<Line("reload")>> \in Seq(Lines) /\ <<Line("reload")>> \in Seq(Harmless)
  BY LineType
<1>2. /\ demo' = "loading" /\ Emit(<<Line("reload")>>) /\ Act
      /\ UNCHANGED <<path, blanks, direct, channel, ready, gate, refresh, panel,
                     faults, ran, notSent, deleted, hurried, wrong>>
  BY DEF SafeRestart
<1>3. GateInv'
  BY <1>1, <1>2, EmitType DEF IInv, gate, panel
<1>4. /\ path' \in Tables /\ blanks' \in 0..MaxBlanks /\ demo' \in {"loading", "loaded"}
      /\ deleted' \in BOOLEAN
  BY <1>2 DEF IInv, Data, Flags
<1> QED BY <1>2, <1>3, <1>4, ActingInTheGame

LEMMA Starting == IInv /\ ManualReady => IInv'
<1> SUFFICES ASSUME IInv, ManualReady PROVE IInv'
  OBVIOUS
<1>1. PICK rows \in Tables :
         Printed({path}, blanks, rows) /\ Emit(<<Line("ready")>> \o Printout(rows))
  BY DEF ManualReady
<1>2. /\ <<Line("ready")>> \o Printout(rows) \in Seq(Lines)
      /\ <<Line("ready")>> \o Printout(rows) \in Seq(Harmless)
  BY LineType, PrintType, ConcatProperties
<1>3. /\ demo' = "loaded"
      /\ UNCHANGED <<path, direct, channel, ready, gate, refresh, panel, acts,
                     faults, ran, notSent, history>>
  BY DEF ManualReady
<1>4. GateInv'
  BY <1>1, <1>2, <1>3, EmitType DEF IInv, gate, panel, history
<1>5. blanks' \in 0..MaxBlanks
  BY <1>1, PrintedType DEF IInv, Data
<1>6. Flags' /\ Data'
  BY <1>3, <1>5 DEF IInv, Flags, Data, channel, gate, refresh, panel, history
<1>7. Queues' /\ DeliveryInv' /\ SelectedIsShown'
  BY <1>3 DEF IInv, Queues, DeliveryInv, SelectedIsShown, channel, panel
<1>8. PatientInv'
  BY <1>3 DEF IInv, PatientInv, channel, history
<1> QED BY <1>4, <1>6, <1>7, <1>8 DEF IInv

LEMMA RunningFromMailbox == IInv /\ Mailbox => IInv'
<1> SUFFICES ASSUME IInv, Mailbox PROVE IInv'
  OBVIOUS
<1> DEFINE cmd == Head(pending)
<1>1. /\ pending # <<>> /\ Run(cmd) /\ pending' = Tail(pending)
      /\ UNCHANGED <<sent, inbox, faults, notSent>>
  BY DEF Mailbox
<1>2. cmd \in Commands /\ Tail(pending) \in Seq(Commands)
  BY <1>1, TailQueue DEF IInv, Queues
<1>3. /\ path' \in Tables /\ blanks' \in 0..MaxBlanks /\ GateInv'
      /\ ran' = Counted(ran, cmd)
      /\ deleted' \in BOOLEAN /\ hurried' \in BOOLEAN /\ wrong' \in BOOLEAN
  BY <1>1, <1>2, RunTypes DEF IInv
<1>4. UNCHANGED <<demo, direct, ready, gate, refresh, panel, acts, patient>>
  BY <1>1 DEF Run
<1>5. /\ Queues' /\ DeliveryInv' /\ ran' \in [1..MaxActs -> Nat]
      /\ Apart(Tail(pending), cmd) /\ Apart(inbox, cmd)
  BY <1>1, <1>3, <1>4, RunsFromMailbox DEF IInv
<1>6. Flags' /\ Data'
  BY <1>1, <1>3, <1>4, <1>5 DEF IInv, Flags, Data, gate, refresh, panel
<1>7. SelectedIsShown'
  BY <1>4 DEF IInv, SelectedIsShown, panel
<1>8. PatientInv'
  <2> SUFFICES ASSUME patient'
               PROVE  ~wrong' /\ Aimed(pending', acts', path') /\ Aimed(inbox', acts', path')
    BY Zenon DEF PatientInv
  <2>1. ~wrong /\ Aimed(pending, acts, path) /\ Aimed(inbox, acts, path) /\ acts' = acts
    BY <1>4 DEF IInv, PatientInv
  <2>2. cmd.number # 0 => /\ cmd.number = acts
                          /\ cmd.does \in {"delete", "move"}
                               => AtId(path, cmd.id) = {cmd.tick}
    BY <1>1, <2>1, HeadAimed DEF IInv, Queues
  <2>3. Aimed(Tail(pending), acts, path)
    BY <1>1, <2>1, TailAimed DEF IInv, Queues
  <2> HIDE DEF cmd
  <2>4. /\ ~wrong'
        /\ \A queue \in Seq(Commands) :
              Apart(queue, cmd) /\ Aimed(queue, acts, path) => Aimed(queue, acts, path')
    BY <1>1, <1>2, <2>1, <2>2, RunHits DEF IInv
  <2>5. Aimed(Tail(pending), acts, path') /\ Aimed(inbox, acts, path')
    BY <1>2, <1>5, <2>1, <2>3, <2>4 DEF IInv, Queues
  <2> QED BY <1>1, <2>1, <2>4, <2>5
<1> QED BY <1>3, <1>5, <1>6, <1>7, <1>8 DEF IInv

LEMMA RunningFromRcon == IInv /\ RconRuns => IInv'
<1> SUFFICES ASSUME IInv, RconRuns PROVE IInv'
  OBVIOUS
<1> DEFINE cmd == Head(inbox)
<1>1. /\ inbox # <<>> /\ Run(cmd) /\ inbox' = Tail(inbox)
      /\ UNCHANGED <<pending, faults, notSent>>
  BY DEF RconRuns
<1>2. cmd \in Commands /\ Tail(inbox) \in Seq(Commands)
  BY <1>1, TailQueue DEF IInv, Queues
<1>3. /\ path' \in Tables /\ blanks' \in 0..MaxBlanks /\ GateInv'
      /\ ran' = Counted(ran, cmd)
      /\ deleted' \in BOOLEAN /\ hurried' \in BOOLEAN /\ wrong' \in BOOLEAN
  BY <1>1, <1>2, RunTypes DEF IInv
<1>4. UNCHANGED <<demo, direct, ready, gate, refresh, panel, acts, patient>>
  BY <1>1 DEF Run
<1>5. /\ Queues' /\ DeliveryInv' /\ ran' \in [1..MaxActs -> Nat]
      /\ Apart(Tail(inbox), cmd) /\ Apart(pending, cmd)
  BY <1>1, <1>3, <1>4, RunsFromRcon DEF IInv
<1>6. sent' \in BOOLEAN
  BY Zenon DEF RconRuns
<1>7. Flags' /\ Data'
  BY <1>1, <1>3, <1>4, <1>5, <1>6 DEF IInv, Flags, Data, gate, refresh, panel
<1>8. SelectedIsShown'
  BY <1>4 DEF IInv, SelectedIsShown, panel
<1>9. PatientInv'
  <2> SUFFICES ASSUME patient'
               PROVE  ~wrong' /\ Aimed(pending', acts', path') /\ Aimed(inbox', acts', path')
    BY Zenon DEF PatientInv
  <2>1. ~wrong /\ Aimed(pending, acts, path) /\ Aimed(inbox, acts, path) /\ acts' = acts
    BY <1>4 DEF IInv, PatientInv
  <2>2. cmd.number # 0 => /\ cmd.number = acts
                          /\ cmd.does \in {"delete", "move"}
                               => AtId(path, cmd.id) = {cmd.tick}
    BY <1>1, <2>1, HeadAimed DEF IInv, Queues
  <2>3. Aimed(Tail(inbox), acts, path)
    BY <1>1, <2>1, TailAimed DEF IInv, Queues
  <2> HIDE DEF cmd
  <2>4. /\ ~wrong'
        /\ \A queue \in Seq(Commands) :
              Apart(queue, cmd) /\ Aimed(queue, acts, path) => Aimed(queue, acts, path')
    BY <1>1, <1>2, <2>1, <2>2, RunHits DEF IInv
  <2>5. Aimed(Tail(inbox), acts, path') /\ Aimed(pending, acts, path')
    BY <1>2, <1>5, <2>1, <2>3, <2>4 DEF IInv, Queues
  <2> QED BY <1>1, <2>1, <2>4, <2>5
<1> QED BY <1>3, <1>5, <1>7, <1>8, <1>9 DEF IInv

\* What the RCON worker does with a command leaves all but the queues alone.
LEMMA Working ==
    ASSUME IInv, Queues', DeliveryInv', sent' \in BOOLEAN, faults' \in 0..MaxFaults,
           notSent' \subseteq 1..MaxActs, RconFrame,
           patient => Aimed(pending', acts', path') /\ Aimed(inbox', acts', path')
    PROVE  IInv'
<1>1. UNCHANGED <<game, direct, log, ready, gate, refresh, panel, acts, ran, history>>
  BY DEF RconFrame
<1>2. Flags' /\ Data'
  BY <1>1 DEF IInv, Flags, Data, game, gate, refresh, panel, history
<1>3. GateInv' /\ SelectedIsShown'
  BY <1>1 DEF IInv, GateInv, SelectedIsShown, gate, panel, history
<1>4. PatientInv'
  BY <1>1 DEF IInv, PatientInv, history
<1> QED BY <1>2, <1>3, <1>4 DEF IInv

LEMMA FaultType == ASSUME Data, Fault PROVE faults' \in 0..MaxFaults
  BY TicksType DEF Data, Fault

LEMMA Handing == IInv /\ Send => IInv'
<1> SUFFICES ASSUME IInv, Send PROVE IInv'
  OBVIOUS
<1>1. /\ sent' = TRUE /\ pending # <<>> /\ pending' = Tail(pending)
      /\ inbox' = Append(inbox, Head(pending))
      /\ RconFrame /\ UNCHANGED <<faults, notSent>>
  BY DEF Send
<1>2. acts' = acts /\ path' = path /\ ran' = ran
  BY <1>1 DEF RconFrame, game
<1>3. Queues' /\ DeliveryInv'
  BY <1>1, <1>2, HandsOn DEF IInv
<1>4. ASSUME patient PROVE Aimed(pending', acts', path') /\ Aimed(inbox', acts', path')
  <2>1. Aimed(pending, acts, path) /\ Aimed(inbox, acts, path)
    BY <1>4 DEF IInv, PatientInv
  <2>2. Aimed(Tail(pending), acts, path)
    BY <1>1, <2>1, TailAimed DEF IInv, Queues
  <2> DEFINE cmd == Head(pending)
  <2>3. cmd.number # 0 => /\ cmd.number = acts
                          /\ cmd.does \in {"delete", "move"}
                               => AtId(path, cmd.id) = {cmd.tick}
    BY <1>1, <2>1, HeadAimed DEF IInv, Queues
  <2>4. cmd \in Commands
    BY <1>1, TailQueue DEF IInv, Queues
  <2> HIDE DEF cmd
  <2>5. inbox' = Append(inbox, cmd)
    BY <1>1 DEF cmd
  <2>6. \A i \in DOMAIN inbox' : \/ i \in DOMAIN inbox /\ inbox'[i] = inbox[i]
                                 \/ inbox'[i] = cmd
    BY <2>4, <2>5, AppendQueue DEF IInv, Queues
  <2>7. Aimed(inbox', acts, path)
    <3> SUFFICES ASSUME NEW i \in DOMAIN inbox', inbox'[i].number # 0
                 PROVE  /\ inbox'[i].number = acts
                        /\ inbox'[i].does \in {"delete", "move"}
                             => AtId(path, inbox'[i].id) = {inbox'[i].tick}
      BY Zenon DEF Aimed
    <3>1. CASE i \in DOMAIN inbox /\ inbox'[i] = inbox[i]
      BY <2>1, <3>1 DEF Aimed
    <3>2. CASE inbox'[i] = cmd
      BY <2>3, <3>2
    <3> QED BY <2>6, <3>1, <3>2
  <2> QED BY <1>1, <1>2, <2>2, <2>7
<1>5. faults' \in 0..MaxFaults /\ notSent' \subseteq 1..MaxActs /\ sent' \in BOOLEAN
  BY <1>1 DEF IInv, Data
<1> QED BY <1>1, <1>3, <1>4, <1>5, Working

LEMMA GivingUp == IInv /\ (Unavailable \/ BreaksSending) => IInv'
<1> SUFFICES ASSUME IInv, pending # <<>>, Fault, pending' = Tail(pending),
                    notSent' \in {notSent, notSent \cup ({Head(pending).number} \ {0})},
                    UNCHANGED <<sent, inbox>>
             PROVE  IInv'
  BY DEF Unavailable, BreaksSending
<1>1. RconFrame /\ faults' \in 0..MaxFaults
  BY FaultType DEF Fault, IInv
<1>2. acts' = acts /\ path' = path /\ ran' = ran
  BY <1>1 DEF RconFrame, game
<1>3. Queues' /\ DeliveryInv' /\ notSent' \subseteq 1..MaxActs
  BY <1>2, GivenUp DEF IInv
<1>4. ASSUME patient PROVE Aimed(pending', acts', path') /\ Aimed(inbox', acts', path')
  <2>1. Aimed(pending, acts, path) /\ Aimed(inbox, acts, path)
    BY <1>4 DEF IInv, PatientInv
  <2>2. Aimed(Tail(pending), acts, path)
    BY <2>1, TailAimed DEF IInv, Queues
  <2> QED BY <1>2, <2>1, <2>2
<1>5. sent' \in BOOLEAN
  BY DEF IInv, Flags
<1> QED BY <1>1, <1>3, <1>4, <1>5, Working

LEMMA NotAnswered == IInv /\ AnswerLate => IInv'
<1> SUFFICES ASSUME IInv, AnswerLate PROVE IInv'
  OBVIOUS
<1>1. sent' = FALSE /\ Fault /\ UNCHANGED <<pending, inbox, notSent>>
  BY DEF AnswerLate
<1>2. RconFrame /\ faults' \in 0..MaxFaults
  BY <1>1, FaultType DEF Fault, IInv
<1>3. acts' = acts /\ path' = path /\ ran' = ran
  BY <1>2 DEF RconFrame, game
<1>4. Queues' /\ DeliveryInv'
  BY <1>1, <1>3 DEF IInv, Queues, DeliveryInv
<1>5. patient => Aimed(pending', acts', path') /\ Aimed(inbox', acts', path')
  BY <1>1, <1>3 DEF IInv, PatientInv
<1>6. sent' \in BOOLEAN /\ notSent' \subseteq 1..MaxActs
  BY <1>1 DEF IInv, Data
<1> QED BY <1>2, <1>4, <1>5, <1>6, Working

LEMMA ReadingWhileLoading ==
    ASSUME IInv, NEW count \in 0..Len(log), ReadWhileLoading(count) PROVE IInv'
<1>1. /\ ready' = FALSE /\ log' = SubSeq(log, count + 1, Len(log))
      /\ selected' \in {selected, NoKey}
      /\ UNCHANGED <<game, direct, channel, gate, refresh, shown, acts, faults, ran, notSent,
                     history>>
  BY Zenon DEF ReadWhileLoading
<1>2. GateInv'
  <2>1. log' \in Seq(Lines) /\ (~deleted => log' \in Seq(Harmless))
    BY <1>1, PollType DEF IInv, GateInv
  <2> QED BY <1>1, <2>1 DEF IInv, GateInv, gate, history
<1>3. Flags' /\ Data'
  BY <1>1 DEF IInv, Flags, Data, game, channel, refresh, gate, history
<1>4. Queues' /\ DeliveryInv' /\ SelectedIsShown'
  BY <1>1 DEF IInv, Queues, DeliveryInv, SelectedIsShown, channel
<1>5. PatientInv'
  BY <1>1 DEF IInv, PatientInv, channel, history, game
<1> QED BY <1>2, <1>3, <1>4, <1>5 DEF IInv

LEMMA ReadingAndShowing ==
    ASSUME IInv, NEW count \in 0..Len(log), NEW fires \in BOOLEAN, ReadAndShow(count, fires)
    PROVE  IInv' /\ (~deleted /\ shown # {} => shown' # {})
<1>1. /\ log' = SubSeq(log, count + 1, Len(log))
      /\ ready' \in BOOLEAN /\ permission' \in BOOLEAN /\ due' \in BOOLEAN
      /\ retries' \in 0..2
      /\ ~deleted => ~permission'
      /\ pending' = pending \/ pending' = Append(pending, Sync)
      /\ \/ /\ UNCHANGED <<verified, shown>> /\ selected' \in {selected, NoKey}
         \/ \E rows \in Tables, kept \in {selected, NoKey} :
               /\ verified' = (rows # {}) /\ shown' = rows
               /\ ~deleted /\ shown # {} => rows # {}
               /\ selected' = Reselected(kept, rows)
      /\ ShowFrame
  BY ShowEffect DEF IInv
<1>2. UNCHANGED <<game, direct, sent, inbox, acts, faults, ran, notSent, history>>
  BY <1>1 DEF ShowFrame
<1>3. /\ verified' \in BOOLEAN /\ shown' \in Tables /\ (verified' <=> shown' # {})
      /\ selected' # NoKey => selected' \in Keys(shown')
      /\ ~deleted /\ shown # {} => shown' # {}
  <2>1. CASE UNCHANGED <<verified, shown>> /\ selected' \in {selected, NoKey}
    BY <2>1 DEF IInv, GateInv, Flags, Data, SelectedIsShown
  <2>2. ASSUME NEW rows \in Tables, NEW kept, verified' = (rows # {}), shown' = rows,
               ~deleted /\ shown # {} => rows # {}, selected' = Reselected(kept, rows)
        PROVE  /\ verified' \in BOOLEAN /\ shown' \in Tables /\ (verified' <=> shown' # {})
               /\ selected' # NoKey => selected' \in Keys(shown')
               /\ ~deleted /\ shown # {} => shown' # {}
    <3>1. selected' # NoKey => selected' \in Keys(shown')
      BY <2>2, ReselectedType
    <3>2. verified' \in BOOLEAN /\ (verified' <=> shown' # {})
      BY <2>2, Zenon
    <3> QED BY <2>2, <3>1, <3>2
  <2> QED BY <1>1, <2>1, <2>2
<1>4. GateInv'
  <2>1. log' \in Seq(Lines) /\ (~deleted => log' \in Seq(Harmless))
    BY <1>1, PollType DEF IInv, GateInv
  <2>2. ~deleted' => ~permission'
    BY <1>1, <1>2 DEF history
  <2> QED BY <1>2, <1>3, <2>1, <2>2 DEF GateInv, history
<1>5. Flags' /\ Data'
  BY <1>1, <1>2, <1>3 DEF IInv, Flags, Data, game, history
<1>6. Queues' /\ DeliveryInv' /\ PatientInv'
  <2>1. path' = path /\ patient' = patient /\ wrong' = wrong
    BY <1>2 DEF game, history
  <2>2. CASE pending' = pending
    BY <1>2, <2>1, <2>2 DEF IInv, Queues, DeliveryInv, PatientInv
  <2>3. CASE pending' = Append(pending, Sync)
    BY <1>2, <2>1, <2>3, SyncQueued DEF IInv
  <2> QED BY <1>1, <2>2, <2>3
<1> QED BY <1>3, <1>4, <1>5, <1>6 DEF IInv, SelectedIsShown

LEMMA Stuttering == IInv /\ UNCHANGED vars => IInv'
<1> SUFFICES ASSUME IInv, UNCHANGED vars PROVE IInv'
  OBVIOUS
<1>1. Flags' /\ Data' /\ Queues' /\ GateInv'
  BY DEF IInv, Flags, Data, Queues, GateInv, vars, game, channel, gate, refresh, panel, history
<1>2. SelectedIsShown' /\ DeliveryInv' /\ PatientInv'
  BY DEF IInv, SelectedIsShown, DeliveryInv, PatientInv, vars, game, channel, panel, history
<1> QED BY <1>1, <1>2 DEF IInv

LEMMA NextIInv == IInv /\ [Next]_vars => IInv'
<1> SUFFICES ASSUME IInv, [Next]_vars PROVE IInv'
  OBVIOUS
<1>1. CASE User
  BY <1>1, Selecting, Editing, Sending DEF User
<1>2. CASE Game
  BY <1>2, Adding, Clearing, Restarting, Starting, RunningFromMailbox, RunningFromRcon DEF Game
<1>3. CASE Rcon
  BY <1>3, Handing, GivingUp, NotAnswered DEF Rcon
<1>4. CASE Tick
  BY <1>4, ReadingWhileLoading, ReadingAndShowing DEF Tick
<1>5. CASE UNCHANGED vars
  BY <1>5, Stuttering
<1> QED BY <1>1, <1>2, <1>3, <1>4, <1>5 DEF Next

\* The inductive invariant holds whatever the user, TF2, the worker and the timer do.
THEOREM IInvHolds == Spec => []IInv
  BY InitIInv, NextIInv, PTL DEF Spec

------------------------------------------------------------------------------
(* What follows *)

\* The variables of the Director, of its RCON worker, of the log and of HLAE keep
\* their types; every command that waits for a keyframe names a possible id.
THEOREM TypeInvariant == Spec => []TypeOK
<1>1. IInv => TypeOK
  <2> SUFFICES ASSUME IInv PROVE TypeOK
    OBVIOUS
  <2>1. {sent, ready, verified, permission, due, deleted, hurried, patient, wrong} \subseteq BOOLEAN
    BY DEF IInv, Flags
  <2>2. \A cmd \in Range(pending) \cup Range(inbox) :
           /\ cmd.does \in Kinds
           /\ cmd.does \in {"delete", "move", "goto"} => cmd.id \in 0..(Cardinality(Ticks) - 1)
    <3> SUFFICES ASSUME NEW cmd \in Range(pending) \cup Range(inbox) PROVE cmd \in Commands
      BY DEF Commands
    <3>1. ASSUME NEW queue \in Seq(Commands), cmd \in Range(queue) PROVE cmd \in Commands
      BY <3>1, Element DEF Range
    <3> QED BY <3>1 DEF IInv, Queues
  <2>3. \A line \in Range(log) : line.rows \in Tables
    <3> SUFFICES ASSUME NEW i \in DOMAIN log PROVE log[i].rows \in Tables
      BY DEF Range
    <3>1. log[i] \in Lines
      BY Element DEF IInv, GateInv
    <3> QED BY <3>1 DEF Lines
  <2>4. direct \in BOOLEAN
    BY DEF IInv, Flags
  <2> QED BY <2>1, <2>2, <2>3, <2>4 DEF IInv, Data, TypeOK
<1> QED BY <1>1, IInvHolds, PTL

\* The selected keyframe is a row of the table that is shown, whatever tables,
\* restarts and edits came in between (handle_keyframe_snapshot's reselection).
THEOREM SelectionIsShown == Spec => []SelectedIsShown
<1>1. IInv => SelectedIsShown
  BY DEF IInv
<1> QED BY <1>1, IInvHolds, PTL

\* The markers go only after a deletion or a clear was carried out: no empty
\* print of a seek, a move or a restart erases them (KeyframeSnapshotGate).
THEOREM OnlyDeletionsErase == Spec => KeptWithoutDeletion
<1>1. IInv /\ [Next]_vars => [~deleted /\ shown # {} => shown' # {}]_vars
  <2> SUFFICES ASSUME IInv, [Next]_vars, ~deleted, shown # {} PROVE shown' # {}
    OBVIOUS
  <2>1. CASE User
    BY <2>1 DEF User, SelectKey, Dismiss, EditKey, GoToFrag, LoadCampath, panel
  <2>2. CASE Game
    BY <2>2 DEF Game, AddKey, TypeClear, SafeRestart, ManualReady, Mailbox, RconRuns, Run, panel
  <2>3. CASE Rcon
    BY <2>3 DEF Rcon, Send, Unavailable, BreaksSending, AnswerLate, Fault, RconFrame, panel
  <2>4. CASE Tick
    BY <2>4, ReadingAndShowing DEF Tick, ReadWhileLoading
  <2>5. CASE UNCHANGED vars
    BY <2>5 DEF vars, panel
  <2> QED BY <2>1, <2>2, <2>3, <2>4, <2>5 DEF Next
<1> QED BY <1>1, IInvHolds, PTL DEF Spec, KeptWithoutDeletion

\* Whoever lets the markers settle before each action edits the keyframe that was
\* selected, although the command names a position in a table that TF2 changes:
\* for any number of keyframes and actions (the panel's buttons, main.rs).
THEOREM PatienceHits == Spec => []PatientEditsHit
<1>1. IInv => PatientEditsHit
  BY DEF IInv, PatientInv, PatientEditsHit
<1> QED BY <1>1, IInvHolds, PTL

\* A command of the panel runs once at most, and never when the panel reported it
\* as NOT SENT, whichever exchanges failed (DirectActionOutcome).
THEOREM DeliveryIsHonest == Spec => []DeliveredHonestly
<1>1. IInv => DeliveredHonestly
  BY DEF IInv, DeliveryInv, DeliveredHonestly
<1> QED BY <1>1, IInvHolds, PTL
=============================================================================
