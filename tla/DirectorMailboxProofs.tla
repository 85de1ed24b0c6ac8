------------------------- MODULE DirectorMailboxProofs -------------------------
(***************************************************************************)
(* Proofs about DirectorMailbox for any number of slots, requests, safe    *)
(* restarts, failing file calls and actions carried out again: the queue   *)
(* is well typed, the Director and TF2 agree on the slot until an action   *)
(* is carried out again, and the queue keeps the promise of                *)
(* MailboxContract.                                                        *)
(***************************************************************************)
EXTENDS DirectorMailbox, SequenceTheorems, TLAPS

(* What Append does, in the form in which the steps below need it. *)

LEMMA Appended ==
    ASSUME NEW S, NEW s \in Seq(S), NEW e \in S
    PROVE  /\ Append(s, e) \in Seq(S) /\ Len(s) \in Nat
           /\ DOMAIN s = 1..Len(s) /\ DOMAIN Append(s, e) = 1..(Len(s) + 1)
           /\ \A i \in DOMAIN s : i \in DOMAIN Append(s, e) /\ Append(s, e)[i] = s[i]
           /\ Append(s, e)[Len(s) + 1] = e /\ Len(s) + 1 \in DOMAIN Append(s, e)
           /\ \A i \in DOMAIN Append(s, e) : i \in DOMAIN s \/ i = Len(s) + 1
<1>1. /\ Append(s, e) \in Seq(S) /\ Len(Append(s, e)) = Len(s) + 1
      /\ \A i \in 1..Len(s) : Append(s, e)[i] = s[i]
      /\ Append(s, e)[Len(s) + 1] = e
  BY AppendProperties
<1>2. Len(s) \in Nat /\ DOMAIN s = 1..Len(s)
  BY LenProperties
<1>3. DOMAIN Append(s, e) = 1..(Len(s) + 1)
  BY <1>1, LenProperties
<1> QED BY <1>1, <1>2, <1>3

\* An element of a sequence is of the sequence's type.
LEMMA Element == ASSUME NEW S, NEW s \in Seq(S), NEW i \in DOMAIN s PROVE s[i] \in S
  BY LenProperties

(* Type correctness *)

LEMMA RingType ==
    /\ 0 \in SlotIds
    /\ \A s \in SlotIds : NextSlot(s) \in SlotIds /\ NextSlot(s) # s
  BY MailboxAssumption DEF SlotIds, NextSlot

LEMMA InitTypeOK == Init => TypeOK
<1> SUFFICES ASSUME Init PROVE TypeOK
  OBVIOUS
<1>1. log \in Seq(Lines)
  BY DEF Init, PausedAtStart, Line, Lines
<1>2. slot \in [SlotIds -> SlotFile]
  BY DEF Init, SlotFile
<1>3. /\ ready \in BOOLEAN /\ polling \in BOOLEAN /\ key \in BOOLEAN /\ probe \in BOOLEAN
      /\ spoiled \in BOOLEAN
  BY Zenon DEF Init
<1>4. /\ pending \in Seq(Actions) /\ executed \in Seq(Actions) /\ reported \in Seq(Actions)
      /\ dropped \subseteq Actions /\ repeats \in 0..MaxRepeats
  BY MailboxAssumption DEF Init
<1>5. /\ inFlight \in InFlight \cup {NoAction} /\ nextSlot \in SlotIds /\ cursor \in SlotIds
      /\ nextSeq \in Nat /\ transport \in Transports /\ demo \in {"loading", "loaded"}
      /\ requested \in 0..MaxActions /\ reloads \in 0..MaxReloads /\ faults \in 0..MaxFaults
  BY RingType, MailboxAssumption DEF Init, Transports
<1> QED BY <1>1, <1>2, <1>3, <1>4, <1>5 DEF TypeOK

\* A step that starts the next action, or has none to start, keeps the types.
LEMMA StartNextTypes ==
    ASSUME TypeOK, NEW queue \in Seq(Actions), NEW disk \in [SlotIds -> SlotFile],
           NEW at \in SlotIds, StartNext(queue, disk, at)
    PROVE  /\ inFlight' \in InFlight \cup {NoAction} /\ pending' \in Seq(Actions)
           /\ nextSeq' \in Nat /\ slot' \in [SlotIds -> SlotFile]
           /\ dropped' \subseteq Actions /\ faults' \in 0..MaxFaults
<1>1. CASE queue = <<>>
  BY <1>1 DEF StartNext, TypeOK
<1>2. CASE queue # <<>>
  <2>1. Head(queue) \in Actions /\ Tail(queue) \in Seq(Actions)
    BY <1>2, HeadTailProperties
  <2>2. nextSeq \in Nat /\ dropped \subseteq Actions /\ faults \in 0..MaxFaults
    BY DEF TypeOK
  <2>3. CASE WriteSlot(queue, disk, at)
    <3>1. [action |-> Head(queue), seq |-> nextSeq] \in SlotFile
      BY <2>1, <2>2 DEF SlotFile
    <3>2. [action |-> Head(queue), seq |-> nextSeq, slot |-> at] \in InFlight
      BY <2>1, <2>2 DEF InFlight
    <3> QED BY <2>1, <2>2, <2>3, <3>1, <3>2 DEF WriteSlot, NoFault
  <2>4. CASE DirectoryFails(queue, disk)
    BY <2>1, <2>2, <2>4, MailboxAssumption DEF DirectoryFails, Fault
  <2>5. CASE WriteFails(queue, disk)
    BY <2>1, <2>2, <2>5, MailboxAssumption DEF WriteFails, Fault
  <2> QED BY <1>2, <2>3, <2>4, <2>5 DEF StartNext
<1> QED BY <1>1, <1>2

LEMMA PressKeyType == ASSUME TypeOK, NEW t, PressKeyIf(t) PROVE key' \in BOOLEAN
  BY Zenon DEF TypeOK, PressKeyIf

LEMMA EnqueueTypes == TypeOK /\ Enqueue => TypeOK'
<1> SUFFICES ASSUME TypeOK, Enqueue PROVE TypeOK'
  OBVIOUS
<1> DEFINE queue == Append(pending, requested')
<1>1. requested' \in 0..MaxActions /\ requested' \in Actions
  BY MailboxAssumption DEF TypeOK, Enqueue, Actions
<1>2. queue \in Seq(Actions)
  BY <1>1 DEF TypeOK
<1>3. /\ inFlight' \in InFlight \cup {NoAction} /\ pending' \in Seq(Actions)
      /\ nextSeq' \in Nat /\ slot' \in [SlotIds -> SlotFile]
      /\ dropped' \subseteq Actions /\ faults' \in 0..MaxFaults
  <2>1. CASE inFlight = NoAction
    <3>1. StartNext(queue, slot, nextSlot)
      BY <2>1 DEF Enqueue
    <3> HIDE DEF queue
    <3> QED BY <1>2, <3>1, StartNextTypes DEF TypeOK
  <2>2. CASE inFlight # NoAction
    BY <1>2, <2>2 DEF Enqueue, TypeOK
  <2> QED BY <2>1, <2>2
<1>4. key' \in BOOLEAN
  BY PressKeyType DEF Enqueue
<1>5. UNCHANGED <<nextSlot, transport, ready, log, cursor, polling, demo, probe, executed,
                  reported, spoiled, repeats, reloads>>
  BY DEF Enqueue, game
<1> QED BY <1>1, <1>3, <1>4, <1>5 DEF TypeOK

LEMMA ReadLogTypes == TypeOK /\ ReadLog => TypeOK'
<1> SUFFICES ASSUME TypeOK, NEW n \in 1..Len(log),
                    LET lines   == {log[i] : i \in 1..n}
                        settled == /\ BelievesReady(lines)
                                   /\ inFlight # NoAction
                                   /\ AckLine(inFlight.seq) \in lines
                    IN  /\ log' = SubSeq(log, n + 1, Len(log))
                        /\ ready' = BelievesReady(lines)
                        /\ PollAnswer(lines)
                        /\ IF settled THEN Acknowledge ELSE KeepWaiting
                        /\ PressKeyIf(/\ transport' = "InputFallback"
                                      /\ \/ inFlight # NoAction /\ PollUnavailable \in lines
                                         \/ settled /\ inFlight' # NoAction)
                        /\ UNCHANGED <<requested, game, executed, repeats, reloads>>
             PROVE  TypeOK'
  BY DEF ReadLog
<1> DEFINE lines   == {log[i] : i \in 1..n}
           settled == /\ BelievesReady(lines)
                      /\ inFlight # NoAction
                      /\ AckLine(inFlight.seq) \in lines
<1>1. log' \in Seq(Lines)
  <2>1. log \in Seq(Lines) /\ Len(log) \in Nat
    BY DEF TypeOK
  <2>2. \A i \in n + 1 .. Len(log) : log[i] \in Lines
    BY <2>1
  <2> QED BY <2>1, <2>2, SubSeqProperties
<1>2. ready' \in BOOLEAN
  BY Zenon DEF BelievesReady, TypeOK
<1>3. transport' \in Transports
  BY DEF PollAnswer, TypeOK, Transports
<1>4. key' \in BOOLEAN
  BY PressKeyType
<1>5. UNCHANGED <<requested, cursor, polling, demo, probe, executed, repeats, reloads>>
  BY DEF game
<1>6. CASE settled /\ Acknowledge
  <2>1. inFlight \in InFlight /\ inFlight.slot \in SlotIds /\ inFlight.action \in Actions
    BY <1>6 DEF TypeOK, InFlight
  <2>2. nextSlot' \in SlotIds /\ reported' \in Seq(Actions)
    BY <1>6, <2>1, RingType DEF Acknowledge, TypeOK
  <2>3. PICK disk \in Retired : StartNext(pending, disk, NextSlot(inFlight.slot))
    BY <1>6 DEF Acknowledge
  <2>4. disk \in [SlotIds -> SlotFile]
    BY <2>1 DEF Retired, TypeOK, SlotFile
  <2>5. /\ inFlight' \in InFlight \cup {NoAction} /\ pending' \in Seq(Actions)
        /\ nextSeq' \in Nat /\ slot' \in [SlotIds -> SlotFile]
        /\ dropped' \subseteq Actions /\ faults' \in 0..MaxFaults
    BY <2>1, <2>3, <2>4, RingType, StartNextTypes DEF TypeOK
  <2>6. spoiled' \in BOOLEAN
    BY <1>6, Zenon DEF Acknowledge
  <2> QED BY <1>1, <1>2, <1>3, <1>4, <1>5, <2>2, <2>5, <2>6 DEF TypeOK
<1>7. CASE KeepWaiting
  <2> HIDE DEF lines, settled
  <2> QED BY <1>1, <1>2, <1>3, <1>4, <1>5, <1>7 DEF TypeOK, KeepWaiting
<1> QED BY <1>6, <1>7

LEMMA ExecuteTypes ==
    ASSUME TypeOK, ExecuteSlot
    PROVE  /\ cursor' \in SlotIds /\ executed' \in Seq(Actions) /\ log' \in Seq(Lines)
           /\ repeats' \in 0..MaxRepeats
<1>1. CASE slot[cursor] = Nothing
  BY <1>1 DEF ExecuteSlot, TypeOK
<1>2. CASE slot[cursor] # Nothing
  <2>1. slot[cursor].action \in Actions /\ slot[cursor].seq \in Nat
    BY <1>2 DEF TypeOK, SlotFile
  <2>2. AckLine(slot[cursor].seq) \in Lines
    BY <2>1 DEF AckLine, Lines
  <2>3. cursor' \in SlotIds
    BY <1>2, RingType DEF ExecuteSlot, TypeOK
  <2>4. CarryOut(slot[cursor].action) /\ log' = Append(log, AckLine(slot[cursor].seq))
    BY <1>2 DEF ExecuteSlot
  <2>5. executed \in Seq(Actions) /\ log \in Seq(Lines) /\ repeats \in 0..MaxRepeats
    BY DEF TypeOK
  <2>6. repeats' \in 0..MaxRepeats
    BY <2>4, <2>5, MailboxAssumption DEF CarryOut
  <2>7. executed' = executed \/ executed' = Append(executed, slot[cursor].action)
    BY <2>4 DEF CarryOut
  <2>8. Append(executed, slot[cursor].action) \in Seq(Actions)
    BY <2>1, <2>5, Appended
  <2>9. log' \in Seq(Lines)
    BY <2>2, <2>4, <2>5, Appended
  <2> QED BY <2>3, <2>5, <2>6, <2>7, <2>8, <2>9
<1> QED BY <1>1, <1>2

LEMMA GameTypes ==
    ASSUME TypeOK,
           PollLoop \/ KeyArrives \/ UserPressesKey \/ SafeRestart \/ DemoLoaded \/ WaitProbe
    PROVE  TypeOK'
<1>1. \A kind \in {"reload", "ready", "pollReady", "pollUnavailable"} :
         Append(log, Line(kind)) \in Seq(Lines)
  BY DEF Line, Lines, TypeOK
<1>2. CASE PollLoop
  BY <1>2, ExecuteTypes DEF PollLoop, TypeOK, director, bounds
<1>3. CASE KeyArrives
  <2>1. key' \in BOOLEAN
    BY <1>3, Zenon DEF KeyArrives
  <2> QED BY <1>3, <2>1, ExecuteTypes DEF KeyArrives, TypeOK, director, bounds
<1>4. CASE UserPressesKey
  <2>1. key' \in BOOLEAN
    BY <1>4, Zenon DEF UserPressesKey
  <2> QED BY <1>4, <2>1 DEF UserPressesKey, TypeOK, director, game, history, bounds
<1>5. CASE SafeRestart
  <2>1. polling' \in BOOLEAN
    BY <1>5, Zenon DEF SafeRestart
  <2>2. reloads' \in 0..MaxReloads
    BY <1>5, MailboxAssumption DEF SafeRestart, TypeOK
  <2> QED BY <1>1, <1>5, <2>1, <2>2 DEF SafeRestart, Reloading, TypeOK, director, history
<1>6. CASE DemoLoaded
  <2>1. probe' \in BOOLEAN
    BY <1>6, Zenon DEF DemoLoaded
  <2> QED BY <1>1, <1>6, <2>1 DEF DemoLoaded, PausedAtStart, TypeOK, director, history, bounds
<1>7. CASE WaitProbe
  <2>1. probe' \in BOOLEAN /\ polling' \in BOOLEAN
    BY <1>7, Zenon DEF WaitProbe
  <2> QED BY <1>1, <1>7, <2>1 DEF WaitProbe, PollReady, PollUnavailable, TypeOK, director,
                                  history, bounds
<1> QED BY <1>2, <1>3, <1>4, <1>5, <1>6, <1>7

LEMMA StutterTypes == TypeOK /\ UNCHANGED vars => TypeOK'
  BY DEF TypeOK, vars, director, game, history, bounds

\* Every state of the queue is well typed (DirectorActionQueue and the aliases).
THEOREM TypeInvariant == Spec => []TypeOK
<1>1. TypeOK /\ [Next]_vars => TypeOK'
  BY EnqueueTypes, ReadLogTypes, GameTypes, StutterTypes DEF Next
<1> QED BY InitTypeOK, <1>1, PTL DEF Spec

-----------------------------------------------------------------------------
(* The inductive invariant *)

Awaiting  == inFlight # NoAction
Delivered == Awaiting /\ executed = Append(reported, inFlight.action)

\* TF2 is one action ahead of the reports at most, the one in flight.
AheadInv == Delivered \/ executed = reported

\* Slot s holds an action of an earlier turn that could not be overwritten.
Stale(s) ==
    /\ spoiled /\ Executed(slot[s].action)
    /\ slot[s].seq < nextSeq /\ (Awaiting => slot[s].seq # inFlight.seq)

\* The action in flight is in the Director's slot; the others are empty or
\* stale.  TF2 is at the Director's slot, or has just left it, until it has
\* carried something out again, from a stale slot.
RingInv ==
    /\ Awaiting => /\ inFlight.slot = nextSlot
                   /\ slot[nextSlot] = [action |-> inFlight.action, seq |-> inFlight.seq]
    /\ \A s \in SlotIds : slot[s] # Nothing => (Awaiting /\ s = nextSlot) \/ Stale(s)
    /\ repeats = 0 => cursor = IF Delivered THEN NextSlot(nextSlot) ELSE nextSlot
    /\ repeats # 0 => spoiled

Sorted(queue) == \A i, j \in DOMAIN queue : i < j => queue[i] < queue[j]

\* Action a may still be carried out: it was asked for, not given up, and comes
\* after all that has been reported.
Due(a) ==
    /\ a <= requested /\ a \notin dropped
    /\ \A k \in DOMAIN reported : reported[k] < a

\* The action in flight comes before those that wait, and they are in order.
OrderInv ==
    /\ Awaiting => Due(inFlight.action) /\ \A i \in DOMAIN pending : inFlight.action < pending[i]
    /\ Sorted(pending) /\ \A i \in DOMAIN pending : Due(pending[i])

\* No action is given up or reported before it was asked for.
AskedInv ==
    /\ \A a \in dropped : a <= requested
    /\ \A k \in DOMAIN reported : reported[k] <= requested

\* A line with the number of the action in flight says that TF2 has run it.
AckInv ==
    /\ Awaiting => inFlight.seq < nextSeq
    /\ \A i \in DOMAIN log : log[i].line = "ack" =>
          /\ log[i].seq < nextSeq
          /\ Awaiting /\ log[i].seq = inFlight.seq => Delivered

\* Until the demo is restarted the Director reads every acknowledgement it gets.
HeardInv ==
    reloads = 0 =>
        /\ ready /\ \A i \in DOMAIN log : log[i] # Reloading
        /\ Delivered => \E i \in DOMAIN log : log[i] = AckLine(inFlight.seq)

Mutual == AheadInv /\ RingInv /\ OrderInv /\ AskedInv /\ AckInv

IInv == TypeOK /\ Mutual /\ HeardInv

LEMMA InitIInv == Init => IInv
<1> SUFFICES ASSUME Init PROVE IInv
  OBVIOUS
<1>1. TypeOK
  BY InitTypeOK
<1>2. ~ Awaiting /\ executed = reported
  BY DEF Init, Awaiting
<1>3. RingInv /\ AheadInv /\ OrderInv /\ AskedInv
  BY <1>2 DEF Init, RingInv, AheadInv, Delivered, OrderInv, Sorted, AskedInv
<1>4. AckInv /\ HeardInv
  BY <1>2 DEF Init, AckInv, HeardInv, Delivered, PausedAtStart, Reloading, Line
<1> QED BY <1>1, <1>3, <1>4 DEF IInv, Mutual

\* A sequence is not itself with one element more.
LEMMA AppendDiffers ==
    ASSUME NEW S, NEW s \in Seq(S), NEW e PROVE Append(s, e) # s
<1>1. Len(Append(s, e)) = Len(s) + 1 /\ Len(s) \in Nat
  OBVIOUS
<1> QED BY <1>1

LEMMA TailOfSorted ==
    ASSUME NEW queue \in Seq(Actions), queue # <<>>, Sorted(queue)
    PROVE  /\ Head(queue) = queue[1] /\ 1 \in DOMAIN queue
           /\ Tail(queue) \in Seq(Actions) /\ Sorted(Tail(queue))
           /\ \A i \in DOMAIN Tail(queue) :
                 /\ i + 1 \in DOMAIN queue
                 /\ Tail(queue)[i] = queue[i + 1] /\ Head(queue) < Tail(queue)[i]
<1>1. /\ Head(queue) = queue[1] /\ Tail(queue) \in Seq(Actions)
      /\ Len(queue) \in Nat /\ Len(queue) > 0 /\ Len(Tail(queue)) = Len(queue) - 1
      /\ DOMAIN queue = 1..Len(queue) /\ DOMAIN Tail(queue) = 1..Len(Tail(queue))
      /\ \A i \in 1..Len(Tail(queue)) : Tail(queue)[i] = queue[i + 1]
  BY HeadTailProperties, LenProperties, EmptySeq
<1>2. \A i \in DOMAIN Tail(queue) : i \in Nat \ {0} /\ i + 1 \in DOMAIN queue
  BY <1>1
<1>3. 1 \in DOMAIN queue
  BY <1>1
<1>4. \A i \in DOMAIN Tail(queue) : Head(queue) < Tail(queue)[i]
  BY <1>1, <1>2, <1>3 DEF Sorted
<1>5. Sorted(Tail(queue))
  BY <1>1, <1>2 DEF Sorted
<1> QED BY <1>1, <1>2, <1>3, <1>4, <1>5

\* What a step does that starts the next action of an ordered queue: one goes
\* into the slot, or one is given up, or none is touched.
LEMMA StartNextCases ==
    ASSUME TypeOK, NEW queue \in Seq(Actions), Sorted(queue), NEW disk, NEW at,
           StartNext(queue, disk, at)
    PROVE  /\ pending' \in Seq(Actions) /\ Sorted(pending')
           /\ \A i \in DOMAIN pending' : \E j \in DOMAIN queue : pending'[i] = queue[j]
           /\ nextSeq' >= nextSeq
           /\ \/ /\ inFlight' = NoAction /\ slot' = disk
                 /\ \/ dropped' = dropped
                    \/ \E j \in DOMAIN queue :
                          /\ dropped' = dropped \cup {queue[j]}
                          /\ \A i \in DOMAIN pending' : queue[j] < pending'[i]
              \/ /\ dropped' = dropped
                 /\ \E j \in DOMAIN queue :
                       /\ inFlight' = [action |-> queue[j], seq |-> nextSeq, slot |-> at]
                       /\ slot' = [disk EXCEPT ![at] = [action |-> queue[j], seq |-> nextSeq]]
                       /\ nextSeq' = nextSeq + 1
                       /\ \A i \in DOMAIN pending' : queue[j] < pending'[i]
<1>0. nextSeq \in Nat
  BY DEF TypeOK
<1>1. CASE queue = <<>>
  BY <1>0, <1>1 DEF StartNext
<1>2. CASE queue # <<>>
  <2>1. /\ Head(queue) = queue[1] /\ 1 \in DOMAIN queue
        /\ Tail(queue) \in Seq(Actions) /\ Sorted(Tail(queue))
        /\ \A i \in DOMAIN Tail(queue) :
              /\ i + 1 \in DOMAIN queue
              /\ Tail(queue)[i] = queue[i + 1] /\ Head(queue) < Tail(queue)[i]
    BY <1>2, TailOfSorted
  <2>2. CASE WriteSlot(queue, disk, at)
    <3>1. /\ inFlight' = [action |-> queue[1], seq |-> nextSeq, slot |-> at]
          /\ slot' = [disk EXCEPT ![at] = [action |-> queue[1], seq |-> nextSeq]]
          /\ nextSeq' = nextSeq + 1 /\ dropped' = dropped /\ pending' = Tail(queue)
      BY <2>1, <2>2 DEF WriteSlot
    <3>2. \A i \in DOMAIN pending' : queue[1] < pending'[i]
      BY <2>1, <3>1
    <3>3. nextSeq' >= nextSeq
      BY <1>0, <3>1
    <3>4. \A i \in DOMAIN pending' : \E j \in DOMAIN queue : pending'[i] = queue[j]
      BY <2>1, <3>1
    <3> QED BY <2>1, <3>1, <3>2, <3>3, <3>4
  <2>3. CASE DirectoryFails(queue, disk)
    BY <1>0, <2>1, <2>3 DEF DirectoryFails
  <2>4. CASE WriteFails(queue, disk)
    BY <1>0, <2>1, <2>4 DEF WriteFails
  <2> QED BY <1>2, <2>2, <2>3, <2>4 DEF StartNext
<1> QED BY <1>1, <1>2

\* Such a step keeps the invariant if it starts from slots with nothing but
\* actions of earlier turns, with nothing executed that is not reported and
\* every action of the queue due.
LEMMA StartNextKeeps ==
    ASSUME TypeOK, TypeOK', NEW queue \in Seq(Actions), Sorted(queue), NEW at \in SlotIds,
           NEW disk \in [SlotIds -> SlotFile], StartNext(queue, disk, at),
           \A s \in SlotIds : disk[s] # Nothing =>
              /\ spoiled' /\ disk[s].seq < nextSeq
              /\ \E i \in DOMAIN executed' : executed'[i] = disk[s].action,
           nextSlot' = at, executed' = reported',
           repeats' = 0 => cursor' = at, repeats' # 0 => spoiled',
           \A j \in DOMAIN queue :
              /\ queue[j] <= requested' /\ queue[j] \notin dropped
              /\ \A k \in DOMAIN reported' : reported'[k] < queue[j],
           \A a \in dropped : a <= requested',
           \A k \in DOMAIN reported' : reported'[k] <= requested',
           \A i \in DOMAIN log' : log'[i].line = "ack" => log'[i].seq < nextSeq
    PROVE  Mutual' /\ ~ Delivered'
<1>1. /\ pending' \in Seq(Actions) /\ Sorted(pending')
      /\ \A i \in DOMAIN pending' : \E j \in DOMAIN queue : pending'[i] = queue[j]
      /\ nextSeq' >= nextSeq
  BY StartNextCases
<1>2. nextSeq \in Nat /\ nextSeq' \in Nat /\ reported' \in Seq(Actions) /\ log' \in Seq(Lines)
  BY DEF TypeOK
<1>3. ~ Delivered'
  BY <1>2, AppendDiffers DEF Delivered
<1>4. AheadInv'
  BY DEF AheadInv
<1>5. \A i \in DOMAIN log' : log'[i].line = "ack" => log'[i].seq < nextSeq /\ log'[i].seq \in Nat
  <2>1. \A i \in DOMAIN log' : log'[i] \in Lines
    BY <1>2, Element
  <2> QED BY <2>1 DEF Lines
<1>6. CASE inFlight' = NoAction /\ slot' = disk
  <2>1. ~ Awaiting'
    BY <1>6 DEF Awaiting
  <2>2. RingInv'
    <3>1. \A s \in SlotIds : slot'[s] # Nothing => Stale(s)'
      <4> SUFFICES ASSUME NEW s \in SlotIds, slot'[s] # Nothing PROVE Stale(s)'
        OBVIOUS
      <4>1. disk[s] \in SlotFile /\ disk[s] # Nothing
        BY <1>6
      <4>2. disk[s].seq \in Nat
        BY <4>1 DEF SlotFile
      <4>3. spoiled' /\ disk[s].seq < nextSeq'
        BY <1>1, <1>2, <4>1, <4>2
      <4>4. \E i \in DOMAIN executed' : executed'[i] = slot'[s].action
        BY <1>6, <4>1
      <4>5. Executed(slot[s].action)'
        BY <4>4 DEF Executed
      <4> QED BY <1>6, <2>1, <4>3, <4>5 DEF Stale
    <3> QED BY <1>3, <2>1, <3>1 DEF RingInv
  <2>3. AckInv'
    BY <1>1, <1>2, <1>5, <2>1 DEF AckInv
  <2>4. CASE dropped' = dropped
    <3>1. OrderInv' /\ AskedInv'
      BY <1>1, <2>1, <2>4 DEF OrderInv, AskedInv, Due
    <3> QED BY <1>3, <1>4, <2>2, <2>3, <3>1 DEF Mutual
  <2>5. CASE \E j \in DOMAIN queue :
                /\ dropped' = dropped \cup {queue[j]}
                /\ \A i \in DOMAIN pending' : queue[j] < pending'[i]
    <3>1. PICK j \in DOMAIN queue :
                /\ dropped' = dropped \cup {queue[j]}
                /\ \A i \in DOMAIN pending' : queue[j] < pending'[i]
      BY <2>5
    <3>2. queue[j] \in Nat /\ queue[j] <= requested'
      <4>1. queue[j] \in Actions
        BY Element
      <4> QED BY <4>1 DEF Actions
    <3>3. \A i \in DOMAIN pending' : Due(pending[i])'
      BY <1>1, <3>1, <3>2 DEF Due
    <3>4. OrderInv' /\ AskedInv'
      BY <1>1, <2>1, <3>1, <3>2, <3>3 DEF OrderInv, AskedInv
    <3> QED BY <1>3, <1>4, <2>2, <2>3, <3>4 DEF Mutual
  <2>6. TypeOK /\ (dropped' = dropped \/ \E j \in DOMAIN queue :
                /\ dropped' = dropped \cup {queue[j]}
                /\ \A i \in DOMAIN pending' : queue[j] < pending'[i])
    <3>1. ~ \E j \in DOMAIN queue :
               inFlight' = [action |-> queue[j], seq |-> nextSeq, slot |-> at]
      BY <1>6 DEF NoAction
    <3> QED BY <3>1, StartNextCases
  <2> QED BY <2>4, <2>5, <2>6
<1>7. ASSUME dropped' = dropped, NEW j \in DOMAIN queue,
             inFlight' = [action |-> queue[j], seq |-> nextSeq, slot |-> at],
             slot' = [disk EXCEPT ![at] = [action |-> queue[j], seq |-> nextSeq]],
             nextSeq' = nextSeq + 1,
             \A i \in DOMAIN pending' : queue[j] < pending'[i]
      PROVE  RingInv' /\ OrderInv' /\ AskedInv' /\ AckInv'
  <2>1. Awaiting' /\ inFlight'.action = queue[j] /\ inFlight'.slot = at /\ inFlight'.seq = nextSeq
    BY <1>7 DEF Awaiting, NoAction
  <2>2. RingInv'
    <3>1. slot'[at] = [action |-> queue[j], seq |-> nextSeq]
          /\ \A s \in SlotIds : s # at => slot'[s] = disk[s]
      BY <1>7
    <3>2. \A s \in SlotIds : slot'[s] # Nothing => s = at \/ Stale(s)'
      <4> SUFFICES ASSUME NEW s \in SlotIds, slot'[s] # Nothing, s # at PROVE Stale(s)'
        OBVIOUS
      <4>1. slot'[s] = disk[s] /\ disk[s] \in SlotFile /\ disk[s] # Nothing
        BY <3>1
      <4>2. disk[s].seq \in Nat
        BY <4>1 DEF SlotFile
      <4> QED BY <1>2, <1>7, <2>1, <4>1, <4>2 DEF Stale, Executed
    <3> QED BY <1>3, <2>1, <3>1, <3>2 DEF RingInv
  <2>3. OrderInv' /\ AskedInv'
    BY <1>1, <1>7, <2>1 DEF OrderInv, Due, AskedInv
  <2>4. AckInv'
    BY <1>2, <1>5, <1>7, <2>1 DEF AckInv
  <2> QED BY <2>2, <2>3, <2>4
<1> QED BY <1>3, <1>4, <1>6, <1>7, StartNextCases DEF Mutual

LEMMA EnqueueKeeps == IInv /\ Enqueue => IInv'
<1> SUFFICES ASSUME IInv, Enqueue PROVE IInv'
  OBVIOUS
<1> DEFINE queue == Append(pending, requested')
<1>1. TypeOK /\ TypeOK'
  BY EnqueueTypes DEF IInv
<1>2. requested \in Nat /\ requested' = requested + 1 /\ requested' \in Actions
  BY <1>1, MailboxAssumption DEF TypeOK, Enqueue, Actions
<1>3. pending \in Seq(Actions) /\ reported \in Seq(Actions) /\ dropped \subseteq Actions
  BY <1>1 DEF TypeOK
<1>4. UNCHANGED <<nextSlot, cursor, log, ready, executed, reported, spoiled, repeats, reloads>>
  BY DEF Enqueue, game
<1>5. \A a \in dropped : a <= requested /\ a # requested'
  <2>1. dropped \subseteq Int
    BY <1>3, MailboxAssumption DEF Actions
  <2> QED BY <1>2, <2>1 DEF IInv, Mutual, AskedInv
<1>6. \A k \in DOMAIN reported : reported[k] \in Int /\ reported[k] <= requested
  <2>1. \A k \in DOMAIN reported : reported[k] \in Actions
    BY <1>3, Element
  <2> QED BY <2>1, MailboxAssumption DEF IInv, Mutual, AskedInv, Actions
<1>7. \A i \in DOMAIN pending : pending[i] \in Int /\ Due(pending[i])
  <2>1. \A i \in DOMAIN pending : pending[i] \in Actions
    BY <1>3, Element
  <2> QED BY <2>1, MailboxAssumption DEF IInv, Mutual, OrderInv, Actions
<1>8. /\ queue \in Seq(Actions)
      /\ \A i \in DOMAIN pending : queue[i] = pending[i]
      /\ queue[Len(pending) + 1] = requested'
      /\ \A i \in DOMAIN queue : i \in DOMAIN pending \/ i = Len(pending) + 1
      /\ DOMAIN queue = 1..(Len(pending) + 1) /\ Len(pending) \in Nat
      /\ DOMAIN pending = 1..Len(pending)
  BY <1>2, <1>3, Appended
<1> HIDE DEF queue
<1>9. \A j \in DOMAIN queue :
         /\ queue[j] <= requested' /\ queue[j] \notin dropped
         /\ \A k \in DOMAIN reported : reported[k] < queue[j]
  BY <1>2, <1>5, <1>6, <1>7, <1>8 DEF Due
<1>10. Sorted(queue)
  <2> SUFFICES ASSUME NEW i \in DOMAIN queue, NEW j \in DOMAIN queue, i < j
               PROVE  queue[i] < queue[j]
    BY DEF Sorted
  <2>1. Sorted(pending)
    BY DEF IInv, Mutual, OrderInv
  <2>2. i \in 1..Len(pending) /\ queue[i] = pending[i]
    BY <1>8
  <2> QED BY <1>2, <1>7, <1>8, <2>1, <2>2 DEF Sorted, Due
<1>11. CASE inFlight = NoAction
  <2>1. StartNext(queue, slot, nextSlot)
    BY <1>11 DEF Enqueue, queue
  <2>2. ~ Awaiting /\ ~ Delivered
    BY <1>11 DEF Awaiting, Delivered
  <2>3. /\ executed' = reported' /\ (repeats' = 0 => cursor' = nextSlot)
        /\ (repeats' # 0 => spoiled')
        /\ \A s \in SlotIds : slot[s] # Nothing =>
              /\ spoiled' /\ slot[s].seq < nextSeq
              /\ \E i \in DOMAIN executed' : executed'[i] = slot[s].action
    BY <1>4, <2>2 DEF IInv, Mutual, RingInv, AheadInv, Stale, Executed
  <2>4. \A i \in DOMAIN log' : log'[i].line = "ack" => log'[i].seq < nextSeq
    BY <1>4 DEF IInv, Mutual, AckInv
  <2>5. nextSlot \in SlotIds /\ slot \in [SlotIds -> SlotFile]
    BY <1>1 DEF TypeOK
  <2>6. \A a \in dropped : a <= requested'
    BY <1>9, <1>2, <1>3, <1>5, MailboxAssumption DEF Actions
  <2>7. \A k \in DOMAIN reported : reported[k] <= requested'
    BY <1>2, <1>6
  <2>8. Mutual' /\ ~ Delivered'
    BY <1>1, <1>4, <1>8, <1>9, <1>10, <2>1, <2>3, <2>4, <2>5, <2>6, <2>7, StartNextKeeps
  <2> QED BY <1>1, <1>4, <2>8 DEF IInv, HeardInv
<1>12. CASE inFlight # NoAction
  <2>1. pending' = queue /\ UNCHANGED <<inFlight, nextSeq, slot, dropped>>
    BY <1>12 DEF Enqueue, queue
  <2>2. Awaiting /\ Awaiting' /\ (Delivered' <=> Delivered)
    BY <1>4, <1>12, <2>1 DEF Awaiting, Delivered
  <2>3. RingInv' /\ AheadInv' /\ AckInv' /\ HeardInv'
    BY <1>4, <2>1, <2>2 DEF IInv, Mutual, RingInv, Stale, Executed, AheadInv, AckInv, HeardInv
  <2>4. AskedInv'
    BY <1>2, <1>4, <1>5, <1>6, <2>1, <1>3, MailboxAssumption DEF AskedInv, Actions
  <2>5. inFlight.action \in Int /\ Due(inFlight.action)
    BY <1>1, <2>2, MailboxAssumption DEF IInv, Mutual, OrderInv, TypeOK, InFlight, Awaiting, Actions
  <2>6. \A i \in DOMAIN queue : inFlight.action < queue[i]
    BY <1>2, <1>8, <2>2, <2>5 DEF IInv, Mutual, OrderInv, Due
  <2>7. OrderInv'
    BY <1>2, <1>4, <1>9, <1>10, <2>1, <2>2, <2>5, <2>6 DEF OrderInv, Due
  <2> QED BY <1>1, <1>4, <2>3, <2>4, <2>7 DEF IInv, Mutual
<1> QED BY <1>11, <1>12

\* The action in flight is among the executed ones just when TF2 is ahead.
LEMMA ExecutedIsDelivered ==
    ASSUME IInv, Awaiting
    PROVE  Delivered <=> Executed(inFlight.action)
<1>1. reported \in Seq(Actions) /\ inFlight.action \in Actions /\ Actions \subseteq Int
  BY MailboxAssumption DEF IInv, TypeOK, Awaiting, InFlight, Actions
<1>2. CASE Delivered
  <2>1. /\ Append(reported, inFlight.action)[Len(reported) + 1] = inFlight.action
        /\ Len(reported) + 1 \in DOMAIN Append(reported, inFlight.action)
    BY <1>1, Appended
  <2> QED BY <1>2, <2>1 DEF Delivered, Executed
<1>3. CASE ~ Delivered
  <2>1. executed = reported /\ \A k \in DOMAIN reported : reported[k] < inFlight.action
    BY <1>3 DEF IInv, Mutual, AheadInv, OrderInv, Due
  <2>2. \A k \in DOMAIN reported : reported[k] \in Actions
    BY <1>1, Element
  <2>3. \A k \in DOMAIN reported : reported[k] # inFlight.action
    <3>1. inFlight.action \in Int /\ \A k \in DOMAIN reported : reported[k] \in Int
      BY <1>1, <2>2
    <3> QED BY <2>1, <3>1
  <2> QED BY <1>3, <2>1, <2>3 DEF Executed
<1> QED BY <1>2, <1>3

\* What TF2 finds at its cursor for the first time is the action in flight.
LEMMA FoundNew ==
    ASSUME IInv, slot[cursor] # Nothing, ~ Executed(slot[cursor].action)
    PROVE  /\ Awaiting /\ ~ Delivered /\ executed = reported /\ cursor = nextSlot
           /\ slot[cursor] = [action |-> inFlight.action, seq |-> inFlight.seq]
<1>1. cursor \in SlotIds
  BY DEF IInv, TypeOK
<1>2. Awaiting /\ cursor = nextSlot
  BY <1>1 DEF IInv, Mutual, RingInv, Stale
<1>3. slot[cursor] = [action |-> inFlight.action, seq |-> inFlight.seq]
  BY <1>2 DEF IInv, Mutual, RingInv
<1>4. ~ Executed(inFlight.action)
  BY <1>3
<1> QED BY <1>2, <1>3, <1>4, ExecutedIsDelivered DEF IInv, Mutual, AheadInv

\* What it finds again is stale, or the action in flight that a stale slot led
\* it back to: in both cases a slot could not be overwritten, and the line it
\* echoes is none the Director could mistake.
LEMMA FoundAgain ==
    ASSUME IInv, slot[cursor] # Nothing, Executed(slot[cursor].action)
    PROVE  /\ spoiled /\ slot[cursor].seq < nextSeq
           /\ Awaiting /\ slot[cursor].seq = inFlight.seq => Delivered
<1>1. cursor \in SlotIds /\ nextSlot \in SlotIds
  BY DEF IInv, TypeOK
<1>2. CASE Stale(cursor)
  BY <1>2 DEF Stale
<1>3. CASE Awaiting /\ cursor = nextSlot
  <2>1. slot[cursor] = [action |-> inFlight.action, seq |-> inFlight.seq]
    BY <1>3 DEF IInv, Mutual, RingInv
  <2>2. inFlight.seq < nextSeq
    BY <1>3 DEF IInv, Mutual, AckInv
  <2>3. Executed(inFlight.action)
    BY <2>1
  <2>4. Delivered
    BY <1>3, <2>3, ExecutedIsDelivered
  <2>5. NextSlot(nextSlot) # nextSlot
    BY <1>1, RingType
  <2>6. spoiled
    BY <1>3, <2>4, <2>5 DEF IInv, Mutual, RingInv
  <2> QED BY <2>1, <2>2, <2>4, <2>6
<1> QED BY <1>1, <1>2, <1>3 DEF IInv, Mutual, RingInv

LEMMA FirstTimeKeeps ==
    ASSUME IInv, TypeOK', ExecuteSlot, slot[cursor] # Nothing, ~ Executed(slot[cursor].action),
           UNCHANGED <<requested, director, slot, reported, dropped, spoiled, reloads>>
    PROVE  IInv'
<1>1. /\ Awaiting /\ ~ Delivered /\ executed = reported /\ cursor = nextSlot
      /\ slot[cursor] = [action |-> inFlight.action, seq |-> inFlight.seq]
  BY FoundNew
<1>2. UNCHANGED <<pending, inFlight, nextSlot, nextSeq, transport, ready, repeats>>
  BY DEF director, ExecuteSlot, CarryOut
<1>3. /\ executed' = Append(reported, inFlight.action)
      /\ cursor' = NextSlot(nextSlot)
      /\ log' = Append(log, AckLine(inFlight.seq))
  BY <1>1 DEF ExecuteSlot, CarryOut
<1>4. Awaiting' /\ Delivered'
  BY <1>1, <1>2, <1>3 DEF Awaiting, Delivered
<1>5. /\ inFlight.seq \in Nat /\ log \in Seq(Lines) /\ AckLine(inFlight.seq) \in Lines
      /\ reported \in Seq(Actions) /\ inFlight.action \in Actions
  BY <1>1 DEF IInv, TypeOK, Awaiting, InFlight, AckLine, Lines
<1>6. /\ \A i \in DOMAIN log : log'[i] = log[i]
      /\ log'[Len(log) + 1] = AckLine(inFlight.seq) /\ Len(log) + 1 \in DOMAIN log'
      /\ \A i \in DOMAIN log' : i \in DOMAIN log \/ i = Len(log) + 1
  BY <1>3, <1>5, Appended
<1>7. \A i \in DOMAIN executed : i \in DOMAIN executed' /\ executed'[i] = executed[i]
  BY <1>1, <1>3, <1>5, Appended
<1>8. \A s \in SlotIds : Stale(s) => Stale(s)'
  <2> SUFFICES ASSUME NEW s \in SlotIds, Stale(s) PROVE Stale(s)'
    OBVIOUS
  <2>1. PICK i \in DOMAIN executed : executed[i] = slot[s].action
    BY DEF Stale, Executed
  <2>2. i \in DOMAIN executed' /\ executed'[i] = slot'[s].action
    BY <1>7, <2>1
  <2>3. Executed(slot[s].action)'
    BY <2>2 DEF Executed
  <2> QED BY <1>1, <1>2, <1>4, <2>3 DEF Stale
<1>9. AheadInv' /\ RingInv'
  <2>1. AheadInv'
    BY <1>4 DEF AheadInv
  <2> QED BY <1>1, <1>2, <1>3, <1>4, <1>8, <2>1 DEF IInv, Mutual, RingInv
<1>10. OrderInv' /\ AskedInv'
  BY <1>1, <1>2, <1>4 DEF IInv, Mutual, OrderInv, Due, AskedInv
<1>11. AckInv'
  BY <1>1, <1>2, <1>4, <1>6 DEF IInv, Mutual, AckInv, AckLine
<1>12. HeardInv'
  BY <1>2, <1>4, <1>6 DEF IInv, HeardInv, AckLine, Reloading, Line
<1> QED BY <1>9, <1>10, <1>11, <1>12 DEF IInv, Mutual

\* A line added to the log that acknowledges nothing, or what TF2 has done
\* again, changes nothing the Director and TF2 agree on.
LEMMA LogGrows ==
    ASSUME IInv, TypeOK', NEW line \in Lines,
           line.line = "ack" =>
              line.seq < nextSeq /\ (Awaiting /\ line.seq = inFlight.seq => Delivered),
           log' = Append(log, line),
           UNCHANGED <<requested, director, slot, executed, reported, dropped, spoiled>>,
           repeats' = 0 => repeats = 0 /\ cursor' = cursor, repeats' # 0 => spoiled,
           reloads' = 0 => reloads = 0 /\ line # Reloading
    PROVE  IInv'
<1>1. UNCHANGED <<pending, inFlight, nextSlot, nextSeq, transport, ready>>
  BY DEF director
<1>2. (Awaiting' <=> Awaiting) /\ (Delivered' <=> Delivered)
  BY <1>1 DEF Awaiting, Delivered
<1>3. log \in Seq(Lines)
  BY DEF IInv, TypeOK
<1>4. /\ \A i \in DOMAIN log : i \in DOMAIN log' /\ log'[i] = log[i]
      /\ log'[Len(log) + 1] = line
      /\ \A i \in DOMAIN log' : i \in DOMAIN log \/ i = Len(log) + 1
  BY <1>3, Appended
<1>5. AheadInv' /\ OrderInv' /\ AskedInv'
  BY <1>1, <1>2 DEF IInv, Mutual, AheadInv, OrderInv, Due, AskedInv
<1>6. RingInv'
  BY <1>1, <1>2 DEF IInv, Mutual, RingInv, Stale, Executed
<1>7. AckInv'
  BY <1>1, <1>2, <1>4 DEF IInv, Mutual, AckInv
<1>8. HeardInv'
  BY <1>1, <1>2, <1>4 DEF IInv, HeardInv
<1> QED BY <1>5, <1>6, <1>7, <1>8 DEF IInv, Mutual

LEMMA ExecuteKeeps ==
    ASSUME IInv, TypeOK', ExecuteSlot, slot[cursor] # Nothing,
           UNCHANGED <<requested, director, slot, reported, dropped, spoiled, reloads>>
    PROVE  IInv'
<1>1. CASE ~ Executed(slot[cursor].action)
  BY <1>1, FirstTimeKeeps
<1>2. CASE Executed(slot[cursor].action)
  <2>1. /\ executed' = executed /\ repeats' = repeats + 1
        /\ log' = Append(log, AckLine(slot[cursor].seq))
    BY <1>2 DEF ExecuteSlot, CarryOut
  <2>2. repeats' # 0 /\ slot[cursor].seq \in Nat
    BY <2>1 DEF IInv, TypeOK, SlotFile
  <2>3. AckLine(slot[cursor].seq) \in Lines /\ AckLine(slot[cursor].seq) # Reloading
        /\ AckLine(slot[cursor].seq).seq = slot[cursor].seq
    BY <2>2 DEF AckLine, Lines, Reloading, Line
  <2> QED BY <1>2, <2>1, <2>2, <2>3, FoundAgain, LogGrows
<1> QED BY <1>1, <1>2

LEMMA GameKeeps ==
    ASSUME IInv,
           PollLoop \/ KeyArrives \/ UserPressesKey \/ SafeRestart \/ DemoLoaded \/ WaitProbe
    PROVE  IInv'
<1>1. TypeOK'
  BY GameTypes DEF IInv
<1>2. \A kind \in {"reload", "ready", "pollReady", "pollUnavailable"} :
         Line(kind) \in Lines /\ Line(kind).line = kind
  BY DEF Line, Lines
<1>3. CASE PollLoop
  BY <1>1, <1>3, ExecuteKeeps DEF PollLoop, bounds
<1>4. CASE KeyArrives /\ slot[cursor] # Nothing
  BY <1>1, <1>4, ExecuteKeeps DEF KeyArrives, bounds
<1>5. ASSUME UNCHANGED <<requested, director, slot, log, cursor, history, reloads>>
      PROVE  IInv'
  <2>1. UNCHANGED <<pending, inFlight, nextSlot, nextSeq, transport, ready, executed, reported,
                    dropped, spoiled, repeats, log, cursor, slot, requested, reloads>>
    BY <1>5 DEF director, history
  <2>2. (Awaiting' <=> Awaiting) /\ (Delivered' <=> Delivered)
    BY <2>1 DEF Awaiting, Delivered
  <2>3. Mutual'
    BY <2>1, <2>2 DEF IInv, Mutual, RingInv, Stale, Executed, AheadInv, OrderInv, Due, AskedInv,
                      AckInv
  <2>4. HeardInv'
    BY <2>1, <2>2 DEF IInv, HeardInv
  <2> QED BY <1>1, <2>3, <2>4 DEF IInv
<1>6. CASE KeyArrives /\ slot[cursor] = Nothing
  BY <1>5, <1>6 DEF KeyArrives, ExecuteSlot, history, bounds
<1>7. CASE UserPressesKey
  BY <1>5, <1>7 DEF UserPressesKey, game, bounds
<1>8. CASE SafeRestart
  <2>1. reloads' # 0
    BY <1>8 DEF SafeRestart, IInv, TypeOK
  <2> QED BY <1>1, <1>2, <1>8, <2>1, LogGrows DEF SafeRestart, Reloading, history, IInv, Mutual,
                                                 RingInv
<1>9. CASE DemoLoaded
  <2>1. log' = Append(log, Line("ready")) /\ Line("ready") # Reloading
    BY <1>9 DEF DemoLoaded, PausedAtStart, Reloading, Line
  <2> QED BY <1>1, <1>2, <1>9, <2>1, LogGrows DEF DemoLoaded, history, bounds, IInv, Mutual,
                                                 RingInv
<1>10. CASE WaitProbe
  <2>1. PICK kind \in {"pollReady", "pollUnavailable"} :
           log' = Append(log, Line(kind)) /\ Line(kind) # Reloading
    BY <1>10 DEF WaitProbe, PollReady, PollUnavailable, Reloading, Line
  <2> QED BY <1>1, <1>2, <1>10, <2>1, LogGrows DEF WaitProbe, history, bounds, IInv, Mutual,
                                                  RingInv
<1> QED BY <1>3, <1>4, <1>6, <1>7, <1>8, <1>9, <1>10

\* What is left of the log after n lines have been read.
LEMMA LogRead ==
    ASSUME TypeOK, NEW n \in 1..Len(log), log' = SubSeq(log, n + 1, Len(log))
    PROVE  /\ \A i \in DOMAIN log' : n + i \in DOMAIN log /\ log'[i] = log[n + i]
           /\ \A i \in DOMAIN log : i > n => i - n \in DOMAIN log' /\ log'[i - n] = log[i]
           /\ 1..n \subseteq DOMAIN log
<1>1. log \in Seq(Lines) /\ Len(log) \in Nat /\ DOMAIN log = 1..Len(log)
  BY LenProperties DEF TypeOK
<1>2. \A i \in n + 1 .. Len(log) : log[i] \in Lines
  BY <1>1
<1>3. /\ log' \in Seq(Lines)
      /\ Len(log') = IF n + 1 <= Len(log) THEN Len(log) - (n + 1) + 1 ELSE 0
      /\ \A i \in 1 .. Len(log) - (n + 1) + 1 : log'[i] = log[n + 1 + i - 1]
  BY <1>1, <1>2, SubSeqProperties
<1>4. DOMAIN log' = 1..(Len(log) - n)
  BY <1>1, <1>3, LenProperties
<1>5. \A i \in DOMAIN log' : n + i \in DOMAIN log /\ log'[i] = log[n + i]
  BY <1>1, <1>3, <1>4
<1>6. \A i \in DOMAIN log : i > n => i - n \in DOMAIN log' /\ log'[i - n] = log[i]
  <2> SUFFICES ASSUME NEW i \in DOMAIN log, i > n
               PROVE  i - n \in DOMAIN log' /\ log'[i - n] = log[i]
    OBVIOUS
  <2>1. i - n \in DOMAIN log' /\ n + (i - n) = i
    BY <1>1, <1>4
  <2> QED BY <1>5, <2>1
<1> QED BY <1>1, <1>5, <1>6

\* The Director settles the action in flight: TF2 has executed it, the slot is
\* empty or stale, and the Director is at the slot after it.
LEMMA AcknowledgeKeeps ==
    ASSUME IInv, TypeOK', Delivered, Acknowledge,
           UNCHANGED <<requested, cursor, executed, repeats, reloads>>,
           \A i \in DOMAIN log' : log'[i].line = "ack" => log'[i].seq < nextSeq
    PROVE  Mutual' /\ ~ Delivered'
<1>1. /\ TypeOK /\ Awaiting /\ inFlight.slot = nextSlot
      /\ executed = Append(reported, inFlight.action) /\ nextSlot \in SlotIds
      /\ slot[nextSlot] = [action |-> inFlight.action, seq |-> inFlight.seq]
      /\ inFlight.seq < nextSeq /\ (repeats = 0 => cursor = NextSlot(nextSlot))
  BY DEF IInv, Mutual, RingInv, AckInv, Delivered, TypeOK
<1>2. /\ pending \in Seq(Actions) /\ reported \in Seq(Actions) /\ dropped \subseteq Actions
      /\ inFlight.action \in Actions /\ Actions \subseteq Int /\ requested \in Int
  BY <1>1, MailboxAssumption DEF TypeOK, Awaiting, InFlight, Actions
<1>3. PICK disk \in Retired :
         /\ spoiled' = (spoiled \/ disk = slot)
         /\ StartNext(pending, disk, NextSlot(nextSlot))
  BY <1>1 DEF Acknowledge
<1>4. /\ nextSlot' = NextSlot(nextSlot) /\ reported' = Append(reported, inFlight.action)
      /\ (repeats' # 0 => spoiled')
  BY <1>1, <1>3 DEF Acknowledge, IInv, Mutual, RingInv
<1>5. \A k \in DOMAIN reported' :
         \/ reported'[k] = inFlight.action
         \/ k \in DOMAIN reported /\ reported'[k] = reported[k]
  <2>1. /\ \A k \in DOMAIN reported : reported'[k] = reported[k]
        /\ reported'[Len(reported) + 1] = inFlight.action
        /\ \A k \in DOMAIN reported' : k \in DOMAIN reported \/ k = Len(reported) + 1
    BY <1>2, <1>4, Appended
  <2> QED BY <2>1
<1>6. /\ Due(inFlight.action) /\ \A i \in DOMAIN pending : inFlight.action < pending[i]
      /\ Sorted(pending) /\ \A i \in DOMAIN pending : Due(pending[i])
      /\ \A a \in dropped : a <= requested
      /\ \A k \in DOMAIN reported : reported[k] <= requested
  BY <1>1 DEF IInv, Mutual, OrderInv, AskedInv
<1>7. \A j \in DOMAIN pending :
         /\ pending[j] <= requested' /\ pending[j] \notin dropped
         /\ \A k \in DOMAIN reported' : reported'[k] < pending[j]
  BY <1>5, <1>6 DEF Due
<1>8. \A k \in DOMAIN reported' : reported'[k] <= requested'
  BY <1>5, <1>6 DEF Due
<1>9. NextSlot(nextSlot) \in SlotIds
  BY <1>1, RingType
<1>10. /\ disk \in [SlotIds -> SlotFile]
       /\ \A s \in SlotIds : disk[s] # Nothing =>
             /\ spoiled' /\ disk[s].seq < nextSeq
             /\ \E i \in DOMAIN executed' : executed'[i] = disk[s].action
  <2>1. slot \in [SlotIds -> SlotFile] /\ Nothing \in SlotFile
    BY <1>1 DEF TypeOK, SlotFile
  <2>2. disk \in [SlotIds -> SlotFile] /\ \A s \in SlotIds : s # nextSlot => disk[s] = slot[s]
    BY <1>1, <2>1 DEF Retired
  <2>3. ASSUME NEW s \in SlotIds, disk[s] # Nothing, s # nextSlot
        PROVE  /\ spoiled' /\ disk[s].seq < nextSeq
               /\ \E i \in DOMAIN executed' : executed'[i] = disk[s].action
    <3>1. Stale(s) /\ disk[s] = slot[s]
      BY <2>2, <2>3 DEF IInv, Mutual, RingInv
    <3> QED BY <1>3, <3>1 DEF Stale, Executed
  <2>4. ASSUME disk[nextSlot] # Nothing
        PROVE  /\ spoiled' /\ disk[nextSlot].seq < nextSeq
               /\ \E i \in DOMAIN executed' : executed'[i] = disk[nextSlot].action
    <3>1. disk = slot
      BY <1>1, <2>1, <2>4 DEF Retired
    <3>2. Executed(inFlight.action)
      BY <1>1, ExecutedIsDelivered
    <3>3. disk[nextSlot].action = inFlight.action /\ disk[nextSlot].seq = inFlight.seq
      BY <1>1, <3>1
    <3>4. \E i \in DOMAIN executed' : executed'[i] = inFlight.action
      BY <3>2 DEF Executed
    <3> QED BY <1>1, <1>3, <3>1, <3>3, <3>4
  <2> QED BY <2>2, <2>3, <2>4
<1> QED BY <1>1, <1>2, <1>3, <1>4, <1>6, <1>7, <1>8, <1>9, <1>10, StartNextKeeps

LEMMA ReadLogKeeps == IInv /\ ReadLog => IInv'
<1> SUFFICES ASSUME IInv, ReadLog PROVE IInv'
  OBVIOUS
<1>1. TypeOK /\ TypeOK'
  BY ReadLogTypes DEF IInv
<1>2. PICK n \in 1..Len(log) :
         LET lines   == {log[i] : i \in 1..n}
             settled == /\ BelievesReady(lines)
                        /\ inFlight # NoAction
                        /\ AckLine(inFlight.seq) \in lines
         IN  /\ log' = SubSeq(log, n + 1, Len(log))
             /\ ready' = BelievesReady(lines)
             /\ IF settled THEN Acknowledge ELSE KeepWaiting
             /\ UNCHANGED <<requested, game, executed, repeats, reloads>>
  BY DEF ReadLog
<1> DEFINE lines   == {log[i] : i \in 1..n}
           settled == /\ BelievesReady(lines)
                      /\ inFlight # NoAction
                      /\ AckLine(inFlight.seq) \in lines
<1>3. /\ \A i \in DOMAIN log' : n + i \in DOMAIN log /\ log'[i] = log[n + i]
      /\ \A i \in DOMAIN log : i > n => i - n \in DOMAIN log' /\ log'[i - n] = log[i]
      /\ 1..n \subseteq DOMAIN log
  BY <1>1, <1>2, LogRead
<1>4. UNCHANGED <<requested, cursor, executed, repeats, reloads>>
  BY <1>2 DEF game
<1>5. \A i \in DOMAIN log' : log'[i].line = "ack" => log'[i].seq < nextSeq
  BY <1>3 DEF IInv, Mutual, AckInv
<1>6. reloads = 0 => ready' /\ \A i \in DOMAIN log' : log'[i] # Reloading
  BY <1>2, <1>3 DEF IInv, HeardInv, BelievesReady
<1>7. CASE settled
  <2>1. PICK i \in 1..n : log[i] = AckLine(inFlight.seq)
    BY <1>7
  <2>2. Delivered
    BY <1>3, <1>7, <2>1 DEF IInv, Mutual, AckInv, AckLine, Awaiting
  <2>3. Mutual' /\ ~ Delivered'
    BY <1>1, <1>2, <1>4, <1>5, <1>7, <2>2, AcknowledgeKeeps
  <2> QED BY <1>1, <1>4, <1>6, <2>3 DEF IInv, HeardInv
<1>8. CASE ~ settled
  <2>1. UNCHANGED <<nextSlot, reported, pending, inFlight, nextSeq, slot, dropped, spoiled, faults>>
    BY <1>2, <1>8 DEF KeepWaiting
  <2>2. (Awaiting' <=> Awaiting) /\ (Delivered' <=> Delivered)
    BY <1>4, <2>1 DEF Awaiting, Delivered
  <2>3. AheadInv' /\ RingInv' /\ OrderInv' /\ AskedInv'
    BY <1>4, <2>1, <2>2 DEF IInv, Mutual, RingInv, Stale, Executed, AheadInv, OrderInv, Due,
                            AskedInv
  <2>4. AckInv'
    BY <1>3, <2>1, <2>2 DEF IInv, Mutual, AckInv
  <2>5. ASSUME reloads = 0, Delivered
        PROVE  \E i \in DOMAIN log' : log'[i] = AckLine(inFlight.seq)
    <3>1. PICK i \in DOMAIN log : log[i] = AckLine(inFlight.seq)
      BY <2>5 DEF IInv, HeardInv
    <3>2. i \in Nat \ {0} /\ n \in Nat /\ i \notin 1..n
      <4>1. ready'
        BY <1>6, <2>5
      <4>2. i \in 1..Len(log)
        BY <1>1, LenProperties DEF TypeOK
      <4>3. i \notin 1..n
        BY <1>2, <1>8, <2>5, <3>1, <4>1 DEF Delivered, Awaiting
      <4> QED BY <4>2, <4>3
    <3>3. i > n
      BY ONLY <3>2
    <3> QED BY <1>3, <3>1, <3>3
  <2> QED BY <1>1, <1>4, <1>6, <2>1, <2>2, <2>3, <2>4, <2>5 DEF IInv, Mutual, HeardInv
<1> QED BY <1>7, <1>8

LEMMA StutterKeeps == IInv /\ UNCHANGED vars => IInv'
<1> SUFFICES ASSUME IInv, UNCHANGED vars PROVE IInv'
  OBVIOUS
<1>1. TypeOK'
  BY StutterTypes DEF IInv
<1>2. (Awaiting' <=> Awaiting) /\ (Delivered' <=> Delivered)
  BY DEF Awaiting, Delivered, vars, director, history
<1>3. Mutual'
  BY <1>2 DEF IInv, Mutual, RingInv, Stale, Executed, AheadInv, OrderInv, Due, AskedInv, AckInv,
              vars, director, game, history
<1>4. HeardInv'
  BY <1>2 DEF IInv, HeardInv, vars, director, bounds
<1> QED BY <1>1, <1>3, <1>4 DEF IInv

\* The strengthened invariant: it says what the Director and TF2 know of each other.
THEOREM IInvHolds == Spec => []IInv
<1>1. IInv /\ [Next]_vars => IInv'
  BY EnqueueKeeps, ReadLogKeeps, GameKeeps, StutterKeeps DEF Next
<1> QED BY InitIInv, <1>1, PTL DEF Spec

-----------------------------------------------------------------------------
(* What follows from it *)

\* The Director and TF2 count slots separately and do not disagree before an
\* action has been carried out again (acknowledge, the alias of the next slot).
THEOREM CursorsNeverPart == Spec => []CursorsAgree
<1>1. IInv => CursorsAgree
  <2> SUFFICES ASSUME IInv PROVE CursorsAgree
    OBVIOUS
  <2>1. CASE Awaiting
    BY <2>1, ExecutedIsDelivered DEF CursorsAgree, IInv, Mutual, RingInv, Awaiting
  <2>2. CASE ~ Awaiting
    BY <2>2 DEF CursorsAgree, IInv, Mutual, RingInv, Awaiting, Delivered
  <2> QED BY <2>1, <2>2
<1> QED BY <1>1, IInvHolds, PTL

\* As long as the demo has not been restarted, an action TF2 has carried out
\* has its acknowledgement still to be read while the Director waits for it.
THEOREM AcknowledgementNotLost == Spec => []AckComesUndisturbed
<1>1. IInv => AckComesUndisturbed
  <2> SUFFICES ASSUME IInv, reloads = 0, Awaiting, Executed(inFlight.action)
               PROVE  \E i \in DOMAIN log : log[i] = AckLine(inFlight.seq)
    BY DEF AckComesUndisturbed, AckStillToCome, Awaiting
  <2> QED BY ExecutedIsDelivered DEF IInv, HeardInv
<1> QED BY <1>1, IInvHolds, PTL

-----------------------------------------------------------------------------
(* The queue keeps the promise of MailboxContract *)

\* Every step asks for an action or reports one, as the contract lets it, or
\* executes one, or changes nothing the contract speaks of.
LEMMA InitContract == Init => Contract!Init
  BY DEF Init, Contract!Init

\* An action that may still be carried out is not settled.
LEMMA DueIsUnsettled ==
    ASSUME IInv, IInv', NEW a \in Actions, a <= requested', a \notin dropped,
           \A i \in DOMAIN executed : executed[i] < a
    PROVE  a \in Contract!Unsettled
<1>1. a \in 1..requested'
  BY MailboxAssumption DEF Actions, IInv, TypeOK
<1>2. executed \in Seq(Actions) /\ \A i \in DOMAIN executed : executed[i] \in Int
  <2>1. executed \in Seq(Actions) /\ Actions \subseteq Int
    BY MailboxAssumption DEF IInv, TypeOK, Actions
  <2> QED BY <2>1, Element
<1>3. \A i \in DOMAIN executed : executed[i] # a
  BY <1>1, <1>2
<1> QED BY <1>1, <1>3 DEF Contract!Unsettled, Contract!Range

LEMMA EnqueueAsks == ASSUME IInv, IInv', Enqueue PROVE Contract!Next
<1> DEFINE queue == Append(pending, requested')
<1>1. /\ requested' = requested + 1 /\ requested' \in Actions /\ requested \in Nat
      /\ UNCHANGED <<executed, reported, spoiled, repeats>>
  BY MailboxAssumption DEF Enqueue, IInv, TypeOK, Actions
<1>2. dropped' = dropped \/ \E a \in Contract!Unsettled : dropped' = dropped \cup {a}
  <2>1. CASE inFlight = NoAction /\ DirectoryFails(queue, slot)
    <3>1. dropped' = dropped \cup {Head(queue)}
      BY <2>1 DEF DirectoryFails
    <3>2. executed = reported
      BY <2>1 DEF IInv, Mutual, AheadInv, Delivered, Awaiting
    <3>3. Head(queue) \in Actions /\ Head(queue) = queue[1]
      <4>1. pending \in Seq(Actions)
        BY DEF IInv, TypeOK
      <4>2. queue \in Seq(Actions) /\ queue # <<>>
        BY <1>1, <4>1, AppendProperties
      <4> HIDE DEF queue
      <4> QED BY <4>2, HeadTailProperties
    <3>4. queue[1] = requested' \/ (1 \in DOMAIN pending /\ queue[1] = pending[1])
      <4>1. pending \in Seq(Actions)
        BY DEF IInv, TypeOK
      <4>2. /\ \A i \in DOMAIN pending : queue[i] = pending[i]
            /\ queue[Len(pending) + 1] = requested' /\ DOMAIN pending = 1..Len(pending)
            /\ Len(pending) \in Nat
        BY <1>1, <4>1, Appended
      <4> HIDE DEF queue
      <4>3. CASE Len(pending) = 0
        BY <4>2, <4>3
      <4>4. CASE Len(pending) # 0
        BY <4>2, <4>4
      <4> QED BY <4>3, <4>4
    <3>5. CASE queue[1] = requested'
      <4>1. requested' \notin dropped
        BY <1>1, MailboxAssumption DEF IInv, Mutual, AskedInv, TypeOK, Actions
      <4>2. \A i \in DOMAIN executed : executed[i] < requested'
        <5>1. executed \in Seq(Actions) /\ Actions \subseteq Int
          BY MailboxAssumption DEF IInv, TypeOK, Actions
        <5>2. \A i \in DOMAIN executed : executed[i] \in Int
          BY <5>1, Element
        <5> QED BY <1>1, <3>2, <5>2 DEF IInv, Mutual, AskedInv
      <4> QED BY <1>1, <3>1, <3>3, <3>5, <4>1, <4>2, DueIsUnsettled
    <3>6. CASE 1 \in DOMAIN pending /\ queue[1] = pending[1]
      <4>1. Due(queue[1])
        BY <3>6 DEF IInv, Mutual, OrderInv
      <4>2. queue[1] <= requested'
        BY <1>1, <3>3, <4>1, MailboxAssumption DEF Due, Actions
      <4> QED BY <3>1, <3>2, <3>3, <4>1, <4>2, DueIsUnsettled DEF Due
    <3> QED BY <3>4, <3>5, <3>6
  <2>2. CASE ~ (inFlight = NoAction /\ DirectoryFails(queue, slot))
    <3>1. dropped' = dropped
      <4> HIDE DEF queue
      <4> QED BY <2>2 DEF Enqueue, queue, StartNext, WriteSlot, WriteFails
    <3> QED BY <3>1
  <2> QED BY <2>1, <2>2
<1> QED BY <1>1, <1>2 DEF Contract!Next, Contract!Ask, Contract!Report

LEMMA ReadLogReports == ASSUME IInv, IInv', ReadLog PROVE [Contract!Next]_Contract!vars
<1>1. UNCHANGED <<requested, executed, repeats>>
  BY DEF ReadLog
<1>2. CASE KeepWaiting
  BY <1>1, <1>2 DEF KeepWaiting, Contract!vars
<1>3. CASE ~ KeepWaiting
  <2>1. PICK n \in 1..Len(log) :
           /\ log' = SubSeq(log, n + 1, Len(log))
           /\ inFlight # NoAction /\ Acknowledge
           /\ AckLine(inFlight.seq) \in {log[i] : i \in 1..n}
           /\ UNCHANGED <<game, reloads>>
    BY <1>3 DEF ReadLog
  <2>2. /\ \A i \in DOMAIN log' : n + i \in DOMAIN log /\ log'[i] = log[n + i]
        /\ 1..n \subseteq DOMAIN log
    BY <2>1, LogRead DEF IInv
  <2>3. Delivered
    BY <2>1, <2>2 DEF IInv, Mutual, AckInv, AckLine, Awaiting
  <2>4. spoiled' \in {spoiled, TRUE}
    <3>1. spoiled' \in BOOLEAN /\ (spoiled => spoiled')
      BY <2>1, Zenon DEF Acknowledge
    <3>2. spoiled \in BOOLEAN
      BY DEF IInv, TypeOK
    <3> QED BY <3>1, <3>2
  <2>5. PICK disk : StartNext(pending, disk, NextSlot(inFlight.slot))
    BY <2>1 DEF Acknowledge
  <2>6. reported' = executed /\ executed = Append(reported, inFlight.action)
    BY <2>1, <2>3 DEF Acknowledge, Delivered
  <2>7. Contract!Report
    <3>1. reported \in Seq(Actions) /\ inFlight.action \in Actions
      BY <2>3 DEF IInv, TypeOK, Delivered, Awaiting, InFlight
    <3>2. /\ Len(executed) = Len(reported) + 1 /\ Len(reported) \in Nat
          /\ executed[Len(reported) + 1] = inFlight.action
      BY <2>6, <3>1, AppendProperties, LenProperties
    <3>3. Len(reported) < Len(executed)
          /\ reported' = Append(reported, executed[Len(reported) + 1])
      BY <2>6, <3>2
    <3> QED BY <2>4, <3>3, Zenon DEF Contract!Report
  <2>8. dropped' = dropped \/ \E a \in Contract!Unsettled : dropped' = dropped \cup {a}
    <3>1. CASE pending # <<>> /\ dropped' = dropped \cup {Head(pending)}
      <4>1. pending \in Seq(Actions) /\ reported \in Seq(Actions)
        BY DEF IInv, TypeOK
      <4>2. Head(pending) \in Actions /\ Head(pending) = pending[1] /\ 1 \in DOMAIN pending
        BY <3>1, <4>1, HeadTailProperties, TailOfSorted DEF IInv, Mutual, OrderInv
      <4>3. Due(pending[1]) /\ inFlight.action < pending[1] /\ inFlight.action \in Actions
        BY <2>3, <4>2 DEF IInv, Mutual, OrderInv, Delivered, TypeOK, Awaiting, InFlight
      <4>4. \A i \in DOMAIN executed : executed[i] < pending[1]
        <5>1. /\ \A k \in DOMAIN reported : executed[k] = reported[k]
              /\ executed[Len(reported) + 1] = inFlight.action
              /\ \A k \in DOMAIN executed : k \in DOMAIN reported \/ k = Len(reported) + 1
          BY <2>6, <4>1, <4>3, Appended
        <5> QED BY <4>3, <5>1 DEF Due
      <4> QED BY <1>1, <3>1, <4>2, <4>3, <4>4, DueIsUnsettled DEF Due
    <3>2. CASE ~ (pending # <<>> /\ dropped' = dropped \cup {Head(pending)})
      BY <2>5, <3>2 DEF StartNext, WriteSlot, DirectoryFails, WriteFails
    <3> QED BY <3>1, <3>2
  <2>9. requested' \in {requested, requested + 1}
    BY <1>1
  <2> QED BY <1>1, <2>7, <2>8, <2>9 DEF Contract!Next, Contract!Ask
<1> QED BY <1>2, <1>3

LEMMA ExecuteExecutes ==
    ASSUME IInv, IInv', ExecuteSlot, slot[cursor] # Nothing,
           UNCHANGED <<requested, dropped, reported, spoiled>>
    PROVE  Contract!Next
<1>1. CASE ~ Executed(slot[cursor].action)
  <2>1. /\ Awaiting /\ executed = reported
        /\ slot[cursor] = [action |-> inFlight.action, seq |-> inFlight.seq]
    BY <1>1, FoundNew
  <2>2. executed' = Append(executed, inFlight.action) /\ repeats' = repeats
    BY <1>1, <2>1 DEF ExecuteSlot, CarryOut
  <2>3. Due(inFlight.action) /\ inFlight.action \in (1..requested) \ dropped
    BY <2>1, MailboxAssumption DEF IInv, Mutual, OrderInv, Due, TypeOK, InFlight, Awaiting,
                                   Actions
  <2>4. \A b \in Contract!Range(executed) : b < inFlight.action
    BY <2>1, <2>3 DEF Contract!Range, Due
  <2> QED BY <2>2, <2>3, <2>4 DEF Contract!Next, Contract!Execute
<1>2. CASE Executed(slot[cursor].action)
  <2>1. spoiled /\ repeats' = repeats + 1 /\ executed' = executed
    BY <1>2, FoundAgain DEF ExecuteSlot, CarryOut
  <2> QED BY <2>1 DEF Contract!Next, Contract!Repeat
<1> QED BY <1>1, <1>2

\* TF2 carries the actions out in the order of the requests, the Director
\* reports an action complete only after that, and TF2 carries none out again
\* unless a consumed slot could not be overwritten, for any number of requests,
\* slots, failing calls and safe restarts (DirectorActionQueue and the aliases
\* of manual_hotkey_cfg).
THEOREM ImplementsContract == Spec => ContractSpec
<1>1. ASSUME IInv, IInv', [Next]_vars PROVE [Contract!Next]_Contract!vars
  <2>1. CASE Enqueue
    BY <1>1, <2>1, EnqueueAsks
  <2>2. CASE ReadLog
    BY <1>1, <2>2, ReadLogReports
  <2>3. CASE PollLoop
    BY <1>1, <2>3, ExecuteExecutes DEF PollLoop
  <2>4. CASE KeyArrives
    <3>1. CASE slot[cursor] # Nothing
      BY <1>1, <2>4, <3>1, ExecuteExecutes DEF KeyArrives
    <3>2. CASE slot[cursor] = Nothing
      BY <2>4, <3>2 DEF KeyArrives, ExecuteSlot, Contract!vars
    <3> QED BY <3>1, <3>2
  <2>5. CASE UserPressesKey \/ SafeRestart \/ DemoLoaded \/ WaitProbe \/ UNCHANGED vars
    BY <2>5 DEF UserPressesKey, SafeRestart, DemoLoaded, WaitProbe, vars, history, Contract!vars
  <2> QED BY <1>1, <2>1, <2>2, <2>3, <2>4, <2>5 DEF Next
<1> QED BY <1>1, InitContract, IInvHolds, PTL DEF Spec, ContractSpec, Contract!Spec
=============================================================================
