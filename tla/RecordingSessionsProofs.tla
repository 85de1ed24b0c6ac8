------------------------- MODULE RecordingSessionsProofs -------------------------
(***************************************************************************)
(* Proofs about RecordingSessions for any clips, sessions, failing calls   *)
(* and deaths of the helper: the types; that a capture is never lost; that *)
(* an output that was copied half way has its capture; and that the index  *)
(* points at outputs that are there.                                       *)
(***************************************************************************)
EXTENDS RecordingSessions, SequenceTheorems, FiniteFacts, TLAPS

(* The inductive invariant *)

\* Steps on one clip.
Muxing  == {"mux", "move", "copy"}
Filed   == {"dropVideo", "dropAudio"}
Entered == {"register", "replace"}
OnClip  == Muxing \cup Filed \cup Entered

\* A worker thread has a session, and the session is kept meanwhile.
WorkerInv ==
    /\ at \in {"closed", "idle"} => mode = "watch" /\ cur = None /\ completed = {}
    /\ at = "prepare" => /\ mode = "watch" /\ completed = {} /\ tf2 = None
                         /\ cur \in Sessions /\ session[cur] = "open"
    /\ at \in OnClip \cup {"next"} /\ mode # "recovery" =>
          cur # None /\ Judged \subseteq chosen[cur]
    /\ at \in OnClip => cur # None /\ clip \in chosen[cur] /\ clip \notin completed
    /\ at \in OnClip \cup {"next"} /\ cur # None => session[cur] = "open" /\ chosen[cur] # {}
    /\ at \notin OnClip => ~existed
    /\ mode = "recovery" => /\ tf2 = None /\ completed = {}
                            /\ \A s \in waiting : session[s] = "open" /\ s # cur
                            /\ cur # None => Range(todo) \subseteq chosen[cur]

\* Sessions are launched one after the other; each one's outputs get the first
\* free paths, so that a path is free for the next one.
LaunchInv ==
    /\ \A s, r \in Sessions : session[s] = "none" /\ s < r => session[r] = "none"
    /\ \A s \in Sessions : session[s] = "none" =>
          chosen[s] = {} /\ s # tf2 /\ \A c \in Clips : raw[s][c] = "none"
    /\ at = "prepare" => /\ \A r \in Sessions : cur < r => session[r] = "none"
                         /\ \A c \in Clips : raw[cur][c] = "none"

\* Session s was launched, and is not the one that gets its paths now.
Numbered(s) ==
    /\ session[s] # "none"
    /\ at = "prepare" /\ chosen[cur] = {} => s # cur

PathInv ==
    /\ \A s \in Sessions : \A c \in Clips : path[s][c] <= s
    /\ \A s \in Sessions : \A c \in chosen[s] : path[s][c] # None
    /\ \A c \in Clips : \A p \in Paths : file[c][p] # "none" => \E s \in Sessions : Numbered(s) /\ p <= s

\* Captures are of the clips of the session.
CaptureInv ==
    /\ \A s \in Sessions : \A c \in Clips : chosen[s] # {} /\ raw[s][c] # "none" => c \in chosen[s]
    /\ tf2 # None /\ chosen[tf2] # {} => Range(toPlay) \subseteq chosen[tf2]

\* What the output and the capture of the clip in work are at each step.
OutputInv ==
    at \in OnClip =>
        /\ at \in {"move", "copy"} => muxed \in Usable /\ Content \in OnDisk
        /\ at \in Filed => file[clip][Out] \in Usable
        /\ at \in Entered \/ existed => file[clip][Out] # "none"
        /\ at \in Entered /\ mode # "recovery" => file[clip][Out] \in Usable
        /\ at \in Entered /\ mode = "recovery" /\ allDone =>
              Content = "none" \/ file[clip][Out] \in Usable
        /\ existed => mode = "recovery"

\* HLAE has files open only in the session that is played.
HeldInv == \A s \in Sessions : \A c \in Clips : raw[s][c] \in Held => s = tf2

\* The outputs that a finalizer has still to write are not there yet.
ToWrite(c) ==
    \/ at = "prepare" /\ c \in chosen[cur]
    \/ mode # "recovery" /\ at = "next" /\ c \in chosen[cur] \ Judged
    \/ mode # "recovery" /\ at \in OnClip /\ c \in chosen[cur] \ Judged /\ c # clip
    \/ mode # "recovery" /\ at \in {"mux", "move"} /\ c = clip

FreshInv == \A c \in Clips : ToWrite(c) => file[c][path[cur][c]] = "none"

\* An attempt to recover a session that has seen no error yet has made the
\* outputs of the clips that are behind it.
DoneInv ==
    at \in OnClip \cup {"next"} /\ mode = "recovery" /\ cur # None /\ allDone =>
        \A c \in chosen[cur] :
            \/ c \in Range(todo) \/ (at \in OnClip /\ c = clip)
            \/ raw[cur][c] = "none" \/ file[c][path[cur][c]] \in Usable

\* A clip that is counted as completed has a whole output.
CompletedInv == \A c \in completed : file[c][path[cur][c]] \in Usable

\* The output is in the index before the one that it replaces is removed.
IndexInv == IndexedExists /\ (at = "replace" /\ ~lost => idx[clip] = Out)

IInv == /\ TypeOK /\ WorkerInv /\ LaunchInv /\ PathInv /\ CaptureInv /\ OutputInv
        /\ HeldInv /\ FreshInv /\ HalfCopyKeepsCapture /\ DoneInv /\ CompletedInv /\ IndexInv

------------------------------------------------------------------------------
(* What the operators give *)

LEMMA Constants ==
    /\ Clips \subseteq Nat \ {0} /\ IsFiniteSet(Clips) /\ Clips # {}
    /\ MaxAttempts \in Nat \ {0} /\ MaxSessions \in Nat \ {0} /\ MaxFaults \in Nat
    /\ MaxCrashes \in Nat /\ None \notin Clips /\ None \notin Sessions /\ None \notin Paths
    /\ Sessions \subseteq Nat /\ Paths = Sessions
  BY SessionAssumption DEF None, Sessions, Paths

LEMMA StepNames ==
    /\ Steps = {"closed", "idle", "prepare", "next"} \cup OnClip
    /\ {"closed", "idle", "prepare", "next"} \cap OnClip = {}
    /\ Muxing \cap Entered = {} /\ Muxing \cap Filed = {} /\ Filed \cap Entered = {}
  BY DEF Steps, OnClip, Muxing, Filed, Entered

LEMMA InOrderType ==
    ASSUME NEW clips \in SUBSET Clips
    PROVE  InOrder(clips) \in Seq(Clips) /\ Range(InOrder(clips)) = clips
<1>1. clips \in SUBSET Nat /\ IsFiniteSet(clips)
  BY Constants, FS_Subset
<1>2. PICK seq : Sorted(seq, clips)
  BY <1>1, SortedExists
<1>3. /\ InOrder(clips) \in [1..Cardinality(clips) -> clips]
      /\ Range(InOrder(clips)) = clips
  BY <1>2 DEF Sorted, InOrder
<1>4. Cardinality(clips) \in Nat
  BY <1>1, FS_CardinalityType
<1>5. InOrder(clips) \in Seq(clips)
  BY <1>3, <1>4
<1> QED BY <1>3, <1>5

LEMMA Elements ==
    ASSUME NEW S, NEW s \in Seq(S)
    PROVE  Range(s) \subseteq S /\ Len(s) \in Nat /\ DOMAIN s = 1..Len(s)
<1>1. Len(s) \in Nat /\ DOMAIN s = 1..Len(s) /\ \A i \in DOMAIN s : s[i] \in S
  BY LenProperties
<1> QED BY <1>1 DEF Range

LEMMA Advanced ==
    ASSUME NEW S, NEW s \in Seq(S), s # <<>>
    PROVE  /\ Head(s) \in S /\ Tail(s) \in Seq(S) /\ Head(s) \in Range(s)
           /\ Range(Tail(s)) \subseteq Range(s) /\ Range(s) = Range(Tail(s)) \cup {Head(s)}
<1>1. /\ Head(s) \in S /\ Tail(s) \in Seq(S) /\ Len(Tail(s)) = Len(s) - 1
      /\ \A i \in 1..Len(Tail(s)) : Tail(s)[i] = s[i + 1]
  BY HeadTailProperties
<1>2. Len(s) \in Nat /\ DOMAIN s = 1..Len(s) /\ DOMAIN Tail(s) = 1..Len(Tail(s))
  BY <1>1, LenProperties
<1>3. Len(s) > 0 /\ Head(s) = s[1]
  BY <1>2, EmptySeq
<1>4. \A i \in DOMAIN Tail(s) : i + 1 \in DOMAIN s /\ Tail(s)[i] = s[i + 1]
  BY <1>1, <1>2
<1>5. \A i \in DOMAIN s : i = 1 \/ (i - 1 \in DOMAIN Tail(s) /\ Tail(s)[i - 1] = s[i])
  BY <1>1, <1>2
<1>6. Range(Tail(s)) \subseteq Range(s) /\ Head(s) \in Range(s)
  BY <1>2, <1>3, <1>4 DEF Range
<1>7. Range(s) \subseteq Range(Tail(s)) \cup {Head(s)}
  BY <1>3, <1>5 DEF Range
<1> QED BY <1>1, <1>6, <1>7

LEMMA FaultType == ASSUME TypeOK, Fault \/ NoFault PROVE faults' \in 0..MaxFaults
  BY Constants DEF TypeOK, Fault, NoFault

------------------------------------------------------------------------------
(* Parts of the invariant that a step leaves alone *)

LEMMA KeepLaunch ==
    ASSUME LaunchInv, UNCHANGED <<session, chosen, raw>>, tf2' \in {tf2, None},
           at' = "prepare" => at = "prepare" /\ cur' = cur
    PROVE  LaunchInv'
  BY Constants DEF LaunchInv

LEMMA KeepPath ==
    ASSUME PathInv, UNCHANGED <<path, chosen, file, session>>,
           at' = "prepare" => at = "prepare" /\ cur' = cur
    PROVE  PathInv'
<1>1. \A s \in Sessions : Numbered(s) => Numbered(s)'
  BY DEF Numbered
<1> QED BY <1>1 DEF PathInv

LEMMA KeepCapture ==
    ASSUME CaptureInv, UNCHANGED <<chosen, raw>>,
           tf2' = None \/ (tf2' = tf2 /\ Range(toPlay') \subseteq Range(toPlay))
    PROVE  CaptureInv'
  BY DEF CaptureInv

LEMMA KeepHalf ==
    ASSUME HalfCopyKeepsCapture, UNCHANGED <<path, file, raw, session>> PROVE HalfCopyKeepsCapture'
  BY DEF HalfCopyKeepsCapture

LEMMA KeepHeld ==
    ASSUME HeldInv, UNCHANGED tf2, \A s \in Sessions : \A c \in Clips : raw'[s][c] \in Held => raw[s][c] \in Held
    PROVE  HeldInv'
  BY DEF HeldInv

LEMMA KeepFresh ==
    ASSUME FreshInv, \A c \in Clips : ToWrite(c)' => /\ ToWrite(c) /\ file'[c] = file[c]
                                                     /\ path' = path /\ cur' = cur
    PROVE  FreshInv'
  BY DEF FreshInv

LEMMA KeepIndex ==
    ASSUME IndexInv, UNCHANGED <<idx, lost, file>>, at' # "replace" PROVE IndexInv'
<1>1. IndexedExists'
  BY DEF IndexInv, IndexedExists, Exists
<1> QED BY <1>1 DEF IndexInv

\* What a step of the helper that touches neither folders nor outputs keeps.
LEMMA WorkerKeeps ==
    ASSUME IInv, UNCHANGED <<folder, raw, file, idx, lost, game>>,
           at' \notin {"prepare", "replace"}
    PROVE  LaunchInv' /\ PathInv' /\ CaptureInv' /\ HeldInv' /\ HalfCopyKeepsCapture' /\ IndexInv'
<1>1. UNCHANGED <<session, chosen, path, tf2, toPlay>>
  BY DEF folder, game
<1> QED BY <1>1, KeepLaunch, KeepPath, KeepCapture, KeepHeld, KeepHalf, KeepIndex DEF IInv

LEMMA InitIInv == Init => IInv
<1> SUFFICES ASSUME Init PROVE IInv
  OBVIOUS
<1>1. TypeOK
  <2>1. torn \in BOOLEAN /\ lost \in BOOLEAN /\ half \in BOOLEAN /\ existed \in BOOLEAN
        /\ allDone \in BOOLEAN
    BY DEF Init
  <2> QED BY <2>1, Constants DEF Init, TypeOK, Judged, Steps
<1>2. at = "idle" /\ at \notin OnClip
  BY StepNames DEF Init
<1>3. WorkerInv
  BY <1>2 DEF Init, WorkerInv
<1>4. LaunchInv
  BY <1>2, Constants DEF Init, LaunchInv
<1>5. PathInv
  BY Constants DEF Init, PathInv, None, Sessions
<1>6. CaptureInv /\ HeldInv /\ HalfCopyKeepsCapture
  BY DEF Init, CaptureInv, HeldInv, Held, HalfCopyKeepsCapture
<1>7. OutputInv /\ DoneInv /\ FreshInv
  BY <1>2 DEF Init, OutputInv, DoneInv, FreshInv, ToWrite
<1>8. CompletedInv /\ IndexInv
  BY DEF Init, CompletedInv, IndexInv, IndexedExists
<1> QED BY <1>1, <1>3, <1>4, <1>5, <1>6, <1>7, <1>8 DEF IInv

------------------------------------------------------------------------------
(* Steps of the worker thread that touch neither folders nor outputs *)

LEMMA SubSeqType ==
    ASSUME NEW S, NEW s \in Seq(S), NEW m \in Nat \ {0}, NEW n \in Int, n <= Len(s)
    PROVE  SubSeq(s, m, n) \in Seq(S)
<1>1. Len(s) \in Nat /\ \A i \in 1..Len(s) : s[i] \in S
  BY LenProperties
<1>2. CASE m <= n
  <2>1. SubSeq(s, m, n) = [i \in 1..(1 + n - m) |-> s[i + m - 1]] /\ 1 + n - m \in Nat
    BY <1>2
  <2>2. \A i \in 1..(1 + n - m) : s[i + m - 1] \in S
    BY <1>1, <1>2
  <2> QED BY <2>1, <2>2
<1>3. CASE ~(m <= n)
  BY <1>3, <1>1
<1> QED BY <1>2, <1>3

LEMMA ReadType == ASSUME TypeOK, ReadMarkers PROVE todo' \in Seq(Clips) /\ read' \in Nat
<1>1. log \in Seq(Clips) /\ Len(log) \in Nat /\ read \in Nat
  BY LenProperties DEF TypeOK
<1>2. \A n \in {Len(log), Len(log) - 1} : SubSeq(log, read + 1, n) \in Seq(Clips)
  BY <1>1, SubSeqType
<1>3. Len(log) - (IF half THEN 1 ELSE 0) \in {Len(log), Len(log) - 1}
  BY <1>1
<1> QED BY <1>1, <1>2, <1>3 DEF ReadMarkers

\* A marker or a clip changes only the thread's own variables.
LEMMA WorkerType ==
    ASSUME TypeOK, UNCHANGED <<folder, raw, file, idx, lost, game>>, torn' \in BOOLEAN,
           at' \in Steps, mode' \in {"watch", "sweep", "recovery"},
           cur' \in Sessions \cup {None}, clip' \in Clips \cup {None},
           todo' \in Seq(Clips), read' \in Nat, Judged' \subseteq Clips,
           existed' \in BOOLEAN, allDone' \in BOOLEAN, muxed' \in {"none"} \cup Usable,
           old' \in Paths \cup {None},
           waiting' \subseteq Sessions, faults' \in 0..MaxFaults, crashes' \in 0..MaxCrashes
    PROVE  TypeOK'
<1>1. UNCHANGED <<session, chosen, replace, tries, path, raw, file, idx, tf2, toPlay, log>>
  BY DEF folder, game
<1>2. lost' \in BOOLEAN /\ half' \in BOOLEAN
  BY DEF game, TypeOK
<1> QED BY <1>1, <1>2 DEF TypeOK

LEMMA PollInv == ASSUME IInv, Poll PROVE IInv'
<1> USE DEF Poll, Worker, judged, index
<1>1. TypeOK'
  BY ReadType, WorkerType, FaultType DEF IInv, TypeOK, Judged
<1>2. at' = "next" /\ at \notin OnClip /\ mode' = "watch"
  BY StepNames
<1>3. WorkerInv'
  BY <1>2 DEF IInv, WorkerInv, folder, Judged
<1>4. OutputInv' /\ DoneInv'
  BY <1>2 DEF OutputInv, DoneInv
<1>5. CompletedInv'
  BY DEF IInv, CompletedInv, folder
<1>6. FreshInv'
  BY <1>2, StepNames, KeepFresh DEF IInv, ToWrite, Judged, folder
<1> QED BY <1>1, <1>2, <1>3, <1>4, <1>5, <1>6, WorkerKeeps DEF IInv

LEMMA LeaveWatchInv == ASSUME IInv, LeaveWatch PROVE IInv'
<1> USE DEF LeaveWatch, Worker, judged, index
<1>1. TypeOK'
  BY ReadType, WorkerType, FaultType DEF IInv, TypeOK, Judged
<1>2. at' = "next" /\ at \notin OnClip /\ mode' = "sweep"
  BY StepNames
<1>3. WorkerInv'
  BY <1>2 DEF IInv, WorkerInv, folder, Judged
<1>4. OutputInv' /\ DoneInv'
  BY <1>2 DEF OutputInv, DoneInv
<1>5. CompletedInv'
  BY DEF IInv, CompletedInv, folder
<1>6. FreshInv'
  BY <1>2, StepNames, KeepFresh DEF IInv, ToWrite, Judged, folder
<1> QED BY <1>1, <1>2, <1>3, <1>4, <1>5, <1>6, WorkerKeeps DEF IInv

LEMMA TakeMarkedInv == ASSUME IInv, TakeMarked PROVE IInv'
<1> USE DEF TakeMarked, Worker, judged, index
<1>1. at = "next" /\ at \notin OnClip /\ mode # "recovery" /\ mode' = mode /\ cur' = cur
  BY StepNames
<1>2. cur \in Sessions /\ chosen[cur] \subseteq Clips /\ ~existed
  BY <1>1 DEF IInv, TypeOK, WorkerInv
<1>3. Tail(todo) \in Seq(Clips)
  BY Advanced DEF IInv, TypeOK
<1>4. \/ at' = "mux" /\ clip' \in chosen[cur] \ Judged
      \/ UNCHANGED <<at, clip>>
  OBVIOUS
<1>5. at' \in {"mux", "next"} /\ clip' \in Clips \cup {None} /\ Judged' = Judged
  BY <1>1, <1>2, <1>4 DEF IInv, TypeOK, Judged
<1>6. TypeOK'
  BY <1>3, <1>5, WorkerType, FaultType DEF IInv, TypeOK, Steps
<1>7. WorkerInv'
  BY <1>1, <1>2, <1>4, <1>5, StepNames DEF IInv, WorkerInv, folder, Judged
<1>8. OutputInv' /\ DoneInv'
  BY <1>1, <1>2, <1>5, StepNames DEF OutputInv, DoneInv, Filed, Entered
<1>9. CompletedInv'
  BY DEF IInv, CompletedInv, folder
<1>10. FreshInv'
  BY <1>1, <1>4, <1>5, StepNames, KeepFresh DEF IInv, ToWrite, folder
<1> QED BY <1>5, <1>6, <1>7, <1>8, <1>9, <1>10, WorkerKeeps DEF IInv

LEMMA SweepInv == ASSUME IInv, Sweep PROVE IInv'
<1> USE DEF Sweep, Worker, judged, index
<1>1. at = "next" /\ at \notin OnClip /\ mode = "sweep" /\ mode' = mode /\ cur' = cur
  BY StepNames
<1>2. cur \in Sessions /\ chosen[cur] \subseteq Clips /\ ~existed /\ Judged \subseteq chosen[cur]
  BY <1>1 DEF IInv, TypeOK, WorkerInv
<1>3. chosen[cur] \ Judged \in SUBSET Nat /\ chosen[cur] \ Judged # {}
  BY <1>2, Constants
<1>4. Min(chosen[cur] \ Judged) \in chosen[cur] \ Judged
  BY <1>3, MinIn
<1>5. \/ at' = "mux" /\ clip' \in chosen[cur] \ Judged /\ Judged' = Judged
      \/ UNCHANGED <<at, clip>> /\ Judged' \subseteq chosen[cur]
  BY <1>2, <1>4 DEF Judged
<1>6. at' \in {"mux", "next"} /\ clip' \in Clips \cup {None} /\ Judged' \subseteq chosen[cur]
  BY <1>1, <1>2, <1>5 DEF IInv, TypeOK
<1>7. TypeOK'
  BY <1>2, <1>6, WorkerType, FaultType DEF IInv, TypeOK, Steps
<1>8. WorkerInv'
  BY <1>1, <1>2, <1>5, <1>6, StepNames DEF IInv, WorkerInv, folder, Judged
<1>9. OutputInv' /\ DoneInv'
  BY <1>1, <1>2, <1>6, StepNames DEF OutputInv, DoneInv, Filed, Entered
<1>10. CompletedInv'
  BY DEF IInv, CompletedInv, folder
<1>11. FreshInv'
  <2>1. Judged \subseteq Judged'
    BY DEF Judged
  <2> QED BY <1>1, <1>5, <1>6, <2>1, StepNames, KeepFresh DEF IInv, ToWrite, folder
<1> QED BY <1>6, <1>7, <1>8, <1>9, <1>10, <1>11, WorkerKeeps DEF IInv

LEMMA AtWork ==
    ASSUME IInv, at \in OnClip
    PROVE  /\ cur \in Sessions /\ clip \in Clips /\ clip \in chosen[cur] /\ clip \notin completed
           /\ Out \in Paths /\ Out # None /\ Out <= cur /\ session[cur] = "open"
<1>1. cur \in Sessions /\ session[cur] = "open" /\ clip \in chosen[cur] /\ clip \notin completed
  BY DEF IInv, TypeOK, WorkerInv
<1>2. chosen[cur] \subseteq Clips
  BY <1>1 DEF IInv, TypeOK
<1>3. Out \in Paths \cup {None} /\ Out # None /\ Out <= cur
  BY <1>1, <1>2 DEF IInv, TypeOK, PathInv, Out
<1> QED BY <1>1, <1>2, <1>3

LEMMA MuxInv == ASSUME IInv, Mux PROVE IInv'
<1> USE DEF Mux, Goes, Worker, judged, index
<1>1. at \in OnClip /\ at = "mux" /\ at' = "move" /\ at' \in OnClip /\ Content' = Content /\ Out' = Out
  BY DEF Content, Out, OnClip, Muxing, folder
<1>2. muxed' \in Usable /\ (Fault \/ NoFault)
  BY DEF Usable
<1>3. TypeOK'
  BY <1>2, WorkerType, FaultType DEF IInv, TypeOK, Steps, Judged
<1>4. WorkerInv'
  BY <1>1 DEF IInv, WorkerInv, folder, game, Judged
<1>5. OutputInv'
  BY <1>1, <1>2 DEF IInv, OutputInv, Filed, Entered, folder
<1>6. DoneInv'
  BY <1>1 DEF IInv, DoneInv, folder
<1>7. CompletedInv'
  BY DEF IInv, CompletedInv, folder
<1>8. FreshInv'
  BY <1>1, StepNames, KeepFresh DEF IInv, ToWrite, Judged, folder
<1> QED BY <1>1, <1>3, <1>4, <1>5, <1>6, <1>7, <1>8, WorkerKeeps DEF IInv

\* The clip is given up, or goes on with the output that was there before; the
\* output may have been written meanwhile.
LEMMA GivenUp ==
    ASSUME IInv, at \in Muxing, GiveUp, UNCHANGED <<folder, raw, game>>, Fault \/ NoFault,
           UNCHANGED <<index, crashes>>, file' \in [Clips -> [Paths -> {"none", "partial", "cut", "full"}]],
           file'[clip][Out] = file[clip][Out] \/ file'[clip][Out] # "none",
           \A c \in Clips : c # clip => file'[c] = file[c]
    PROVE  TypeOK' /\ WorkerInv' /\ OutputInv' /\ DoneInv' /\ FreshInv' /\ at' \in {"next", "register"}
<1> USE DEF GiveUp, ClipEnds, Fails
<1>1. at \in OnClip
  BY DEF OnClip
<1>2. cur \in Sessions /\ clip \in chosen[cur] /\ chosen[cur] \subseteq Clips /\ clip \notin completed
  BY <1>1, AtWork DEF IInv, TypeOK
<1>3. UNCHANGED <<session, chosen, replace, tries, path, tf2, toPlay, log, idx, mode, cur, todo,
                  read, completed, old, waiting>> /\ muxed' = "none"
  BY DEF folder, game, index
<1>4. half' \in BOOLEAN /\ torn' \in BOOLEAN /\ lost' \in BOOLEAN
  BY DEF game, index, IInv, TypeOK
<1>5. \/ existed /\ at' = "register" /\ UNCHANGED <<clip, existed>>
      \/ ~existed /\ at' = "next" /\ clip' = None /\ existed' = FALSE
  OBVIOUS
<1>6. \/ mode = "recovery" /\ allDone' = FALSE /\ failed' = failed
      \/ mode # "recovery" /\ failed' = failed \cup {clip} /\ allDone' = allDone
  OBVIOUS
<1>7. existed' \in BOOLEAN /\ allDone' \in BOOLEAN
  BY <1>5, <1>6 DEF IInv, TypeOK
<1>8. Judged' \subseteq Clips /\ (mode # "recovery" => Judged' \subseteq chosen[cur])
  BY <1>1, <1>2, <1>3, <1>6 DEF IInv, TypeOK, WorkerInv, Judged
<1>9. TypeOK'
  <2>1. at' \in Steps /\ clip' \in Clips \cup {None} /\ faults' \in 0..MaxFaults
    BY <1>5, FaultType DEF IInv, TypeOK, Steps
  <2> QED BY <1>3, <1>4, <1>7, <1>8, <2>1 DEF IInv, TypeOK
<1>10. WorkerInv'
  <2>1. at' \in OnClip => clip' = clip
    BY <1>5, StepNames
  <2>2. at' \notin OnClip => ~existed'
    BY <1>5 DEF OnClip, Entered
  <2>3. at' \in OnClip \cup {"next"} /\ at' \notin {"closed", "idle", "prepare"}
    BY <1>5 DEF OnClip, Entered
  <2> QED BY <1>1, <1>2, <1>3, <1>8, <2>1, <2>2, <2>3, StepNames DEF IInv, WorkerInv
<1>11. OutputInv'
  <2>1. CASE ~existed
    BY <1>5, <2>1, StepNames DEF OutputInv
  <2>2. CASE existed
    <3>1. mode = "recovery" /\ file[clip][Out] # "none" /\ allDone' = FALSE
      BY <1>1, <1>6, <2>2 DEF IInv, OutputInv
    <3>2. at' = "register" /\ file'[clip][Out] # "none" /\ Out' = Out /\ clip' = clip /\ mode' = "recovery"
      BY <1>3, <1>5, <2>2, <3>1 DEF Out
    <3> QED BY <3>1, <3>2, <2>2 DEF OutputInv, Filed
  <2> QED BY <2>1, <2>2
<1>12. DoneInv'
  BY <1>3, <1>6 DEF DoneInv
<1>13. FreshInv'
  <2>1. CASE mode = "recovery"
    BY <1>3, <1>5, <2>1 DEF FreshInv, ToWrite
  <2>2. CASE mode # "recovery"
    <3>1. ~existed /\ at' = "next" /\ Judged' = Judged \cup {clip}
      BY <1>1, <1>3, <1>5, <1>6, <2>2 DEF IInv, OutputInv, Judged
    <3> QED BY <1>1, <1>3, <2>2, <3>1, KeepFresh, StepNames DEF IInv, ToWrite
  <2> QED BY <2>1, <2>2
<1> QED BY <1>5, <1>9, <1>10, <1>11, <1>12, <1>13

LEMMA MuxFailsInv == ASSUME IInv, MuxFails PROVE IInv'
<1> USE DEF MuxFails, Worker, index
<1>1. at \in Muxing /\ (Fault \/ NoFault) /\ crashes' = crashes
      /\ file' \in [Clips -> [Paths -> {"none", "partial", "cut", "full"}]]
      /\ file'[clip][Out] = file[clip][Out]
  BY DEF IInv, TypeOK, Muxing
<1>2. TypeOK' /\ WorkerInv' /\ OutputInv' /\ DoneInv' /\ FreshInv' /\ at' \in {"next", "register"}
  BY <1>1, GivenUp
<1>3. CompletedInv'
  BY DEF IInv, CompletedInv, folder, GiveUp
<1> QED BY <1>2, <1>3, WorkerKeeps DEF IInv

LEMMA RecoverClipInv == ASSUME IInv, RecoverClip PROVE IInv'
<1> USE DEF RecoverClip, Worker, index
<1> DEFINE c    == Head(todo)
           here == Exists(c, path[cur][c])
<1>1. at = "next" /\ mode = "recovery" /\ cur \in Sessions /\ todo # <<>> /\ todo' = Tail(todo)
      /\ UNCHANGED <<folder, mode, cur, read, completed, failed, muxed, old, waiting>>
  BY DEF IInv, TypeOK
<1>2. at \notin OnClip /\ ~existed
  BY <1>1, StepNames DEF IInv, WorkerInv
<1>3. c \in Clips /\ c \in Range(todo) /\ Tail(todo) \in Seq(Clips)
      /\ Range(Tail(todo)) \subseteq Range(todo) /\ Range(todo) = Range(Tail(todo)) \cup {c}
  BY <1>1, Advanced DEF IInv, TypeOK
<1>4. Range(todo) \subseteq chosen[cur] /\ session[cur] = "open" /\ chosen[cur] # {}
  BY <1>1, StepNames DEF IInv, WorkerInv
<1>5. \/ raw[cur][c] # "none" /\ at' = "mux" /\ clip' = c /\ existed' = here /\ allDone' = allDone
      \/ raw[cur][c] = "none" /\ here /\ at' = "register" /\ clip' = c /\ existed' = here /\ allDone' = allDone
      \/ raw[cur][c] = "none" /\ ~here /\ UNCHANGED <<at, clip, existed>> /\ allDone' = FALSE
  BY DEF IInv, TypeOK
<1>6. here => file[c][path[cur][c]] # "none"
  BY DEF Exists
<1>7. here \in BOOLEAN
  BY DEF Exists
<1> HIDE DEF c, here
<1>8. existed' \in BOOLEAN /\ allDone' \in BOOLEAN
  BY <1>5, <1>7 DEF IInv, TypeOK
<1>9. at' \in {"mux", "register", "next"} /\ clip' \in Clips \cup {None}
  BY <1>1, <1>3, <1>5 DEF IInv, TypeOK
<1>10. TypeOK'
  BY <1>1, <1>3, <1>8, <1>9, WorkerType, FaultType DEF IInv, TypeOK, Steps, Judged
<1>11. WorkerInv'
  <2>1. at' \in OnClip => clip' \in chosen[cur]
    BY <1>2, <1>3, <1>4, <1>5
  <2>2. at' \notin OnClip => ~existed'
    BY <1>2, <1>5, <1>9 DEF OnClip, Muxing, Entered
  <2>3. tf2 = None /\ completed = {} /\ \A s \in waiting : session[s] = "open" /\ s # cur
    BY <1>1 DEF IInv, WorkerInv
  <2>4. UNCHANGED <<session, chosen, tf2, completed, waiting, mode, cur>>
    BY <1>1 DEF folder, game
  <2>5. at' \notin {"closed", "idle", "prepare"} /\ cur # None
    BY <1>1, <1>9, Constants
  <2> QED BY <1>1, <1>3, <1>4, <2>1, <2>2, <2>3, <2>4, <2>5 DEF WorkerInv
<1>12. OutputInv'
  <2>1. CASE raw[cur][c] # "none"
    BY <1>1, <1>5, <1>6, <2>1, StepNames DEF OutputInv, Filed, Entered, Out, folder
  <2>2. CASE raw[cur][c] = "none" /\ here
    BY <1>1, <1>5, <1>6, <2>2, StepNames DEF OutputInv, Filed, Entered, Out, Content, folder
  <2>3. CASE raw[cur][c] = "none" /\ ~here
    BY <1>2, <1>5, <2>3 DEF OutputInv
  <2> QED BY <2>1, <2>2, <2>3
<1>13. DoneInv'
  <2> SUFFICES ASSUME allDone', NEW d \in chosen[cur]
               PROVE  \/ d \in Range(Tail(todo)) \/ (at' \in OnClip /\ d = clip')
                      \/ raw[cur][d] = "none" \/ file[d][path[cur][d]] \in Usable
    BY <1>1 DEF DoneInv, folder
  <2>1. allDone /\ clip' = c /\ at' \in {"mux", "register"}
    BY <1>5
  <2>3. at' \in OnClip
    BY <2>1, StepNames DEF OnClip, Muxing, Entered
  <2>2. \/ d \in Range(todo) \/ raw[cur][d] = "none" \/ file[d][path[cur][d]] \in Usable
    BY <1>1, <1>2, <2>1 DEF IInv, DoneInv
  <2> QED BY <1>3, <2>1, <2>2, <2>3
<1>14. CompletedInv'
  BY <1>1 DEF IInv, CompletedInv, folder
<1>15. FreshInv'
  BY <1>1, <1>9 DEF FreshInv, ToWrite
<1> QED BY <1>9, <1>10, <1>11, <1>12, <1>13, <1>14, <1>15, WorkerKeeps DEF IInv

\* The thread ends, or was none: nothing is in work.
LEMMA AtRest ==
    ASSUME IInv, at' \in {"closed", "idle"}, mode' = "watch", cur' = None, completed' = {},
           existed' = FALSE
    PROVE  WorkerInv' /\ OutputInv' /\ DoneInv' /\ FreshInv' /\ CompletedInv'
<1>1. at' \notin OnClip /\ at' # "prepare" /\ at' # "next"
  BY StepNames
<1>2. WorkerInv'
  BY <1>1 DEF WorkerInv
<1> QED BY <1>1, <1>2 DEF OutputInv, DoneInv, FreshInv, ToWrite, CompletedInv

LEMMA RestInv == ASSUME IInv, RecoveryEnds \/ Close \/ LaunchFails \/ Crash PROVE IInv'
<1>1. CASE RecoveryEnds
  <2> USE DEF RecoveryEnds, Goes, NoLocals, Worker, index
  <2>1. existed' \in BOOLEAN /\ allDone' \in BOOLEAN /\ torn' \in BOOLEAN
    BY <1>1 DEF IInv, TypeOK
  <2>2. TypeOK'
    BY <1>1, <2>1, WorkerType, FaultType DEF IInv, TypeOK, Steps, Judged
  <2> QED BY <1>1, <2>2, AtRest, WorkerKeeps DEF IInv
<1>2. CASE Close
  <2> USE DEF Close, Goes, Worker, index, local, judged
  <2>1. TypeOK'
    BY <1>2, WorkerType, FaultType DEF IInv, TypeOK, Steps, Judged
  <2>2. mode = "watch" /\ cur = None /\ completed = {} /\ existed = FALSE
    BY <1>2, StepNames DEF IInv, WorkerInv, TypeOK
  <2> QED BY <1>2, <2>1, <2>2, AtRest, WorkerKeeps DEF IInv
<1>3. CASE LaunchFails
  <2> USE DEF LaunchFails, Goes, index, local, judged
  <2>1. TypeOK'
    BY <1>3, WorkerType, FaultType DEF IInv, TypeOK, Steps, Judged
  <2>2. mode = "watch" /\ completed = {} /\ existed = FALSE
    BY <1>3, StepNames DEF IInv, WorkerInv, TypeOK
  <2> QED BY <1>3, <2>1, <2>2, AtRest, WorkerKeeps DEF IInv
<1>4. CASE Crash
  <2> USE DEF Crash, NoLocals
  <2>1. crashes' \in 0..MaxCrashes /\ faults' \in 0..MaxFaults
    BY <1>4, Constants DEF IInv, TypeOK
  <2>2. existed' \in BOOLEAN /\ allDone' \in BOOLEAN
    BY <1>4
  <2>3. torn' \in BOOLEAN
    <3>1. torn \in BOOLEAN /\ (torn' \in {torn, TRUE} \/ torn' \in {torn})
      BY <1>4 DEF IInv, TypeOK
    <3> QED BY <3>1
  <2>4. /\ at' \in Steps /\ mode' = "watch" /\ cur' = None /\ clip' = None /\ todo' \in Seq(Clips)
        /\ read' = 0 /\ Judged' = {} /\ old' = None /\ waiting' = {} /\ muxed' = "none"
    BY <1>4 DEF Steps, Judged
  <2>5. TypeOK /\ UNCHANGED <<folder, raw, file, idx, lost, game>>
    BY <1>4 DEF IInv
  <2>6. TypeOK'
    BY <2>1, <2>2, <2>3, <2>4, <2>5, WorkerType
  <2> QED BY <1>4, <2>6, AtRest, WorkerKeeps DEF IInv
<1> QED BY <1>1, <1>2, <1>3, <1>4

------------------------------------------------------------------------------
(* TF2's steps *)

\* What TF2 does to the captures: none that is usable is lost, none goes, and new
\* ones are of the clip that it plays.
Plays ==
    /\ \A s \in Sessions : s # tf2 => raw'[s] = raw[s]
    /\ \A s \in Sessions : \A c \in Clips : raw[s][c] \in Usable => raw'[s][c] \in Usable
    /\ \A s \in Sessions : \A c \in Clips : raw[s][c] \in OnDisk => raw'[s][c] \in OnDisk
    /\ \A s \in Sessions : \A c \in Clips : raw'[s][c] \in Held => s = tf2'
    /\ \A s \in Sessions : \A c \in Clips :
          raw'[s][c] # "none" => raw[s][c] # "none" \/ c \in Range(toPlay)
    /\ tf2' = None \/ (tf2' = tf2 /\ Range(toPlay') \subseteq Range(toPlay))

LEMMA PlaysInv ==
    ASSUME IInv, TypeOK', Plays,
           UNCHANGED <<folder, file, idx, lost, cur, clip>>,
           UNCHANGED <<todo, completed, failed, existed, allDone, muxed>>,
           \/ UNCHANGED <<at, mode, waiting>>
           \/ /\ at = "closed" /\ at' = "next" /\ mode' = "recovery" /\ tf2' = None
              /\ \A s \in waiting' : session[s] = "open" /\ s # None
    PROVE  IInv'
<1>1. UNCHANGED <<session, chosen, path>>
  BY DEF folder
<1>2. at' \in OnClip => at \in OnClip /\ at' = at
  BY StepNames
<1>3. at' = "prepare" => at = "prepare" /\ tf2 = None
  BY DEF IInv, WorkerInv
<1>4. tf2 = None => raw' = raw
  <2> SUFFICES ASSUME tf2 = None PROVE raw' = raw
    OBVIOUS
  <2>1. \A s \in Sessions : raw'[s] = raw[s]
    BY Constants DEF Plays
  <2> QED BY <2>1 DEF IInv, TypeOK
<1>5. mode = "recovery" => tf2 = None
  BY DEF IInv, WorkerInv
<1>6. WorkerInv'
  <2>1. CASE UNCHANGED <<at, mode, waiting>>
    BY <1>1, <2>1 DEF Plays, IInv, WorkerInv, Judged
  <2>2. CASE ~ UNCHANGED <<at, mode, waiting>>
    <3>1. at = "closed" /\ at' = "next" /\ mode' = "recovery" /\ tf2' = None
          /\ \A s \in waiting' : session[s] = "open" /\ s # None
      BY <2>2
    <3>2. at \notin OnClip /\ at' \notin OnClip /\ cur = None /\ completed = {} /\ ~existed
      BY <3>1, StepNames DEF IInv, WorkerInv
    <3> QED BY <1>1, <3>1, <3>2 DEF WorkerInv
  <2> QED BY <2>1, <2>2
<1>7. LaunchInv'
  BY <1>1, <1>3, <1>4, Constants DEF Plays, IInv, LaunchInv
<1>8. PathInv'
  BY <1>1, <1>3, KeepPath DEF IInv
<1>9. CaptureInv'
  <2>1. ASSUME NEW s \in Sessions, NEW c \in Clips, chosen[s] # {}, raw'[s][c] # "none"
        PROVE  c \in chosen[s]
    <3>1. CASE raw[s][c] # "none"
      BY <2>1, <3>1 DEF IInv, CaptureInv
    <3>2. CASE raw[s][c] = "none"
      <4>1. s = tf2 /\ c \in Range(toPlay)
        BY <2>1, <3>2 DEF Plays
      <4> QED BY <2>1, <4>1, Constants DEF IInv, CaptureInv
    <3> QED BY <3>1, <3>2
  <2>2. tf2' # None /\ chosen[tf2'] # {} => Range(toPlay') \subseteq chosen[tf2']
    BY DEF Plays, IInv, CaptureInv
  <2> QED BY <1>1, <2>1, <2>2 DEF CaptureInv
<1>10. OutputInv'
  <2> SUFFICES ASSUME at' \in OnClip PROVE OutputInv'
    BY DEF OutputInv
  <2>1. at \in OnClip /\ UNCHANGED <<at, mode>> /\ Out' = Out
    BY <1>1, <1>2, StepNames DEF Out
  <2>2. cur \in Sessions /\ clip \in Clips
    BY <2>1, AtWork
  <2>3. (Content \in OnDisk => Content' \in OnDisk) /\ (mode = "recovery" => Content' = Content)
    BY <1>4, <1>5, <2>2 DEF Plays, Content
  <2> QED BY <2>1, <2>3 DEF IInv, OutputInv
<1>11. HalfCopyKeepsCapture'
  BY <1>1 DEF Plays, IInv, HalfCopyKeepsCapture
<1>12. DoneInv'
  <2>1. CASE UNCHANGED <<at, mode>>
    BY <1>1, <1>4, <1>5, <2>1 DEF IInv, DoneInv
  <2>2. CASE at = "closed"
    BY <2>2, StepNames DEF IInv, WorkerInv, DoneInv
  <2> QED BY <2>1, <2>2
<1>13. CompletedInv'
  BY <1>1 DEF IInv, CompletedInv
<1>14. IndexInv'
  BY DEF IInv, IndexInv, IndexedExists, Exists, Out, folder
<1>15. HeldInv'
  BY DEF Plays, HeldInv
<1>16. FreshInv'
  <2>1. CASE UNCHANGED <<at, mode>>
    BY <1>1, <2>1, KeepFresh DEF IInv, ToWrite, Judged
  <2>2. CASE at' = "next" /\ mode' = "recovery"
    BY <2>2 DEF FreshInv, ToWrite
  <2> QED BY <2>1, <2>2
<1> QED BY <1>6, <1>7, <1>8, <1>9, <1>10, <1>11, <1>12, <1>13, <1>14, <1>15, <1>16 DEF IInv

\* A capture that TF2 writes goes on from where it was.
LEMMA Captured ==
    ASSUME TypeOK, HeldInv, tf2 # None, NEW c \in Clips, raw[tf2][c] \notin Usable,
           raw[tf2][c] # "none" \/ c \in Range(toPlay),
           NEW r \in {"growing", "flushing", "full"}, Capture(c, r), UNCHANGED game
    PROVE  /\ Plays
           /\ raw' \in [Sessions -> [Clips -> {"none", "growing", "flushing", "cut", "full", "rest"}]]
<1>1. tf2 \in Sessions /\ raw' = [raw EXCEPT ![tf2] = [raw[tf2] EXCEPT ![c] = r]]
  BY DEF TypeOK, Capture
<1>2. raw' \in [Sessions -> [Clips -> {"none", "growing", "flushing", "cut", "full", "rest"}]]
  BY <1>1 DEF TypeOK
<1>3. \A s \in Sessions : \A d \in Clips : raw'[s][d] = IF s = tf2 /\ d = c THEN r ELSE raw[s][d]
  BY <1>1 DEF TypeOK
<1>4. \A s \in Sessions : s # tf2 => raw'[s] = raw[s]
  BY <1>1 DEF TypeOK
<1>5. /\ \A s \in Sessions : \A d \in Clips : raw[s][d] \in OnDisk => raw'[s][d] \in OnDisk
      /\ \A s \in Sessions : \A d \in Clips : raw'[s][d] \in Held => s = tf2'
  BY <1>3 DEF OnDisk, Held, Usable, HeldInv, game
<1> QED BY <1>2, <1>3, <1>4, <1>5 DEF Plays, game

\* Playing is the first of the clips to come.
LEMMA PlayingClip ==
    ASSUME TypeOK, toPlay # <<>>
    PROVE  Playing \in Clips /\ Playing \in Range(toPlay) /\ Tail(toPlay) \in Seq(Clips)
           /\ Range(Tail(toPlay)) \subseteq Range(toPlay)
  BY Advanced DEF TypeOK, Playing

\* HLAE's encoder is stopped: no capture that was usable is harmed.
LEMMA GonePlays ==
    ASSUME TypeOK, HeldInv, Tf2Gone
    PROVE  /\ Plays /\ tf2' = None /\ toPlay' = <<>>
           /\ raw' \in [Sessions -> [Clips -> {"none", "growing", "flushing", "cut", "full", "rest"}]]
<1> DEFINE Kinds == {"none", "growing", "flushing", "cut", "full", "rest"}
<1>1. CASE tf2 = None
  BY <1>1, Constants DEF Tf2Gone, Plays, TypeOK, HeldInv
<1>2. CASE tf2 # None
  <2>1. tf2 \in Sessions
    BY <1>2 DEF TypeOK
  <2>2. PICK lucky \in [Clips -> BOOLEAN] :
           raw' = [raw EXCEPT ![tf2] = [c \in Clips |-> Ended(raw[tf2][c], lucky[c])]]
    BY <1>2 DEF Tf2Gone
  <2>3. \A s \in Sessions : s # tf2 => raw'[s] = raw[s]
    BY <2>2 DEF TypeOK
  <2>4. \A c \in Clips : raw'[tf2][c] = Ended(raw[tf2][c], lucky[c])
    BY <2>1, <2>2 DEF TypeOK
  <2>5. ASSUME NEW c \in Clips
        PROVE  /\ raw'[tf2][c] \in Kinds
               /\ raw[tf2][c] \in Usable => raw'[tf2][c] \in Usable
               /\ raw[tf2][c] = "none" => raw'[tf2][c] = "none"
               /\ raw[tf2][c] \in OnDisk => raw'[tf2][c] \in OnDisk
               /\ raw'[tf2][c] \notin Held
    <3>1. raw[tf2][c] \in Kinds
      BY <2>1 DEF TypeOK
    <3>2. \/ raw'[tf2][c] = Ended(raw[tf2][c], TRUE)
          \/ raw'[tf2][c] = Ended(raw[tf2][c], FALSE)
      <4>1. lucky[c] = TRUE \/ lucky[c] = FALSE
        OBVIOUS
      <4> QED BY <2>4, <4>1, Zenon
    <3> QED BY <3>1, <3>2 DEF Ended, Usable, OnDisk, Held
  <2>6. raw' \in [Sessions -> [Clips -> Kinds]]
    <3>1. \A c \in Clips : Ended(raw[tf2][c], lucky[c]) \in Kinds
      BY <2>4, <2>5
    <3>2. [c \in Clips |-> Ended(raw[tf2][c], lucky[c])] \in [Clips -> Kinds]
      BY <3>1
    <3>3. raw \in [Sessions -> [Clips -> Kinds]]
      BY DEF TypeOK
    <3> HIDE DEF Kinds
    <3> QED BY <2>1, <2>2, <3>2, <3>3
  <2>7. ASSUME NEW s \in Sessions, NEW c \in Clips
        PROVE  /\ raw[s][c] \in Usable => raw'[s][c] \in Usable
               /\ raw'[s][c] # "none" => raw[s][c] # "none"
               /\ raw[s][c] \in OnDisk => raw'[s][c] \in OnDisk
               /\ raw'[s][c] \notin Held
    BY <2>3, <2>5 DEF HeldInv
  <2>8. tf2' = None /\ toPlay' = <<>>
    BY DEF Tf2Gone
  <2> QED BY <2>3, <2>6, <2>7, <2>8 DEF Plays
<1> QED BY <1>1, <1>2

LEMMA Tf2Inv == ASSUME IInv, Tf2Next PROVE IInv'
<1> USE DEF TF2Step, local, judged, index, game
<1>0. TypeOK /\ HeldInv
  BY DEF IInv
<1>1. CASE RecordStart
  <2>1. Playing \in Clips /\ Playing \in Range(toPlay)
    BY <1>0, <1>1, PlayingClip DEF RecordStart
  <2>2. /\ Plays
        /\ raw' \in [Sessions -> [Clips -> {"none", "growing", "flushing", "cut", "full", "rest"}]]
    BY <1>0, <1>1, <2>1, Captured DEF RecordStart, Usable
  <2>3. TypeOK'
    BY <1>0, <1>1, <2>2 DEF RecordStart, TypeOK, folder, Judged
  <2> QED BY <1>1, <2>2, <2>3, PlaysInv DEF RecordStart
<1>2. CASE RecordEnd
  <2>1. Playing \in Clips /\ Playing \in Range(toPlay)
    BY <1>0, <1>2, PlayingClip DEF RecordEnd
  <2>2. /\ Plays
        /\ raw' \in [Sessions -> [Clips -> {"none", "growing", "flushing", "cut", "full", "rest"}]]
    BY <1>0, <1>2, <2>1, Captured DEF RecordEnd, Usable
  <2>3. TypeOK'
    BY <1>0, <1>2, <2>2 DEF RecordEnd, TypeOK, folder, Judged
  <2> QED BY <1>2, <2>2, <2>3, PlaysInv DEF RecordEnd
<1>3. CASE Flushed
  <2>1. PICK c \in Clips : raw[tf2][c] = "flushing" /\ Capture(c, "full")
    BY <1>3 DEF Flushed
  <2>2. /\ Plays
        /\ raw' \in [Sessions -> [Clips -> {"none", "growing", "flushing", "cut", "full", "rest"}]]
    BY <1>0, <1>3, <2>1, Captured DEF Flushed, Usable
  <2>3. TypeOK'
    BY <1>0, <1>3, <2>2 DEF Flushed, TypeOK, folder, Judged
  <2> QED BY <1>3, <2>2, <2>3, PlaysInv DEF Flushed
<1>4. CASE Mark
  <2>1. Playing \in Clips /\ Tail(toPlay) \in Seq(Clips) /\ Range(Tail(toPlay)) \subseteq Range(toPlay)
    BY <1>0, <1>4, PlayingClip DEF Mark
  <2>2. log' \in Seq(Clips)
    BY <1>0, <1>4, <2>1 DEF Mark, TypeOK
  <2>3. half' \in BOOLEAN /\ faults' \in 0..MaxFaults
    BY <1>0, <1>4, FaultType DEF Mark
  <2>4. TypeOK'
    BY <1>0, <1>4, <2>1, <2>2, <2>3 DEF Mark, TypeOK, folder, Judged
  <2>5. Plays
    BY <1>0, <1>4, <2>1 DEF Mark, Plays, HeldInv
  <2> QED BY <1>4, <2>4, <2>5, PlaysInv DEF Mark
<1>5. CASE RestOfLine
  <2>1. TypeOK'
    BY <1>0, <1>5 DEF RestOfLine, TypeOK, folder, Judged
  <2>2. Plays
    BY <1>0, <1>5 DEF RestOfLine, Plays, HeldInv
  <2> QED BY <1>5, <2>1, <2>2, PlaysInv DEF RestOfLine
<1>6. CASE Tf2Exit
  <2>1. /\ Plays /\ tf2' = None /\ toPlay' = <<>>
        /\ raw' \in [Sessions -> [Clips -> {"none", "growing", "flushing", "cut", "full", "rest"}]]
    BY <1>0, <1>6, GonePlays DEF Tf2Exit
  <2>2. TypeOK'
    BY <1>0, <1>6, <2>1 DEF Tf2Exit, TypeOK, folder, Judged
  <2> QED BY <1>6, <2>1, <2>2, PlaysInv DEF Tf2Exit
<1> QED BY <1>1, <1>2, <1>3, <1>4, <1>5, <1>6 DEF Tf2Next

\* A start of the helper stops TF2 and looks at the sessions that are left.
LEMMA StartInv == ASSUME IInv, Start PROVE IInv'
<1> USE DEF Start, Goes, index
<1>1. /\ Plays /\ tf2' = None /\ toPlay' = <<>>
      /\ raw' \in [Sessions -> [Clips -> {"none", "growing", "flushing", "cut", "full", "rest"}]]
  BY GonePlays DEF IInv
<1>2. TypeOK'
  BY <1>1 DEF IInv, TypeOK, folder, Judged, Steps
<1>3. \A s \in waiting' : session[s] = "open" /\ s # None
  BY Constants
<1> QED BY <1>1, <1>2, <1>3, PlaysInv

------------------------------------------------------------------------------
(* A session is launched *)

LEMMA LaunchedInv == ASSUME IInv, Launch PROVE IInv'
<1> USE DEF Launch, Goes, index
<1>1. PICK s \in Sessions :
         /\ session[s] = "none" /\ \A r \in 1..(s - 1) : session[r] # "none"
         /\ session' = [session EXCEPT ![s] = "open"] /\ cur' = s
  OBVIOUS
<1>2. /\ at = "idle" /\ at' = "prepare" /\ tf2 = None /\ mode = "watch" /\ completed = {}
      /\ ~existed /\ at' \notin OnClip /\ at \notin OnClip
  BY StepNames DEF IInv, WorkerInv
<1>3. UNCHANGED <<chosen, replace, tries, path, raw, file, idx, torn, lost, tf2, toPlay, log, half,
                  mode, clip, todo, read, completed, failed, existed, allDone, muxed, old, waiting>>
  BY DEF local, judged, game
<1>4. TypeOK'
  BY <1>1, <1>2, <1>3 DEF IInv, TypeOK, Judged, Steps
<1>5. session'[s] = "open" /\ \A r \in Sessions : r # s => session'[r] = session[r]
  BY <1>1 DEF IInv, TypeOK
<1>6. \A r \in Sessions : r < s => session[r] # "none"
  BY <1>1, Constants DEF Sessions
<1>7. \A r \in Sessions : s < r => session[r] = "none"
  BY <1>1 DEF IInv, LaunchInv
<1>8. WorkerInv'
  BY <1>1, <1>2, <1>3, <1>5 DEF WorkerInv
<1>9. LaunchInv'
  <2>1. ASSUME NEW a \in Sessions, NEW b \in Sessions, session'[a] = "none", a < b
        PROVE  session'[b] = "none"
    <3>1. a # s /\ session[a] = "none" /\ session[b] = "none"
      BY <1>5, <2>1 DEF IInv, LaunchInv
    <3>2. b # s
      BY <1>6, <2>1, <3>1
    <3> QED BY <1>5, <3>1, <3>2
  <2>2. \A a \in Sessions : session'[a] = "none" =>
           chosen[a] = {} /\ a # tf2 /\ \A c \in Clips : raw[a][c] = "none"
    BY <1>5 DEF IInv, LaunchInv
  <2>3. (\A r \in Sessions : s < r => session'[r] = "none") /\ \A c \in Clips : raw[s][c] = "none"
    BY <1>1, <1>5, <1>7, Constants DEF IInv, LaunchInv
  <2> QED BY <1>1, <1>3, <2>1, <2>2, <2>3 DEF LaunchInv
<1>10. PathInv'
  <2>1. \A r \in Sessions : Numbered(r) => Numbered(r)'
    BY <1>1, <1>3, <1>5 DEF Numbered
  <2> QED BY <1>3, <2>1 DEF IInv, PathInv
<1>11. CaptureInv'
  BY <1>3, KeepCapture DEF IInv
<1>12. HalfCopyKeepsCapture'
  BY <1>1, <1>3, <1>5 DEF IInv, HalfCopyKeepsCapture
<1>13. IndexInv'
  BY <1>2, <1>3, KeepIndex DEF IInv
<1>14. OutputInv' /\ DoneInv' /\ CompletedInv'
  BY <1>2, <1>3 DEF OutputInv, DoneInv, CompletedInv
<1>15. HeldInv'
  BY <1>3, KeepHeld DEF IInv
<1>16. FreshInv'
  <2>1. chosen[s] = {}
    BY <1>1 DEF IInv, LaunchInv
  <2> QED BY <1>1, <1>2, <1>3, <2>1, StepNames DEF FreshInv, ToWrite
<1> QED BY <1>4, <1>8, <1>9, <1>10, <1>11, <1>12, <1>13, <1>14, <1>15, <1>16 DEF IInv

\* The path whose number is the session's own is free, so the first free one is
\* not behind it.
LEMMA FreePathIs ==
    ASSUME IInv, at = "prepare", chosen[cur] = {}, NEW c \in Clips
    PROVE  FreePath(c) \in Paths /\ FreePath(c) <= cur /\ file[c][FreePath(c)] = "none"
<1>1. cur \in Sessions /\ \A r \in Sessions : cur < r => session[r] = "none"
  BY DEF IInv, WorkerInv, LaunchInv
<1>2. file[c][cur] = "none"
  <2> SUFFICES ASSUME file[c][cur] # "none" PROVE FALSE
    OBVIOUS
  <2>1. PICK s \in Sessions : Numbered(s) /\ cur <= s
    BY <1>1, Constants DEF IInv, PathInv
  <2>2. session[s] # "none" /\ s # cur
    BY <2>1 DEF Numbered
  <2> QED BY <1>1, <2>1, <2>2, Constants
<1> DEFINE free == {p \in Paths : ~ Exists(c, p)}
<1>3. cur \in free /\ free \in SUBSET Nat
  BY <1>1, <1>2, Constants DEF Exists
<1>4. FreePath(c) \in free /\ \A y \in free : FreePath(c) <= y
  BY <1>3, MinIn DEF FreePath
<1>5. file[c][FreePath(c)] = "none"
  BY <1>4, Constants DEF Exists
<1> QED BY <1>3, <1>4, <1>5

LEMMA WriteManifestInv ==
    ASSUME IInv, NEW selected \in SUBSET Clips, NEW again \in BOOLEAN, WriteManifest(selected, again)
    PROVE  IInv'
<1> USE DEF WriteManifest
<1>1. /\ at = "prepare" /\ cur \in Sessions /\ tf2 = None /\ mode = "watch" /\ completed = {}
      /\ session[cur] = "open" /\ ~existed /\ chosen[cur] = {} /\ at \notin OnClip
  BY StepNames DEF IInv, WorkerInv
<1>2. UNCHANGED <<session, tries, raw, file, idx, torn, lost, tf2, toPlay, log, half, at, mode, cur,
                  clip, todo, read, completed, failed, existed, allDone, muxed, old, waiting>>
  BY DEF local, judged, game, index
<1>3. \A c \in Clips : FreePath(c) \in Paths /\ FreePath(c) <= cur /\ file[c][FreePath(c)] = "none"
  BY <1>1, FreePathIs
<1>4. \A s \in Sessions : chosen'[s] = IF s = cur THEN selected ELSE chosen[s]
  BY <1>1 DEF IInv, TypeOK
<1>5. \A s \in Sessions : \A c \in Clips :
         path'[s][c] = IF s # cur THEN path[s][c] ELSE IF c \in selected THEN FreePath(c) ELSE None
  BY <1>1 DEF IInv, TypeOK
<1>6. \A c \in Clips : raw[cur][c] = "none"
  BY <1>1 DEF IInv, LaunchInv
<1>7. TypeOK'
  <2>1. chosen' \in [Sessions -> SUBSET Clips] /\ replace' \in [Sessions -> BOOLEAN]
    BY <1>1 DEF IInv, TypeOK
  <2>2. path' \in [Sessions -> [Clips -> Paths \cup {None}]]
    BY <1>1, <1>3 DEF IInv, TypeOK
  <2> QED BY <1>2, <2>1, <2>2 DEF IInv, TypeOK, Judged
<1>8. WorkerInv'
  BY <1>1, <1>2 DEF WorkerInv
<1>9. LaunchInv'
  BY <1>1, <1>2, <1>4, Constants DEF IInv, LaunchInv
<1>10. PathInv'
  <2>1. \A r \in Sessions : Numbered(r) => Numbered(r)'
    BY <1>1, <1>2, <1>4 DEF Numbered
  <2>2. \A s \in Sessions : \A c \in Clips : path'[s][c] <= s
    BY <1>1, <1>3, <1>5, Constants DEF IInv, PathInv, None
  <2>3. \A s \in Sessions : \A c \in chosen'[s] : path'[s][c] # None
    <3> SUFFICES ASSUME NEW s \in Sessions, NEW c \in chosen'[s] PROVE path'[s][c] # None
      OBVIOUS
    <3>1. c \in Clips
      BY <1>7 DEF TypeOK
    <3>2. CASE s = cur
      BY <1>3, <1>4, <1>5, <3>1, <3>2, Constants
    <3>3. CASE s # cur
      BY <1>4, <1>5, <3>1, <3>3 DEF IInv, PathInv
    <3> QED BY <3>2, <3>3
  <2> QED BY <1>2, <2>1, <2>2, <2>3 DEF IInv, PathInv
<1>11. CaptureInv'
  BY <1>1, <1>2, <1>4, <1>6 DEF IInv, CaptureInv
<1>12. HalfCopyKeepsCapture'
  BY <1>2, <1>5, <1>6 DEF IInv, HalfCopyKeepsCapture, OnDisk, Held, Usable
<1>13. IndexInv'
  BY <1>1, <1>2, KeepIndex DEF IInv
<1>14. OutputInv' /\ DoneInv' /\ CompletedInv'
  BY <1>1, <1>2 DEF OutputInv, DoneInv, CompletedInv
<1>15. HeldInv'
  BY <1>2, KeepHeld DEF IInv
<1>16. FreshInv'
  BY <1>1, <1>2, <1>3, <1>4, <1>5, StepNames DEF FreshInv, ToWrite
<1> QED BY <1>7, <1>8, <1>9, <1>10, <1>11, <1>12, <1>13, <1>14, <1>15, <1>16 DEF IInv

LEMMA StartTf2Inv == ASSUME IInv, StartTf2 PROVE IInv'
<1> USE DEF StartTf2, Goes
<1>1. /\ at = "prepare" /\ cur \in Sessions /\ session[cur] = "open" /\ ~existed
      /\ at \notin OnClip /\ at' = "next" /\ at' \notin OnClip /\ mode' = "watch"
  BY StepNames DEF IInv, WorkerInv
<1>2. UNCHANGED <<session, chosen, replace, tries, path, raw, file, idx, torn, lost, cur, clip,
                  existed, allDone, muxed, old, waiting>>
  BY DEF folder, index
<1>3. chosen[cur] \subseteq Clips
  BY <1>1 DEF IInv, TypeOK
<1>4. toPlay' \in Seq(Clips) /\ Range(toPlay') = chosen[cur]
  BY <1>3, InOrderType
<1>5. Judged' = {} /\ completed' = {}
  BY DEF Judged
<1>6. TypeOK'
  <2>1. faults' \in 0..MaxFaults
    BY FaultType DEF IInv
  <2>2. half' \in BOOLEAN
    BY DEF IInv, TypeOK
  <2>3. log' \in Seq(Clips)
    <3>1. <<>> \in Seq(Clips) /\ log \in Seq(Clips)
      BY DEF IInv, TypeOK
    <3>2. log' \in {log, <<>>}
      OBVIOUS
    <3> QED BY <3>1, <3>2
  <2> QED BY <1>1, <1>2, <1>4, <1>5, <2>1, <2>2, <2>3 DEF IInv, TypeOK, Steps
<1>7. WorkerInv'
  BY <1>1, <1>2, <1>5, Constants DEF WorkerInv
<1>8. LaunchInv'
  BY <1>1, <1>2 DEF IInv, LaunchInv
<1>9. PathInv'
  BY <1>1, <1>2, KeepPath DEF IInv
<1>10. CaptureInv'
  BY <1>1, <1>2, <1>4 DEF IInv, CaptureInv
<1>11. HalfCopyKeepsCapture'
  BY <1>2, KeepHalf DEF IInv
<1>12. IndexInv'
  BY <1>1, <1>2, KeepIndex DEF IInv
<1>13. OutputInv' /\ DoneInv' /\ CompletedInv'
  BY <1>1, <1>5 DEF OutputInv, DoneInv, CompletedInv
<1>14. HeldInv'
  BY <1>2, Constants DEF IInv, WorkerInv, HeldInv
<1>15. FreshInv'
  <2>1. \A c \in Clips : ToWrite(c)' => ToWrite(c)
    BY <1>1, <1>2 DEF ToWrite
  <2> QED BY <1>2, <2>1, KeepFresh DEF IInv
<1> QED BY <1>6, <1>7, <1>8, <1>9, <1>10, <1>11, <1>12, <1>13, <1>14, <1>15 DEF IInv

------------------------------------------------------------------------------
(* Outputs are written *)

\* The output of the clip in work is written from its capture.
LEMMA Written ==
    ASSUME IInv, at \in {"move", "copy"}, NEW q \in {"partial", muxed},
           file' = [file EXCEPT ![clip][Out] = q],
           UNCHANGED <<folder, raw, index, game>>,
           at' \notin {"prepare", "replace"}, UNCHANGED <<cur, completed>>
    PROVE  /\ LaunchInv' /\ PathInv' /\ CaptureInv' /\ HeldInv' /\ HalfCopyKeepsCapture' /\ IndexInv'
           /\ CompletedInv'
           /\ file' \in [Clips -> [Paths -> {"none", "partial", "cut", "full"}]]
           /\ file'[clip][Out] = q /\ q # "none"
           /\ \A c \in Clips : c # clip => file'[c] = file[c]
<1>1. at \in OnClip
  BY DEF OnClip, Muxing
<1>2. muxed \in Usable /\ Content \in OnDisk
  BY <1>1 DEF IInv, OutputInv
<1>3. /\ cur \in Sessions /\ clip \in Clips /\ clip \in chosen[cur] /\ clip \notin completed
      /\ Out \in Paths /\ Out # None /\ Out <= cur /\ session[cur] = "open"
  BY <1>1, AtWork
<1>4. UNCHANGED <<session, chosen, path, raw, idx, lost, tf2, toPlay>>
  BY DEF folder, index, game
<1>5. q \in {"partial", "cut", "full"} /\ (q # "partial" => q \in Usable)
  BY <1>2 DEF Usable
<1>6. \A c \in Clips : \A p \in Paths :
         file'[c][p] = IF c = clip /\ p = Out THEN q ELSE file[c][p]
  BY <1>3 DEF IInv, TypeOK
<1>7. \A c \in Clips : c # clip => file'[c] = file[c]
  BY <1>3 DEF IInv, TypeOK
<1>8. file' \in [Clips -> [Paths -> {"none", "partial", "cut", "full"}]]
  BY <1>3, <1>5 DEF IInv, TypeOK
<1>9. LaunchInv' /\ CaptureInv'
  BY <1>4, KeepLaunch, KeepCapture DEF IInv
<1>10. PathInv'
  <2>1. \A s \in Sessions : Numbered(s) => Numbered(s)'
    BY <1>4 DEF Numbered
  <2>2. Numbered(cur)'
    BY <1>3, <1>4 DEF Numbered
  <2> QED BY <1>3, <1>4, <1>6, <2>1, <2>2 DEF IInv, PathInv
<1>11. HalfCopyKeepsCapture'
  <2> SUFFICES ASSUME NEW c \in Clips, NEW p \in Paths, file'[c][p] = "partial"
               PROVE  \E s \in Sessions : /\ path[s][c] = p /\ raw[s][c] \in OnDisk
                                          /\ session[s] \in {"open", "disabled"}
    BY <1>4 DEF HalfCopyKeepsCapture
  <2>1. CASE c = clip /\ p = Out
    BY <1>2, <1>3, <2>1 DEF Out, Content
  <2>2. CASE ~(c = clip /\ p = Out)
    BY <1>6, <2>2 DEF IInv, HalfCopyKeepsCapture
  <2> QED BY <2>1, <2>2
<1>12. IndexInv'
  <2>1. \A c \in Clips : Exists(c, idx[c]) => Exists(c, idx[c])'
    <3> SUFFICES ASSUME NEW c \in Clips, idx[c] # None, file[c][idx[c]] # "none"
                 PROVE  file'[c][idx[c]] # "none"
      BY <1>4 DEF Exists
    <3>1. idx[c] \in Paths
      BY DEF IInv, TypeOK
    <3> QED BY <1>5, <1>6, <3>1
  <2> QED BY <1>4, <2>1 DEF IInv, IndexInv, IndexedExists
<1>13. CompletedInv'
  <2>1. completed \subseteq Clips
    BY DEF IInv, TypeOK, Judged
  <2> QED BY <1>3, <1>4, <1>7, <2>1 DEF IInv, CompletedInv
<1>14. HeldInv'
  BY <1>4, KeepHeld DEF IInv
<1> QED BY <1>3, <1>5, <1>6, <1>7, <1>8, <1>9, <1>10, <1>11, <1>12, <1>13, <1>14

\* The clip in work goes on to a later step.
LEMMA GoesOn ==
    ASSUME IInv, at \in OnClip, at' \in OnClip, UNCHANGED <<mode, cur, clip, todo, judged, existed, allDone, waiting>>,
           at' \notin {"mux", "move"}, UNCHANGED path,
           UNCHANGED <<session, chosen, path, tf2>>,
           \A c \in Clips : c # clip => file'[c] = file[c],
           \A c \in Clips : c # clip => raw'[cur][c] = raw[cur][c]
    PROVE  WorkerInv' /\ DoneInv' /\ FreshInv'
<1>1. UNCHANGED <<todo, completed, failed, existed, allDone, waiting>>
  BY DEF judged
<1>2. cur \in Sessions /\ chosen[cur] \subseteq Clips
  BY AtWork DEF IInv, TypeOK
<1>3. WorkerInv'
  BY <1>1, StepNames DEF IInv, WorkerInv, Judged
<1>4. DoneInv'
  BY <1>1, <1>2 DEF IInv, DoneInv
<1>5. FreshInv'
  BY <1>1, StepNames, KeepFresh DEF IInv, ToWrite, Judged
<1> QED BY <1>3, <1>4, <1>5

LEMMA MoveInv == ASSUME IInv, Rename \/ CopyBegins \/ CopyEnds PROVE IInv'
<1> USE DEF Rename, CopyBegins, CopyEnds, Goes
<1>1. PICK q \in {"partial", muxed} :
         /\ file' = [file EXCEPT ![clip][Out] = q]
         /\ \/ at' = "copy" /\ muxed' = muxed
            \/ at' = "dropVideo" /\ muxed' = "none" /\ q = muxed
  OBVIOUS
<1>2. /\ at \in {"move", "copy"} /\ at \in OnClip /\ at' \in {"copy", "dropVideo"} /\ at' \in OnClip
      /\ Moved /\ NoFault
  BY DEF OnClip, Muxing, Filed
<1>3. UNCHANGED <<session, chosen, replace, tries, path, idx, torn, lost, tf2, toPlay, log, half,
                  todo, read, completed, failed, existed, allDone, old, waiting>>
      /\ UNCHANGED <<folder, raw, index, game, crashes, mode, cur, clip, judged>>
  BY <1>2 DEF Moved, folder, index, game, judged
<1>4. /\ LaunchInv' /\ PathInv' /\ CaptureInv' /\ HeldInv' /\ HalfCopyKeepsCapture' /\ IndexInv' /\ CompletedInv'
      /\ file' \in [Clips -> [Paths -> {"none", "partial", "cut", "full"}]]
      /\ file'[clip][Out] = q /\ q # "none"
      /\ \A c \in Clips : c # clip => file'[c] = file[c]
  BY <1>1, <1>2, <1>3, Written
<1>5. TypeOK'
  BY <1>1, <1>2, <1>3, <1>4, FaultType DEF IInv, TypeOK, Steps, Judged
<1>6. WorkerInv' /\ DoneInv' /\ FreshInv'
  BY <1>2, <1>3, <1>4, GoesOn
<1>7. OutputInv'
  <2>1. muxed \in Usable /\ Content \in OnDisk /\ Content' = Content /\ Out' = Out /\ (existed => mode = "recovery")
    BY <1>2, <1>3 DEF IInv, OutputInv, Content, Out
  <2> QED BY <1>1, <1>2, <1>3, <1>4, <2>1 DEF OutputInv, Filed, Entered
<1> QED BY <1>4, <1>5, <1>6, <1>7 DEF IInv

LEMMA CopyFailsInv == ASSUME IInv, CopyFails PROVE IInv'
<1> USE DEF CopyFails
<1>1. /\ at \in Muxing /\ at \in OnClip /\ Fault /\ GiveUp /\ UNCHANGED <<cur, completed, mode>>
      /\ UNCHANGED <<folder, raw, index, game, crashes>>
  BY DEF GiveUp, OnClip, Muxing
<1>2. at' \notin {"prepare", "replace"}
  BY DEF GiveUp
<1>3. CASE file' = file
  <2>1. file' \in [Clips -> [Paths -> {"none", "partial", "cut", "full"}]]
    BY <1>3 DEF IInv, TypeOK
  <2>2. TypeOK' /\ WorkerInv' /\ OutputInv' /\ DoneInv' /\ FreshInv'
    BY <1>1, <1>3, <2>1, GivenUp
  <2>3. CompletedInv'
    BY <1>1, <1>3 DEF IInv, CompletedInv, folder
  <2>4. UNCHANGED <<idx, lost>>
    BY <1>1 DEF index
  <2> QED BY <1>1, <1>2, <1>3, <2>2, <2>3, <2>4, WorkerKeeps DEF IInv
<1>4. CASE file' = [file EXCEPT ![clip][Out] = muxed]
  <2>1. /\ LaunchInv' /\ PathInv' /\ CaptureInv' /\ HeldInv' /\ HalfCopyKeepsCapture' /\ IndexInv' /\ CompletedInv'
        /\ file' \in [Clips -> [Paths -> {"none", "partial", "cut", "full"}]]
        /\ file'[clip][Out] # "none"
        /\ \A c \in Clips : c # clip => file'[c] = file[c]
    BY <1>1, <1>2, <1>4, Written DEF CopyFails
  <2>2. TypeOK' /\ WorkerInv' /\ OutputInv' /\ DoneInv' /\ FreshInv'
    BY <1>1, <2>1, GivenUp
  <2> QED BY <2>1, <2>2 DEF IInv
<1> QED BY <1>3, <1>4

\* The capture's files are removed one after the other.
LEMMA DropInv == ASSUME IInv, DropVideo \/ DropAudio PROVE IInv'
<1> USE DEF DropVideo, DropAudio, NotRemoved, Goes
<1>1. /\ at \in Filed /\ at \in OnClip /\ at' \in {"dropAudio", "register"} /\ at' \in OnClip
      /\ UNCHANGED <<folder, file, index, game, crashes, mode, cur, clip, local>>
      /\ (Fault \/ NoFault)
  BY DEF OnClip, Filed, Entered
<1>2. UNCHANGED <<session, chosen, replace, tries, path, idx, torn, lost, tf2, toPlay, log, half,
                  todo, read, completed, failed, existed, allDone, muxed, old, waiting>>
  BY <1>1 DEF folder, index, game, local, judged
<1>3. /\ cur \in Sessions /\ clip \in Clips /\ clip \in chosen[cur]
      /\ Out \in Paths /\ session[cur] = "open"
  BY <1>1, AtWork
<1>4. file[clip][Out] \in Usable
  BY <1>1 DEF IInv, OutputInv
<1>5. PICK r \in {"none", "rest", Content} : raw' = [raw EXCEPT ![cur][clip] = r]
  <2>1. raw = [raw EXCEPT ![cur][clip] = Content]
    BY <1>3 DEF IInv, TypeOK, Content
  <2> QED BY <2>1
<1>6. \A s \in Sessions : \A c \in Clips :
         raw'[s][c] = IF s = cur /\ c = clip THEN r ELSE raw[s][c]
  BY <1>3, <1>5 DEF IInv, TypeOK
<1>7. TypeOK'
  <2>1. Content \in {"none", "growing", "flushing", "cut", "full", "rest"}
    BY <1>3 DEF IInv, TypeOK, Content
  <2>2. raw' \in [Sessions -> [Clips -> {"none", "growing", "flushing", "cut", "full", "rest"}]]
    BY <1>3, <1>5, <2>1 DEF IInv, TypeOK
  <2> QED BY <1>1, <1>2, <2>2, FaultType DEF IInv, TypeOK, Steps, Judged
<1>8. WorkerInv' /\ DoneInv' /\ FreshInv'
  BY <1>1, <1>2, <1>3, <1>6, GoesOn DEF local
<1>9. LaunchInv'
  BY <1>1, <1>2, <1>3, <1>6, StepNames DEF IInv, LaunchInv
<1>10. PathInv'
  BY <1>1, <1>2, StepNames, KeepPath DEF IInv
<1>11. CaptureInv'
  BY <1>2, <1>3, <1>6 DEF IInv, CaptureInv
<1>12. OutputInv'
  <2>1. Out' = Out /\ (existed => mode = "recovery")
    BY <1>1, <1>2 DEF IInv, OutputInv, Out
  <2> QED BY <1>1, <1>2, <1>4, <2>1 DEF OutputInv, Usable
<1>13. HalfCopyKeepsCapture'
  <2> SUFFICES ASSUME NEW c \in Clips, NEW p \in Paths, file[c][p] = "partial"
               PROVE  \E s \in Sessions : /\ path[s][c] = p /\ raw'[s][c] \in OnDisk
                                          /\ session[s] \in {"open", "disabled"}
    BY <1>1, <1>2 DEF HalfCopyKeepsCapture
  <2>1. PICK s \in Sessions : /\ path[s][c] = p /\ raw[s][c] \in OnDisk
                              /\ session[s] \in {"open", "disabled"}
    BY DEF IInv, HalfCopyKeepsCapture
  <2>2. ~(s = cur /\ c = clip)
    BY <1>4, <2>1 DEF Out, Usable
  <2> QED BY <1>6, <2>1, <2>2
<1>14. CompletedInv'
  BY <1>1, <1>2 DEF IInv, CompletedInv
<1>15. IndexInv'
  BY <1>1, <1>2, KeepIndex DEF IInv
<1>16. HeldInv'
  <2>1. \A s \in Sessions : \A c \in Clips : raw'[s][c] \in Held => raw[s][c] \in Held
    BY <1>6 DEF Held, Content
  <2> QED BY <1>2, <2>1, KeepHeld DEF IInv
<1> QED BY <1>7, <1>8, <1>9, <1>10, <1>11, <1>12, <1>13, <1>14, <1>15, <1>16 DEF IInv

------------------------------------------------------------------------------
(* The index *)

\* Nothing but the index and the thread changes.
LEMMA IndexKeeps ==
    ASSUME IInv, UNCHANGED <<folder, raw, file, game>>, at' = "prepare" => at = "prepare" /\ cur' = cur
    PROVE  LaunchInv' /\ PathInv' /\ CaptureInv' /\ HeldInv' /\ HalfCopyKeepsCapture'
<1>1. UNCHANGED <<session, chosen, path, tf2, toPlay>>
  BY DEF folder, game
<1> QED BY <1>1, KeepLaunch, KeepPath, KeepCapture, KeepHeld, KeepHalf DEF IInv

\* An entry for an output that is there.
LEMMA EnterKeeps ==
    ASSUME IInv, NEW c \in Clips, NEW p \in Paths, Exists(c, p), Enter(c, p), UNCHANGED file
    PROVE  /\ IndexedExists' /\ idx' \in [Clips -> Paths \cup {None}]
           /\ torn' \in BOOLEAN /\ lost' \in BOOLEAN
           /\ ~lost' => idx'[c] = p /\ ~lost /\ \A d \in Clips : d # c => idx'[d] = idx[d]
<1>1. idx \in [Clips -> Paths \cup {None}]
  BY DEF IInv, TypeOK
<1>2. CASE torn
  <2>1. idx' = idx /\ lost' = TRUE /\ torn' = FALSE
    BY <1>2 DEF Enter
  <2> QED BY <1>1, <2>1 DEF IndexedExists
<1>3. CASE ~torn
  <2>1. idx' = [idx EXCEPT ![c] = p] /\ torn' = FALSE
    BY <1>3 DEF Enter
  <2>2. lost' <=> lost
    BY <1>3 DEF Enter
  <2>3. lost' \in BOOLEAN
    BY DEF Enter
  <2>4. IndexedExists'
    BY <1>1, <2>1, <2>2 DEF IInv, IndexInv, IndexedExists, Exists
  <2> QED BY <1>1, <2>1, <2>2, <2>3, <2>4
<1> QED BY <1>2, <1>3

LEMMA RegisterInv == ASSUME IInv, Register PROVE IInv'
<1> USE DEF Register, Goes
<1>1. /\ at \in OnClip /\ at' \in OnClip /\ at \in Entered /\ at' \in Entered /\ at' = "replace"
      /\ UNCHANGED <<folder, raw, file, game, mode, cur, clip, todo, read, judged, existed,
                     allDone, muxed, waiting, crashes>>
  BY DEF OnClip, Entered
<1>2. UNCHANGED <<session, chosen, replace, tries, path, tf2, toPlay, log, half, completed, failed>>
  BY <1>1 DEF folder, game, judged
<1>3. cur \in Sessions /\ clip \in Clips /\ Out \in Paths /\ Out # None
  BY <1>1, AtWork
<1>4. file[clip][Out] # "none" /\ Exists(clip, Out) /\ Out' = Out /\ Content' = Content
  BY <1>1, <1>2, <1>3 DEF IInv, OutputInv, Exists, Out, Content
<1>5. /\ IndexedExists' /\ idx' \in [Clips -> Paths \cup {None}]
      /\ torn' \in BOOLEAN /\ lost' \in BOOLEAN /\ (~lost' => idx'[clip] = Out)
  <2>1. CASE Known
    <3>1. UNCHANGED <<idx, torn, lost>> /\ idx[clip] = Out
      BY <2>1 DEF Known, index
    <3>2. torn' \in BOOLEAN /\ lost' \in BOOLEAN
      BY <3>1 DEF IInv, TypeOK
    <3> QED BY <1>1, <3>1, <3>2 DEF IInv, TypeOK, IndexInv, IndexedExists, Exists
  <2>2. CASE ~Known
    BY <1>1, <1>3, <1>4, <2>2, EnterKeeps
  <2> QED BY <2>1, <2>2
<1>6. TypeOK'
  <2>1. old' \in Paths \cup {None}
    BY <1>3 DEF IInv, TypeOK
  <2>2. existed' \in BOOLEAN /\ allDone' \in BOOLEAN /\ half' \in BOOLEAN
    BY <1>1, <1>2 DEF IInv, TypeOK
  <2> QED BY <1>1, <1>2, <1>5, <2>1, <2>2, FaultType DEF IInv, TypeOK, Steps, Judged
<1>7. WorkerInv'
  BY <1>1, <1>2, StepNames DEF IInv, WorkerInv, Judged
<1>8. OutputInv'
  BY <1>1, <1>2, <1>4, StepNames DEF IInv, OutputInv, Entered
<1>9. DoneInv'
  BY <1>1, <1>2 DEF IInv, DoneInv
<1>10. CompletedInv'
  BY <1>1, <1>2 DEF IInv, CompletedInv
<1>11. IndexInv'
  BY <1>1, <1>4, <1>5 DEF IndexInv
<1>12. FreshInv'
  BY <1>1, <1>2, StepNames, KeepFresh DEF IInv, ToWrite, Judged
<1> QED BY <1>1, <1>6, <1>7, <1>8, <1>9, <1>10, <1>11, <1>12, IndexKeeps DEF IInv

LEMMA RegisterFailsInv == ASSUME IInv, RegisterFails PROVE IInv'
<1> USE DEF RegisterFails, Goes, Fails, ClipEnds
<1>1. /\ at \in OnClip /\ at' = "next" /\ at' \notin OnClip /\ clip' = None
      /\ UNCHANGED <<folder, raw, file, game, crashes, mode, cur, todo, read, completed, muxed, old, waiting>>
  BY StepNames DEF OnClip, Entered
<1>2. UNCHANGED <<session, chosen, replace, tries, path, tf2, toPlay, log, half, idx, lost>>
  BY <1>1 DEF folder, game
<1>3. cur \in Sessions /\ clip \in Clips /\ clip \in chosen[cur]
  BY <1>1, AtWork
<1>4. \/ mode = "recovery" /\ allDone' = FALSE /\ failed' = failed
      \/ mode # "recovery" /\ failed' = failed \cup {clip} /\ allDone' = allDone
  OBVIOUS
<1>5. Judged' \subseteq Clips /\ (mode # "recovery" => Judged' \subseteq chosen[cur])
  BY <1>1, <1>3, <1>4 DEF IInv, TypeOK, WorkerInv, Judged
<1>6. TypeOK'
  <2>1. allDone' \in BOOLEAN
    BY <1>4 DEF IInv, TypeOK
  <2>2. existed' \in BOOLEAN
    OBVIOUS
  <2>3. torn' \in BOOLEAN
    <3>1. torn \in BOOLEAN /\ torn' \in {torn, TRUE}
      BY DEF IInv, TypeOK
    <3> QED BY <3>1
  <2>4. lost' \in BOOLEAN /\ half' \in BOOLEAN
    BY <1>2 DEF IInv, TypeOK
  <2> QED BY <1>1, <1>2, <1>5, <2>1, <2>2, <2>3, <2>4, FaultType DEF IInv, TypeOK, Steps
<1>7. WorkerInv'
  BY <1>1, <1>2, <1>5, StepNames DEF IInv, WorkerInv
<1>8. OutputInv' /\ DoneInv'
  <2>1. mode' = "recovery" => ~allDone'
    BY <1>1, <1>4
  <2> QED BY <1>1, <2>1 DEF OutputInv, DoneInv
<1>9. CompletedInv'
  BY <1>1, <1>2 DEF IInv, CompletedInv
<1>10. IndexInv'
  BY <1>1, <1>2, KeepIndex DEF IInv
<1>11. FreshInv'
  <2>1. mode # "recovery" => Judged' = Judged \cup {clip}
    BY <1>1, <1>4 DEF Judged
  <2> QED BY <1>1, <1>2, <2>1, StepNames, KeepFresh DEF IInv, ToWrite
<1> QED BY <1>1, <1>6, <1>7, <1>8, <1>9, <1>10, <1>11, IndexKeeps DEF IInv

\* The output that is replaced is another one than the new one, which the index
\* has already.
LEMMA ReplaceInv == ASSUME IInv, Replace PROVE IInv'
<1> USE DEF Replace, Goes, ClipEnds
<1>1. /\ at \in OnClip /\ at \in Entered /\ at' = "next" /\ at' \notin OnClip /\ clip' = None
      /\ UNCHANGED <<folder, raw, index, game, crashes, mode, cur, todo, read, failed, allDone, muxed, waiting>>
      /\ (Fault \/ NoFault)
  BY StepNames DEF OnClip, Entered
<1>2. UNCHANGED <<session, chosen, replace, tries, path, tf2, toPlay, log, half, idx, torn, lost>>
  BY <1>1 DEF folder, game, index
<1>3. /\ cur \in Sessions /\ clip \in Clips /\ clip \in chosen[cur] /\ clip \notin completed
      /\ Out \in Paths
  BY <1>1, AtWork
<1>4. /\ file' \in [Clips -> [Paths -> {"none", "partial", "cut", "full"}]]
      /\ \A c \in Clips : c # clip => file'[c] = file[c]
      /\ \A c \in Clips : \A p \in Paths :
            file'[c][p] # file[c][p] => c = clip /\ p # Out /\ file'[c][p] = "none"
  <2>1. CASE file' = file
    BY <2>1 DEF IInv, TypeOK
  <2>2. CASE file' # file
    <3>1. old \in Paths /\ old # Out /\ file' = [file EXCEPT ![clip][old] = "none"]
      BY <2>2, Constants DEF IInv, TypeOK
    <3> QED BY <1>3, <3>1 DEF IInv, TypeOK
  <2> QED BY <2>1, <2>2
<1>5. file'[clip][Out] = file[clip][Out]
  BY <1>3, <1>4
<1>6. completed' = IF mode = "recovery" THEN completed ELSE completed \cup {clip}
  OBVIOUS
<1>7. Judged' \subseteq Clips /\ (mode # "recovery" => Judged' \subseteq chosen[cur])
  BY <1>1, <1>3, <1>6 DEF IInv, TypeOK, WorkerInv, Judged
<1>8. TypeOK'
  <2>1. existed' \in BOOLEAN /\ allDone' \in BOOLEAN /\ torn' \in BOOLEAN /\ lost' \in BOOLEAN
        /\ half' \in BOOLEAN
    BY <1>1, <1>2 DEF IInv, TypeOK
  <2> QED BY <1>1, <1>2, <1>4, <1>7, <2>1, FaultType DEF IInv, TypeOK, Steps
<1>9. WorkerInv'
  BY <1>1, <1>2, <1>6, <1>7, StepNames DEF IInv, WorkerInv
<1>10. LaunchInv' /\ CaptureInv'
  BY <1>1, <1>2, KeepLaunch, KeepCapture DEF IInv
<1>11. PathInv'
  <2>1. \A s \in Sessions : Numbered(s) => Numbered(s)'
    BY <1>1, <1>2 DEF Numbered
  <2> QED BY <1>2, <1>4, <2>1 DEF IInv, PathInv
<1>12. HalfCopyKeepsCapture'
  BY <1>1, <1>2, <1>4 DEF IInv, HalfCopyKeepsCapture
<1>13. OutputInv'
  BY <1>1 DEF OutputInv
<1>14. DoneInv'
  <2> SUFFICES ASSUME mode = "recovery", allDone, NEW c \in chosen[cur]
               PROVE  \/ c \in Range(todo) \/ raw[cur][c] = "none"
                      \/ file'[c][path[cur][c]] \in Usable
    BY <1>1, <1>2 DEF DoneInv
  <2>1. c \in Clips
    BY <1>3 DEF IInv, TypeOK
  <2>2. CASE c = clip
    <3>1. Content = "none" \/ file[clip][Out] \in Usable
      BY <1>1 DEF IInv, OutputInv
    <3> QED BY <1>5, <2>2, <3>1 DEF Content, Out
  <2>3. CASE c # clip
    <3>1. \/ c \in Range(todo) \/ raw[cur][c] = "none" \/ file[c][path[cur][c]] \in Usable
      BY <1>1, <1>3, <2>3, Constants DEF IInv, DoneInv
    <3> QED BY <1>4, <2>1, <2>3, <3>1
  <2> QED BY <2>2, <2>3
<1>15. CompletedInv'
  <2> SUFFICES ASSUME NEW c \in completed' PROVE file'[c][path[cur][c]] \in Usable
    BY <1>1, <1>2 DEF CompletedInv
  <2>1. CASE c \in completed
    <3>1. c \in Clips /\ c # clip
      BY <1>3, <2>1 DEF IInv, TypeOK, Judged
    <3> QED BY <1>4, <2>1, <3>1 DEF IInv, CompletedInv
  <2>2. CASE c \notin completed
    <3>1. c = clip /\ mode # "recovery"
      BY <1>6, <2>2
    <3> QED BY <1>1, <1>5, <3>1 DEF IInv, OutputInv, Out
  <2> QED BY <2>1, <2>2
<1>16. IndexInv'
  <2>1. IndexedExists'
    <3> SUFFICES ASSUME ~lost, NEW c \in Clips, idx[c] # None PROVE Exists(c, idx[c])'
      BY <1>2 DEF IndexedExists
    <3>1. idx[c] \in Paths /\ file[c][idx[c]] # "none" /\ idx[clip] = Out
      BY DEF IInv, TypeOK, IndexInv, IndexedExists, Exists
    <3>2. file'[c][idx[c]] # "none"
      BY <1>4, <3>1
    <3> QED BY <1>2, <3>2 DEF Exists
  <2> QED BY <1>1, <2>1 DEF IndexInv
<1>17. HeldInv'
  BY <1>1, <1>2, KeepHeld DEF IInv
<1>18. FreshInv'
  <2>1. mode # "recovery" => Judged' = Judged \cup {clip}
    BY <1>1, <1>6 DEF Judged
  <2> QED BY <1>1, <1>2, <1>4, <2>1, StepNames, KeepFresh DEF IInv, ToWrite
<1> QED BY <1>8, <1>9, <1>10, <1>11, <1>12, <1>13, <1>14, <1>15, <1>16, <1>17, <1>18 DEF IInv

LEMMA ReconcileInv == ASSUME IInv, NEW c \in Clips, Reconcile(c) PROVE IInv'
<1> USE DEF Reconcile
<1>1. PICK p \in Paths : Exists(c, p) /\ Enter(c, p)
  OBVIOUS
<1>2. UNCHANGED <<session, chosen, replace, tries, path, raw, file, tf2, toPlay, log, half, at, mode,
                  cur, clip, todo, read, completed, failed, existed, allDone, muxed, old, waiting, faults, crashes>>
  BY DEF folder, game, local, judged
<1>3. /\ IndexedExists' /\ idx' \in [Clips -> Paths \cup {None}]
      /\ torn' \in BOOLEAN /\ lost' \in BOOLEAN
      /\ ~lost' => idx'[c] = p /\ ~lost /\ \A d \in Clips : d # c => idx'[d] = idx[d]
  BY <1>1, <1>2, EnterKeeps
<1>4. TypeOK'
  <2>1. existed' \in BOOLEAN /\ allDone' \in BOOLEAN /\ half' \in BOOLEAN
    BY <1>2 DEF IInv, TypeOK
  <2> QED BY <1>2, <1>3, <2>1 DEF IInv, TypeOK, Judged
<1>5. WorkerInv'
  BY <1>2 DEF IInv, WorkerInv, Judged
<1>6. OutputInv'
  BY <1>2 DEF IInv, OutputInv, Content, Out
<1>7. DoneInv' /\ CompletedInv'
  BY <1>2 DEF IInv, DoneInv, CompletedInv
<1>8. IndexInv'
  <2> SUFFICES ASSUME at = "replace", ~lost' PROVE idx'[clip] = Out
    BY <1>2, <1>3 DEF IndexInv, Out
  <2>1. ~lost /\ idx[clip] = Out
    BY <1>3 DEF IInv, IndexInv
  <2>2. clip \in Clips /\ Out # None
    BY StepNames, AtWork DEF OnClip, Entered
  <2>3. Recorded(clip)
    BY <2>1, <2>2 DEF IInv, IndexInv, IndexedExists, Recorded
  <2> QED BY <1>3, <2>1, <2>2, <2>3
<1>9. FreshInv'
  BY <1>2, KeepFresh DEF IInv, ToWrite, Judged
<1> QED BY <1>2, <1>4, <1>5, <1>6, <1>7, <1>8, <1>9, IndexKeeps DEF IInv

------------------------------------------------------------------------------
(* Sessions are taken up, kept and removed *)

\* What may become of the folder of session s at the end of its thread.
Clears(s) ==
    /\ session' \in {session, [session EXCEPT ![s] = "gone"], [session EXCEPT ![s] = "disabled"]}
    /\ chosen' \in {chosen, [chosen EXCEPT ![s] = {}]}
    /\ raw' \in {raw, Cleaned(s)}
    /\ path' = path \/ (path' = [path EXCEPT ![s] = [c \in Clips |-> None]] /\ chosen'[s] = {})
    /\ replace' \in {replace, [replace EXCEPT ![s] = FALSE]}
    /\ tries' \in {tries, [tries EXCEPT ![s] = 0]}
    /\ Fault \/ NoFault

\* Every clip of session s has a whole output, or no capture.
Settled(s) == \A c \in chosen[s] : raw[s][c] = "none" \/ file[c][path[s][c]] \in Usable

\* The folder stays, with all that it holds.
Stays(s) == UNCHANGED <<raw, path, chosen>> /\ session' \in {session, [session EXCEPT ![s] = "disabled"]}

LEMMA GoneClears ==
    ASSUME NEW s \in Sessions, TypeOK
    PROVE  /\ Gone(s) => Clears(s) /\ chosen'[s] = {}
           /\ PartlyGone(s) /\ session' \in {session, [session EXCEPT ![s] = "disabled"]} => Clears(s)
<1>1. ASSUME Gone(s) PROVE Clears(s) /\ chosen'[s] = {}
  BY <1>1 DEF Gone, Clears, TypeOK
<1>2. ASSUME PartlyGone(s), session' \in {session, [session EXCEPT ![s] = "disabled"]}
      PROVE  Clears(s)
  BY <1>2 DEF PartlyGone, Clears, Fault, NoFault
<1> QED BY <1>1, <1>2

LEMMA Cleared ==
    ASSUME IInv, cur \in Sessions, session[cur] = "open", chosen[cur] # {}, Clears(cur),
           Settled(cur) \/ Stays(cur), UNCHANGED <<file, index, tf2, toPlay>>,
           at # "prepare", at' \notin {"prepare", "replace"}
    PROVE  /\ LaunchInv' /\ PathInv' /\ CaptureInv' /\ HeldInv' /\ HalfCopyKeepsCapture' /\ IndexInv'
           /\ session' \in [Sessions -> {"none", "open", "disabled", "gone"}]
           /\ chosen' \in [Sessions -> SUBSET Clips] /\ replace' \in [Sessions -> BOOLEAN]
           /\ tries' \in [Sessions -> 0..MaxAttempts]
           /\ path' \in [Sessions -> [Clips -> Paths \cup {None}]]
           /\ raw' \in [Sessions -> [Clips -> {"none", "growing", "flushing", "cut", "full", "rest"}]]
           /\ \A s \in Sessions : s # cur => session'[s] = session[s]
<1> USE DEF Clears
<1>0. TypeOK
  BY DEF IInv
<1>1. session' \in [Sessions -> {"none", "open", "disabled", "gone"}]
  BY <1>0 DEF TypeOK
<1>2. chosen' \in [Sessions -> SUBSET Clips] /\ replace' \in [Sessions -> BOOLEAN]
  <2>1. chosen \in [Sessions -> SUBSET Clips] /\ replace \in [Sessions -> BOOLEAN]
    BY <1>0 DEF TypeOK
  <2>2. chosen' \in {chosen, [chosen EXCEPT ![cur] = {}]}
    OBVIOUS
  <2>3. replace' \in {replace, [replace EXCEPT ![cur] = FALSE]}
    OBVIOUS
  <2>4. [chosen EXCEPT ![cur] = {}] \in [Sessions -> SUBSET Clips]
    BY ONLY <2>1
  <2>5. [replace EXCEPT ![cur] = FALSE] \in [Sessions -> BOOLEAN]
    BY ONLY <2>1
  <2> QED BY ONLY <2>1, <2>2, <2>3, <2>4, <2>5
<1>3. tries' \in [Sessions -> 0..MaxAttempts]
  <2>1. tries \in [Sessions -> 0..MaxAttempts] /\ 0 \in 0..MaxAttempts
    BY <1>0, Constants DEF TypeOK
  <2>2. tries' \in {tries, [tries EXCEPT ![cur] = 0]}
    OBVIOUS
  <2> QED BY ONLY <2>1, <2>2
<1>4. path' \in [Sessions -> [Clips -> Paths \cup {None}]]
  <2>1. path \in [Sessions -> [Clips -> Paths \cup {None}]]
    BY <1>0 DEF TypeOK
  <2>2. [c \in Clips |-> None] \in [Clips -> Paths \cup {None}]
    OBVIOUS
  <2>3. [path EXCEPT ![cur] = [c \in Clips |-> None]] \in [Sessions -> [Clips -> Paths \cup {None}]]
    BY <2>1, <2>2
  <2> QED BY <2>1, <2>3
<1>5. raw' \in [Sessions -> [Clips -> {"none", "growing", "flushing", "cut", "full", "rest"}]]
  <2>1. raw \in [Sessions -> [Clips -> {"none", "growing", "flushing", "cut", "full", "rest"}]]
    BY <1>0 DEF TypeOK
  <2>2. [c \in Clips |-> IF raw[cur][c] \in Held THEN raw[cur][c] ELSE "none"]
           \in [Clips -> {"none", "growing", "flushing", "cut", "full", "rest"}]
    BY <2>1
  <2>3. Cleaned(cur) \in [Sessions -> [Clips -> {"none", "growing", "flushing", "cut", "full", "rest"}]]
    BY <2>1, <2>2 DEF Cleaned
  <2> QED BY <2>1, <2>3
<1>6. \A s \in Sessions : s # cur =>
         /\ session'[s] = session[s] /\ chosen'[s] = chosen[s] /\ raw'[s] = raw[s] /\ path'[s] = path[s]
  <2> SUFFICES ASSUME NEW s \in Sessions, s # cur
               PROVE  /\ session'[s] = session[s] /\ chosen'[s] = chosen[s]
                      /\ raw'[s] = raw[s] /\ path'[s] = path[s]
    OBVIOUS
  <2>1. \A q : [session EXCEPT ![cur] = q][s] = session[s] /\ [chosen EXCEPT ![cur] = q][s] = chosen[s]
    BY <1>0 DEF TypeOK
  <2>2. Cleaned(cur)[s] = raw[s] /\ \A q : [path EXCEPT ![cur] = q][s] = path[s]
    BY <1>0 DEF TypeOK, Cleaned
  <2> QED BY <2>1, <2>2
<1>7. session'[cur] \in {"open", "gone", "disabled"} /\ (chosen'[cur] = {} \/ chosen'[cur] = chosen[cur])
  <2>1. session'[cur] \in {"open", "gone", "disabled"}
    <3>1. \A q \in {"open", "gone", "disabled"} : [session EXCEPT ![cur] = q][cur] = q
      BY <1>0 DEF TypeOK
    <3> QED BY <3>1
  <2>2. chosen'[cur] = {} \/ chosen'[cur] = chosen[cur]
    <3>1. [chosen EXCEPT ![cur] = {}][cur] = {}
      BY <1>0 DEF TypeOK
    <3> QED BY <3>1
  <2> QED BY <2>1, <2>2
<1>8. \A c \in Clips : /\ raw'[cur][c] \in {"none", raw[cur][c]}
                       /\ path'[cur][c] = path[cur][c] \/ (path'[cur][c] = None /\ chosen'[cur] = {})
  <2>1. \A c \in Clips : raw'[cur][c] \in {"none", raw[cur][c]}
    <3>1. \A c \in Clips : Cleaned(cur)[cur][c] \in {"none", raw[cur][c]}
      BY <1>0 DEF TypeOK, Cleaned
    <3> QED BY <3>1
  <2>2. \A c \in Clips : path'[cur][c] = path[cur][c] \/ (path'[cur][c] = None /\ chosen'[cur] = {})
    <3>1. \A c \in Clips : [path EXCEPT ![cur] = [d \in Clips |-> None]][cur][c] = None
      BY <1>0 DEF TypeOK
    <3> QED BY <3>1
  <2> QED BY <2>1, <2>2
<1>9. UNCHANGED <<idx, torn, lost>>
  BY DEF index
<1>10. LaunchInv'
  BY <1>6, <1>7 DEF IInv, LaunchInv
<1>11. PathInv'
  <2>1. \A s \in Sessions : Numbered(s) => Numbered(s)'
    BY <1>6, <1>7 DEF Numbered
  <2>2. \A s \in Sessions : \A c \in Clips : path'[s][c] <= s
    BY <1>6, <1>8, Constants DEF IInv, PathInv, None
  <2>3. \A s \in Sessions : \A c \in chosen'[s] : path'[s][c] # None
    BY <1>2, <1>6, <1>7, <1>8 DEF IInv, PathInv
  <2> QED BY <2>1, <2>2, <2>3 DEF IInv, PathInv
<1>12. CaptureInv'
  <2>1. ASSUME NEW s \in Sessions, NEW c \in Clips, chosen'[s] # {}, raw'[s][c] # "none"
        PROVE  c \in chosen'[s]
    <3>1. chosen'[s] = chosen[s] /\ raw[s][c] # "none"
      BY <1>6, <1>7, <1>8, <2>1
    <3> QED BY <2>1, <3>1 DEF IInv, CaptureInv
  <2>2. ASSUME tf2 # None, chosen'[tf2] # {} PROVE Range(toPlay) \subseteq chosen'[tf2]
    <3>1. chosen'[tf2] = chosen[tf2]
      BY <1>0, <1>6, <1>7, <2>2 DEF TypeOK
    <3> QED BY <2>2, <3>1 DEF IInv, CaptureInv
  <2> QED BY <2>1, <2>2 DEF CaptureInv
<1>13. HalfCopyKeepsCapture'
  <2> SUFFICES ASSUME NEW c \in Clips, NEW p \in Paths, file[c][p] = "partial"
               PROVE  \E s \in Sessions : /\ path'[s][c] = p /\ raw'[s][c] \in OnDisk
                                          /\ session'[s] \in {"open", "disabled"}
    BY DEF HalfCopyKeepsCapture
  <2>1. PICK s \in Sessions : /\ path[s][c] = p /\ raw[s][c] \in OnDisk
                              /\ session[s] \in {"open", "disabled"}
    BY DEF IInv, HalfCopyKeepsCapture
  <2>2. CASE s # cur
    BY <1>6, <2>1, <2>2
  <2>3. CASE s = cur
    <3>1. c \in chosen[cur]
      BY <2>1, <2>3 DEF IInv, CaptureInv, OnDisk, Held, Usable
    <3>2. ~Settled(cur)
      BY <2>1, <2>3, <3>1 DEF Settled, OnDisk, Held, Usable
    <3>3. path'[cur] = path[cur] /\ raw'[cur] = raw[cur] /\ session'[cur] \in {"open", "disabled"}
      BY <1>0, <3>2 DEF Stays, TypeOK
    <3> QED BY <2>1, <2>3, <3>3
  <2> QED BY <2>2, <2>3
<1>14. IndexInv'
  BY <1>9, KeepIndex DEF IInv
<1>15. HeldInv'
  <2>1. \A s \in Sessions : \A c \in Clips : raw'[s][c] \in Held => raw[s][c] \in Held
    BY <1>6, <1>8 DEF Held
  <2> QED BY <2>1, KeepHeld DEF IInv
<1> QED BY <1>1, <1>2, <1>3, <1>4, <1>5, <1>6, <1>10, <1>11, <1>12, <1>13, <1>14, <1>15

\* A finalizer that has judged every clip and failed none has made every output.
LEMMA AllCompleted ==
    ASSUME IInv, at = "next", mode = "sweep", chosen[cur] = Judged, failed = {}
    PROVE  Settled(cur)
  BY DEF IInv, CompletedInv, Settled, Judged

LEMMA AllRecovered ==
    ASSUME IInv, at = "next", mode = "recovery", cur # None, todo = <<>>, allDone
    PROVE  Settled(cur)
<1>1. at \notin OnClip /\ Range(todo) = {}
  BY StepNames DEF Range
<1> QED BY <1>1 DEF IInv, DoneInv, Settled

LEMMA ConcludeClears == ASSUME IInv, Conclude PROVE Clears(cur) /\ (Settled(cur) \/ Stays(cur))
<1> USE DEF Conclude, Goes
<1>1. at = "next" /\ mode = "sweep" /\ cur \in Sessions
  BY DEF IInv, TypeOK, WorkerInv
<1>2. CASE failed = {} /\ Removed(cur)
  <2>1. Clears(cur)
    BY <1>1, <1>2, GoneClears DEF Removed, IInv
  <2> QED BY <1>1, <1>2, <2>1, AllCompleted
<1>3. CASE ~(failed = {} /\ Removed(cur))
  BY <1>3 DEF folder, Clears, Stays
<1> QED BY <1>2, <1>3

LEMMA ConcludeInv == ASSUME IInv, Conclude PROVE IInv'
<1> USE DEF Conclude, Goes
<1>1. /\ at = "next" /\ at' = "idle" /\ mode = "sweep" /\ cur \in Sessions /\ session[cur] = "open"
      /\ chosen[cur] # {}
  BY DEF IInv, TypeOK, WorkerInv
<1>2. Clears(cur) /\ (Settled(cur) \/ Stays(cur))
  BY ConcludeClears
<1>3. /\ LaunchInv' /\ PathInv' /\ CaptureInv' /\ HeldInv' /\ HalfCopyKeepsCapture' /\ IndexInv'
      /\ session' \in [Sessions -> {"none", "open", "disabled", "gone"}]
      /\ chosen' \in [Sessions -> SUBSET Clips] /\ replace' \in [Sessions -> BOOLEAN]
      /\ tries' \in [Sessions -> 0..MaxAttempts]
      /\ path' \in [Sessions -> [Clips -> Paths \cup {None}]]
      /\ raw' \in [Sessions -> [Clips -> {"none", "growing", "flushing", "cut", "full", "rest"}]]
  BY <1>1, <1>2, Cleared
<1>4. mode' = "watch" /\ cur' = None /\ completed' = {} /\ existed' = FALSE
  BY DEF NoLocals
<1>5. TypeOK'
  <2>1. faults' \in 0..MaxFaults
    BY <1>2, FaultType DEF Clears, IInv
  <2>2. torn' \in BOOLEAN /\ lost' \in BOOLEAN /\ half' \in BOOLEAN /\ existed' \in BOOLEAN
        /\ allDone' \in BOOLEAN
    BY DEF NoLocals, index, IInv, TypeOK
  <2>3. /\ clip' = None /\ todo' = <<>> /\ read' = 0 /\ Judged' = {} /\ old' = None
        /\ waiting' = {} /\ log' = <<>> /\ muxed' = "none"
    BY DEF NoLocals, Judged
  <2>4. <<>> \in Seq(Clips)
    OBVIOUS
  <2> QED BY <1>1, <1>3, <1>4, <2>1, <2>2, <2>3, <2>4 DEF IInv, TypeOK, Steps, index
<1> QED BY <1>1, <1>3, <1>4, <1>5, AtRest DEF IInv

LEMMA EndAttemptClears == ASSUME IInv, EndAttempt PROVE Clears(cur) /\ (Settled(cur) \/ Stays(cur))
<1> USE DEF EndAttempt
<1>1. at = "next" /\ mode = "recovery" /\ cur \in Sessions /\ cur # None /\ todo = <<>>
  BY DEF IInv, TypeOK
<1>2. CASE allDone
  <2>1. Settled(cur)
    BY <1>1, <1>2, AllRecovered
  <2>2. Gone(cur) \/ (PartlyGone(cur) /\ session' \in {session, [session EXCEPT ![cur] = "disabled"]})
    BY <1>2 DEF Disabled
  <2> QED BY <1>1, <2>1, <2>2, GoneClears DEF IInv
<1>3. CASE ~allDone
  BY <1>3 DEF Disabled, Clears, Stays, folder, NoFault
<1> QED BY <1>2, <1>3

LEMMA EndAttemptInv == ASSUME IInv, EndAttempt PROVE IInv'
<1> USE DEF EndAttempt
<1>1. /\ at = "next" /\ at' = "next" /\ at \notin OnClip /\ mode = "recovery" /\ cur \in Sessions
      /\ session[cur] = "open" /\ chosen[cur] # {} /\ ~existed /\ todo = <<>> /\ cur' = None
  BY StepNames DEF IInv, TypeOK, WorkerInv
<1>2. Clears(cur) /\ (Settled(cur) \/ Stays(cur))
  BY EndAttemptClears
<1>3. /\ LaunchInv' /\ PathInv' /\ CaptureInv' /\ HeldInv' /\ HalfCopyKeepsCapture' /\ IndexInv'
      /\ session' \in [Sessions -> {"none", "open", "disabled", "gone"}]
      /\ chosen' \in [Sessions -> SUBSET Clips] /\ replace' \in [Sessions -> BOOLEAN]
      /\ tries' \in [Sessions -> 0..MaxAttempts]
      /\ path' \in [Sessions -> [Clips -> Paths \cup {None}]]
      /\ raw' \in [Sessions -> [Clips -> {"none", "growing", "flushing", "cut", "full", "rest"}]]
      /\ \A s \in Sessions : s # cur => session'[s] = session[s]
  <2>1. UNCHANGED <<file, index, tf2, toPlay>>
    BY DEF game
  <2> QED BY <1>1, <1>2, <2>1, Cleared
<1>4. UNCHANGED <<file, idx, torn, lost, tf2, toPlay, log, half, crashes, mode, clip, todo, read,
                  completed, failed, existed, allDone, muxed, old, waiting>>
  BY DEF index, game, judged
<1>5. TypeOK'
  <2>1. faults' \in 0..MaxFaults
    BY <1>2, FaultType DEF Clears, IInv
  <2>2. torn' \in BOOLEAN /\ lost' \in BOOLEAN /\ half' \in BOOLEAN /\ existed' \in BOOLEAN
        /\ allDone' \in BOOLEAN
    BY <1>4 DEF IInv, TypeOK
  <2> QED BY <1>1, <1>3, <1>4, <2>1, <2>2 DEF IInv, TypeOK, Steps, Judged
<1>6. WorkerInv'
  <2>1. tf2 = None /\ completed = {} /\ \A s \in waiting : session[s] = "open" /\ s # cur
    BY <1>1 DEF IInv, WorkerInv
  <2>2. waiting \subseteq Sessions
    BY DEF IInv, TypeOK
  <2> QED BY <1>1, <1>3, <1>4, <2>1, <2>2, Constants DEF WorkerInv
<1>7. OutputInv' /\ DoneInv' /\ CompletedInv'
  <2>1. completed' = {}
    BY <1>1, <1>4 DEF IInv, WorkerInv
  <2> QED BY <1>1, <2>1 DEF OutputInv, DoneInv, CompletedInv
<1>8. FreshInv'
  BY <1>1, <1>4, StepNames DEF FreshInv, ToWrite
<1> QED BY <1>3, <1>5, <1>6, <1>7, <1>8 DEF IInv

LEMMA BeginAttemptInv == ASSUME IInv, NEW s \in Sessions, BeginAttempt(s) PROVE IInv'
<1> USE DEF BeginAttempt, TakeUp, Turns, Disables, Disabled, NoAttempt, Attempt
<1>1. /\ at = "next" /\ at' = "next" /\ at \notin OnClip /\ mode = "recovery" /\ cur = None
      /\ s \in waiting /\ waiting' = waiting \ {s} /\ session[s] = "open" /\ ~existed
      /\ tf2 = None /\ completed = {} /\ \A r \in waiting : session[r] = "open"
  BY StepNames DEF IInv, WorkerInv
<1>2. UNCHANGED <<chosen, replace, path, raw, file, idx, torn, lost, tf2, toPlay, log, half, crashes,
                  at, mode, clip, read, completed, failed, existed, muxed, old>>
  BY DEF index, game, judged
<1>3. \/ UNCHANGED <<cur, todo, allDone>> /\ session' = [session EXCEPT ![s] = "disabled"]
      \/ UNCHANGED <<cur, todo, allDone, session>>
      \/ /\ cur' = s /\ todo' = InOrder(chosen[s]) /\ allDone' = TRUE /\ session' = session
         /\ chosen[s] # {}
  OBVIOUS
<1>4. InOrder(chosen[s]) \in Seq(Clips) /\ Range(InOrder(chosen[s])) = chosen[s]
  BY InOrderType DEF IInv, TypeOK
<1>5. Fault \/ NoFault
  OBVIOUS
<1>6. tries' \in [Sessions -> 0..MaxAttempts]
  <2>1. tries[s] \in 0..MaxAttempts /\ MaxAttempts \in Nat
    BY Constants DEF IInv, TypeOK
  <2>2. tries' = tries \/ tries' = [tries EXCEPT ![s] = 0]
        \/ (tries[s] < MaxAttempts /\ tries' = [tries EXCEPT ![s] = tries[s] + 1])
    OBVIOUS
  <2>3. 0 \in 0..MaxAttempts /\ (tries[s] < MaxAttempts => tries[s] + 1 \in 0..MaxAttempts)
    BY <2>1
  <2> QED BY <2>2, <2>3 DEF IInv, TypeOK
<1>7. session' \in [Sessions -> {"none", "open", "disabled", "gone"}]
      /\ session'[s] \in {"open", "disabled"} /\ \A r \in Sessions : r # s => session'[r] = session[r]
  BY <1>1, <1>3 DEF IInv, TypeOK
<1>8. TypeOK'
  <2>1. allDone' \in BOOLEAN
    BY <1>3 DEF IInv, TypeOK
  <2>2. existed' \in BOOLEAN /\ torn' \in BOOLEAN /\ lost' \in BOOLEAN /\ half' \in BOOLEAN
    BY <1>2 DEF IInv, TypeOK
  <2>3. cur' \in Sessions \cup {None} /\ todo' \in Seq(Clips)
    BY <1>3, <1>4 DEF IInv, TypeOK
  <2>4. faults' \in 0..MaxFaults
    BY <1>5, FaultType DEF IInv
  <2> QED BY <1>1, <1>2, <1>6, <1>7, <2>1, <2>2, <2>3, <2>4 DEF IInv, TypeOK, Judged
<1>9. WorkerInv'
  <2>1. waiting \subseteq Sessions
    BY DEF IInv, TypeOK
  <2>2. \A r \in waiting' : session'[r] = "open" /\ r # cur'
    BY <1>1, <1>3, <1>7, <2>1, Constants
  <2>3. cur' # None => cur' = s /\ session'[s] = "open" /\ chosen[s] # {} /\ Range(todo') = chosen[s]
    BY <1>1, <1>3, <1>4
  <2> QED BY <1>1, <1>2, <2>2, <2>3 DEF WorkerInv
<1>10. LaunchInv'
  BY <1>1, <1>2, <1>7 DEF IInv, LaunchInv
<1>11. PathInv'
  <2>1. \A r \in Sessions : Numbered(r) => Numbered(r)'
    BY <1>1, <1>7 DEF Numbered
  <2> QED BY <1>2, <2>1 DEF IInv, PathInv
<1>12. CaptureInv'
  BY <1>2, KeepCapture DEF IInv
<1>13. HalfCopyKeepsCapture'
  BY <1>2, <1>7 DEF IInv, HalfCopyKeepsCapture
<1>14. DoneInv'
  BY <1>1, <1>2, <1>3, <1>4 DEF DoneInv
<1>15. OutputInv' /\ CompletedInv'
  BY <1>1, <1>2 DEF OutputInv, CompletedInv
<1>16. IndexInv'
  BY <1>1, <1>2, KeepIndex DEF IInv
<1>17. HeldInv'
  BY <1>2, KeepHeld DEF IInv
<1>18. FreshInv'
  BY <1>1, <1>2, StepNames DEF FreshInv, ToWrite
<1> QED BY <1>8, <1>9, <1>10, <1>11, <1>12, <1>13, <1>14, <1>15, <1>16, <1>17, <1>18 DEF IInv

------------------------------------------------------------------------------
(* The theorems *)

LEMMA StutterInv == ASSUME IInv, UNCHANGED vars PROVE IInv'
<1>1. UNCHANGED <<session, chosen, replace, tries, path, raw, file, idx, torn, lost, tf2, toPlay,
                  log, half, at, mode, cur, clip, todo, read, completed, failed, existed, allDone,
                  muxed, old, waiting, faults, crashes>>
  BY DEF vars, folder, index, game, local, judged
<1>2. TypeOK' /\ WorkerInv' /\ LaunchInv'
  BY <1>1 DEF IInv, TypeOK, WorkerInv, LaunchInv, Judged
<1>3. PathInv' /\ CaptureInv' /\ HalfCopyKeepsCapture'
  BY <1>1 DEF IInv, PathInv, Numbered, CaptureInv, HalfCopyKeepsCapture
<1>4. OutputInv' /\ DoneInv' /\ CompletedInv'
  BY <1>1 DEF IInv, OutputInv, DoneInv, CompletedInv, Content, Out
<1>5. IndexInv'
  BY <1>1 DEF IInv, IndexInv, IndexedExists, Exists, Out
<1>6. HeldInv' /\ FreshInv'
  BY <1>1 DEF IInv, HeldInv, FreshInv, ToWrite, Judged
<1> QED BY <1>2, <1>3, <1>4, <1>5, <1>6 DEF IInv

LEMMA NextInv == IInv /\ [Next]_vars => IInv'
<1> SUFFICES ASSUME IInv, [Next]_vars PROVE IInv'
  OBVIOUS
<1>1. CASE Tf2Next
  BY <1>1, Tf2Inv
<1>2. CASE Finalize
  BY <1>2, MuxInv, MuxFailsInv, MoveInv, CopyFailsInv, DropInv, RegisterInv, RegisterFailsInv,
     ReplaceInv DEF Finalize
<1>3. CASE HelperNext
  <2>1. CASE \E selected \in SUBSET Clips, again \in BOOLEAN : WriteManifest(selected, again)
    BY <2>1, WriteManifestInv
  <2>2. CASE \E s \in Sessions : BeginAttempt(s)
    BY <2>2, BeginAttemptInv
  <2>3. CASE StartTf2 \/ LaunchFails \/ Poll \/ LeaveWatch \/ TakeMarked \/ Sweep
    BY <2>3, StartTf2Inv, RestInv, PollInv, LeaveWatchInv, TakeMarkedInv, SweepInv
  <2>4. CASE Conclude \/ RecoverClip \/ EndAttempt \/ RecoveryEnds
    BY <2>4, ConcludeInv, RecoverClipInv, EndAttemptInv, RestInv
  <2> QED BY <1>2, <1>3, <2>1, <2>2, <2>3, <2>4 DEF HelperNext
<1>4. CASE Launch \/ Close \/ Start \/ Crash
  BY <1>4, LaunchedInv, RestInv, StartInv
<1>5. CASE \E c \in Clips : Reconcile(c)
  BY <1>5, ReconcileInv
<1>6. CASE UNCHANGED vars
  BY <1>6, StutterInv
<1> QED BY <1>1, <1>3, <1>4, <1>5, <1>6 DEF Next

\* The strengthened invariant of sessions, captures, outputs and index.
THEOREM IInvHolds == Spec => []IInv
  BY InitIInv, NextInv, PTL DEF Spec

\* Every session folder, output, index entry and local variable of the threads
\* stays in its set, whatever fails and wherever the helper dies.
THEOREM TypeInvariant == Spec => []TypeOK
<1>1. IInv => TypeOK
  BY DEF IInv
<1> QED BY <1>1, IInvHolds, PTL

\* Whatever fails, and wherever the helper dies, an output that move_file has
\* copied half way has its capture in the folder of a session that is kept, for
\* HLAE may have the capture's files open, but only a whole copy removes them.
THEOREM HalfCopiesKeepCaptures == Spec => []HalfCopyKeepsCapture
<1>1. IInv => HalfCopyKeepsCapture
  BY DEF IInv
<1> QED BY <1>1, IInvHolds, PTL

\* Unless an entry was written onto the rest of a torn line, the index never
\* points at an output that the helper has deleted: the old output is removed
\* after the new one was entered, and is another one.
THEOREM IndexHolds == Spec => []IndexedExists
<1>1. IInv => IndexedExists
  BY DEF IInv, IndexInv
<1> QED BY <1>1, IInvHolds, PTL

\* Outputs and captures that are as good as before keep every candidate safe.
LEMMA KeepSafe ==
    ASSUME TypeOK, NEW c \in Clips,
           \A p \in Paths : file[c][p] \in Usable => file'[c][p] \in Usable,
           \A s \in Sessions : raw[s][c] \in Usable => raw'[s][c] \in Usable,
           \A s \in Sessions : session[s] \in {"open", "disabled"} => session'[s] \in {"open", "disabled"}
    PROVE  Safe(c) => Safe(c)'
  BY DEF Safe

LEMMA PlaysSafe ==
    ASSUME IInv, Plays, UNCHANGED <<file, folder>>, NEW c \in Clips
    PROVE  Safe(c) => Safe(c)'
<1>1. TypeOK /\ session' = session
  BY DEF IInv, folder
<1> QED BY <1>1, KeepSafe DEF Plays

\* The folder goes when every clip has its output.
LEMMA ClearedSafe ==
    ASSUME IInv, cur \in Sessions, chosen[cur] # {}, Clears(cur), Settled(cur) \/ Stays(cur),
           UNCHANGED file, NEW c \in Clips
    PROVE  Safe(c) => Safe(c)'
<1>1. TypeOK
  BY DEF IInv
<1>2. CASE \E p \in Paths : file[c][p] \in Usable
  BY <1>2 DEF Safe
<1>3. ASSUME NEW s \in Sessions, session[s] \in {"open", "disabled"}, raw[s][c] \in Usable
      PROVE  Safe(c)'
  <2>1. CASE s # cur
    <3>1. session'[s] = session[s] /\ raw'[s] = raw[s]
      BY <1>1, <2>1 DEF Clears, Cleaned, TypeOK
    <3> QED BY <1>3, <3>1 DEF Safe
  <2>2. CASE s = cur /\ Stays(cur)
    <3>1. session'[s] \in {"open", "disabled"} /\ raw'[s] = raw[s]
      BY <1>1, <1>3, <2>2 DEF Stays, TypeOK
    <3> QED BY <1>3, <3>1 DEF Safe
  <2>3. CASE s = cur /\ Settled(cur)
    <3>1. c \in chosen[cur]
      BY <1>3, <2>3 DEF IInv, CaptureInv, Usable
    <3>2. file[c][path[cur][c]] \in Usable
      BY <1>3, <2>3, <3>1 DEF Settled, Usable
    <3>3. path[cur][c] \in Paths
      BY <1>1, <3>1 DEF TypeOK, IInv, PathInv
    <3> QED BY <3>2, <3>3 DEF Safe
  <2> QED BY <2>1, <2>2, <2>3
<1> QED BY <1>2, <1>3 DEF Safe

\* A step on the clip in work, which has a whole output or a usable capture
\* after the step.
LEMMA ClipSafe ==
    ASSUME IInv, at \in OnClip, NEW c \in Clips, UNCHANGED folder,
           \A d \in Clips : d # clip => file'[d] = file[d],
           \A s \in Sessions : \A d \in Clips : d # clip => raw'[s][d] = raw[s][d],
           file'[clip][Out] \in Usable \/ raw'[cur][clip] \in Usable
    PROVE  Safe(c) => Safe(c)'
<1>1. cur \in Sessions /\ session'[cur] = "open" /\ Out \in Paths /\ TypeOK
  BY AtWork DEF folder, IInv
<1>2. CASE c = clip
  BY <1>1, <1>2 DEF Safe
<1>3. CASE c # clip
  <2>1. session' = session
    BY DEF folder
  <2> QED BY <1>1, <1>3, <2>1, KeepSafe
<1> QED BY <1>2, <1>3

LEMMA FinalizeSafe == ASSUME IInv, Finalize, NEW c \in Clips PROVE Safe(c) => Safe(c)'
<1> USE DEF Goes
<1>0. /\ at \in OnClip /\ cur \in Sessions /\ clip \in Clips /\ Out \in Paths /\ TypeOK
      /\ UNCHANGED folder
  <2>1. at \in OnClip
    BY DEF Finalize, Mux, MuxFails, Rename, CopyBegins, CopyEnds, CopyFails, DropVideo, DropAudio,
       Register, RegisterFails, Replace, OnClip, Muxing, Filed, Entered
  <2>2. UNCHANGED folder
    BY DEF Finalize, Mux, MuxFails, Rename, CopyBegins, CopyEnds, CopyFails, DropVideo, DropAudio,
       Register, RegisterFails, Replace, Moved, Worker
  <2> QED BY <2>1, <2>2, AtWork DEF IInv
<1>1. CASE Mux \/ MuxFails \/ Register \/ RegisterFails
  <2>1. UNCHANGED <<file, raw>>
    BY <1>1 DEF Mux, MuxFails, Register, RegisterFails, Worker
  <2>2. session' = session
    BY <1>0 DEF folder
  <2> QED BY <1>0, <2>1, <2>2, KeepSafe
<1>2. CASE Rename \/ CopyEnds \/ CopyFails
  <2>1. muxed \in Usable /\ UNCHANGED raw
    BY <1>0, <1>2 DEF Rename, CopyEnds, CopyFails, Moved, IInv, OutputInv
  <2>2. file' = file \/ file' = [file EXCEPT ![clip][Out] = muxed]
    BY <1>2 DEF Rename, CopyEnds, CopyFails
  <2>3. \A d \in Clips : \A p \in Paths : file[d][p] \in Usable => file'[d][p] \in Usable
    <3>1. CASE file' = file
      BY <3>1
    <3>2. CASE file' = [file EXCEPT ![clip][Out] = muxed]
      BY <1>0, <2>1, <3>2 DEF TypeOK
    <3> QED BY <2>2, <3>1, <3>2
  <2>4. session' = session
    BY <1>0 DEF folder
  <2> QED BY <1>0, <2>1, <2>3, <2>4, KeepSafe
<1>5. CASE CopyBegins
  <2>1. at = "move" /\ Content \in OnDisk /\ UNCHANGED raw
    BY <1>0, <1>5 DEF CopyBegins, Moved, IInv, OutputInv
  <2>2. file' = [file EXCEPT ![clip][Out] = "partial"]
    BY <1>5 DEF CopyBegins
  <2>3. CASE Content \in Usable
    <3>1. raw'[cur][clip] \in Usable
      BY <2>1, <2>3 DEF Content
    <3>2. \A d \in Clips : d # clip => file'[d] = file[d]
      BY <1>0, <2>2 DEF TypeOK
    <3> QED BY <1>0, <2>1, <3>1, <3>2, ClipSafe
  <2>4. CASE Content \in Held
    <3>1. tf2 # None /\ mode # "recovery"
      BY <1>0, <2>4, Constants DEF IInv, HeldInv, WorkerInv, Content
    <3>2. file[clip][Out] = "none"
      BY <1>0, <2>1, <3>1 DEF IInv, FreshInv, ToWrite, Out
    <3>3. \A d \in Clips : \A p \in Paths : file[d][p] \in Usable => file'[d][p] \in Usable
      BY <1>0, <2>2, <3>2 DEF TypeOK, Usable
    <3>4. session' = session
      BY <1>0 DEF folder
    <3> QED BY <1>0, <2>1, <3>3, <3>4, KeepSafe
  <2> QED BY <2>1, <2>3, <2>4 DEF OnDisk
<1>3. CASE DropVideo \/ DropAudio
  <2>1. file[clip][Out] \in Usable /\ UNCHANGED file
    BY <1>0, <1>3 DEF DropVideo, DropAudio, IInv, OutputInv, Filed
  <2>2. \A s \in Sessions : \A d \in Clips : d # clip => raw'[s][d] = raw[s][d]
    BY <1>0, <1>3 DEF DropVideo, DropAudio, NotRemoved, TypeOK
  <2> QED BY <1>0, <2>1, <2>2, ClipSafe
<1>4. CASE Replace
  <2> USE DEF Replace
  <2>1. UNCHANGED raw /\ at \in Entered
    BY <1>4 DEF Entered
  <2>2. \/ file' = file
        \/ old \in Paths /\ old # Out /\ file' = [file EXCEPT ![clip][old] = "none"]
    BY <1>0, <1>4, Constants DEF TypeOK
  <2>3. (\A d \in Clips : d # clip => file'[d] = file[d]) /\ file'[clip][Out] = file[clip][Out]
    BY <1>0, <2>2 DEF TypeOK
  <2>4. CASE file[clip][Out] \in Usable
    BY <1>0, <2>1, <2>3, <2>4, ClipSafe
  <2>5. CASE file[clip][Out] \notin Usable
    <3>1. file[clip][Out] = "partial"
      BY <1>0, <2>1, <2>5 DEF IInv, OutputInv, TypeOK, Usable
    <3>2. mode = "recovery" /\ tf2 = None
      BY <1>0, <2>1, <2>5 DEF IInv, OutputInv, WorkerInv
    <3>5. PICK s \in Sessions : raw[s][clip] \in OnDisk /\ session[s] \in {"open", "disabled"}
      BY <1>0, <3>1 DEF IInv, HalfCopyKeepsCapture
    <3>6. raw[s][clip] \in Usable
      BY <1>0, <3>2, <3>5, Constants DEF IInv, HeldInv, OnDisk
    <3>3. CASE c = clip
      BY <1>0, <2>1, <3>3, <3>5, <3>6 DEF Safe, folder
    <3>4. CASE c # clip
      <4>1. session' = session /\ raw' = raw /\ file'[c] = file[c]
        BY <1>0, <2>1, <2>3, <3>4 DEF folder
      <4> QED BY <1>0, <4>1, KeepSafe
    <3> QED BY <3>3, <3>4
  <2> QED BY <2>4, <2>5
<1> QED BY <1>1, <1>2, <1>3, <1>4, <1>5 DEF Finalize

LEMMA NextSafe == ASSUME IInv, Next, NEW c \in Clips PROVE Safe(c) => Safe(c)'
<1>0. TypeOK /\ HeldInv
  BY DEF IInv
<1>1. CASE Tf2Next
  <2>1. CASE RecordStart \/ RecordEnd \/ Flushed
    <3>1. tf2 # None /\ UNCHANGED game
      BY <2>1 DEF RecordStart, RecordEnd, Flushed
    <3>2. PICK d \in Clips, r \in {"growing", "flushing", "full"} :
             /\ raw[tf2][d] \notin Usable /\ Capture(d, r)
             /\ raw[tf2][d] # "none" \/ d \in Range(toPlay)
      BY <1>0, <2>1, PlayingClip DEF RecordStart, RecordEnd, Flushed, Usable
    <3>3. Plays
      BY <1>0, <3>1, <3>2, Captured
    <3> QED BY <2>1, <3>3, PlaysSafe DEF RecordStart, RecordEnd, Flushed, TF2Step
  <2>2. CASE Mark \/ RestOfLine
    <3>1. UNCHANGED <<raw, file, session>>
      BY <2>2 DEF Mark, RestOfLine, TF2Step, folder
    <3> QED BY <1>0, <3>1, KeepSafe
  <2>3. CASE Tf2Exit
    BY <1>0, <2>3, GonePlays, PlaysSafe DEF Tf2Exit, TF2Step
  <2> QED BY <1>1, <2>1, <2>2, <2>3 DEF Tf2Next
<1>2. CASE HelperNext
  <2>1. CASE StartTf2 \/ LaunchFails \/ Poll \/ LeaveWatch \/ TakeMarked \/ Sweep \/ RecoverClip
             \/ RecoveryEnds \/ \E selected \in SUBSET Clips, again \in BOOLEAN : WriteManifest(selected, again)
    <3>1. UNCHANGED <<raw, file, session>>
      BY <2>1 DEF StartTf2, LaunchFails, Poll, LeaveWatch, TakeMarked, Sweep, RecoverClip,
         RecoveryEnds, WriteManifest, Worker, folder
    <3> QED BY <1>0, <3>1, KeepSafe
  <2>2. CASE Conclude
    <3>1. cur \in Sessions /\ chosen[cur] # {} /\ UNCHANGED file
      BY <2>2 DEF Conclude, Goes, IInv, TypeOK, WorkerInv
    <3>2. Clears(cur) /\ (Settled(cur) \/ Stays(cur))
      BY <2>2, ConcludeClears
    <3> QED BY <3>1, <3>2, ClearedSafe
  <2>3. CASE EndAttempt
    <3>1. cur \in Sessions /\ chosen[cur] # {} /\ UNCHANGED file
      BY <2>3 DEF EndAttempt, IInv, TypeOK, WorkerInv
    <3>2. Clears(cur) /\ (Settled(cur) \/ Stays(cur))
      BY <2>3, EndAttemptClears
    <3> QED BY <3>1, <3>2, ClearedSafe
  <2>4. CASE \E s \in Sessions : BeginAttempt(s)
    <3>1. PICK s \in Sessions : BeginAttempt(s)
      BY <2>4
    <3>2. UNCHANGED <<raw, file>> /\ session' \in {session, [session EXCEPT ![s] = "disabled"]}
      BY <3>1 DEF BeginAttempt, TakeUp, Turns, Disables, Disabled, NoAttempt, Attempt
    <3>3. \A r \in Sessions : session[r] \in {"open", "disabled"} => session'[r] \in {"open", "disabled"}
      BY <1>0, <3>2 DEF TypeOK
    <3> QED BY <1>0, <3>2, <3>3, KeepSafe
  <2>5. CASE Finalize
    BY <2>5, FinalizeSafe
  <2> QED BY <1>2, <2>1, <2>2, <2>3, <2>4, <2>5 DEF HelperNext
<1>3. CASE Launch
  <2>1. PICK s \in Sessions : session' = [session EXCEPT ![s] = "open"] /\ UNCHANGED <<raw, file>>
    BY <1>3 DEF Launch
  <2>2. \A r \in Sessions : session[r] \in {"open", "disabled"} => session'[r] \in {"open", "disabled"}
    BY <1>0, <2>1 DEF TypeOK
  <2> QED BY <1>0, <2>1, <2>2, KeepSafe
<1>4. CASE Start
  BY <1>0, <1>4, GonePlays, PlaysSafe DEF Start
<1>5. CASE Close \/ Crash \/ \E d \in Clips : Reconcile(d)
  <2>1. UNCHANGED <<raw, file, session>>
    BY <1>5 DEF Close, Crash, Reconcile, Worker, folder
  <2> QED BY <1>0, <2>1, KeepSafe
<1> QED BY <1>1, <1>2, <1>3, <1>4, <1>5 DEF Next

LEMMA StepSafe == IInv /\ [Next]_vars => [\A c \in Clips : Safe(c) => Safe(c)']_vars
  BY NextSafe

\* Whatever fails, and wherever the helper dies, a candidate that has been
\* captured once keeps a whole output or a capture in the folder of a session
\* that is kept: the capture is removed after its output is whole, a session
\* after every clip of it has its output, and an output while another one or a
\* capture is there.
THEOREM CapturesKept == Spec => CaptureNeverLost
  BY IInvHolds, StepSafe, PTL DEF Spec, CaptureNeverLost
==================================================================================
