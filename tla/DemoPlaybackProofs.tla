--------------------------- MODULE DemoPlaybackProofs ---------------------------
(***************************************************************************)
(* Proofs about DemoPlayback for any demo, margins and bounds: the passes  *)
(* of a batch fit what vdm_text accepts and are as few as can be; clips    *)
(* are recorded one at a time; and the safe seek of a manual session makes *)
(* short hops and none behind the user's back.                             *)
(***************************************************************************)
EXTENDS DemoPlayback, SequenceTheorems, FiniteFacts, TLAPS

(* The recursion of Partition *)

\* g gives the passes after each window.
Places(g, ws, n) == g = [i \in 0..n |-> IF i = 0 THEN <<>> ELSE Placed(ws, g[i - 1], i)]

LEMMA PlacesExist == ASSUME NEW ws, NEW n \in Nat PROVE \E g : Places(g, ws, n)
<1> DEFINE B == {m \in Nat : \E g : Places(g, ws, m)}
<1>1. 0 \in B
  <2>1. Places([i \in 0..0 |-> <<>>], ws, 0)
    BY DEF Places
  <2> QED BY <2>1
<1>2. ASSUME NEW m \in B PROVE m + 1 \in B
  <2>1. PICK g : Places(g, ws, m)
    OBVIOUS
  <2>2. m \in Nat
    OBVIOUS
  <2> DEFINE h == [i \in 0..(m + 1) |-> IF i = m + 1 THEN Placed(ws, g[m], m + 1) ELSE g[i]]
  <2>3. \A i \in 0..m : h[i] = g[i] /\ g[i] = IF i = 0 THEN <<>> ELSE Placed(ws, g[i - 1], i)
    BY <2>1, <2>2 DEF Places
  <2>4. \A i \in 0..(m + 1) : h[i] = IF i = 0 THEN <<>> ELSE Placed(ws, h[i - 1], i)
    <3> SUFFICES ASSUME NEW i \in 0..(m + 1)
                 PROVE  h[i] = IF i = 0 THEN <<>> ELSE Placed(ws, h[i - 1], i)
      OBVIOUS
    <3>1. CASE i = m + 1
      <4>1. h[i] = Placed(ws, g[m], m + 1) /\ h[m] = g[m] /\ i - 1 = m /\ i # 0
        BY <3>1, <2>2, <2>3
      <4> HIDE DEF h
      <4> QED BY <3>1, <4>1
    <3>2. CASE i # m + 1
      <4>1. i \in 0..m /\ (i # 0 => i - 1 \in 0..m)
        BY <3>2, <2>2
      <4> HIDE DEF h
      <4> QED BY <4>1, <2>3
    <3> QED BY <3>1, <3>2
  <2>5. Places(h, ws, m + 1)
    <3>1. h = [i \in 0..(m + 1) |-> h[i]]
      OBVIOUS
    <3> HIDE DEF h
    <3> QED BY <2>4, <3>1 DEF Places
  <2> QED BY <2>2, <2>5
<1>3. B = Nat
  <2>1. B \in SUBSET Nat
    OBVIOUS
  <2> HIDE DEF B
  <2> QED BY <1>1, <1>2, <2>1, NatSetInduction
<1> QED BY <1>3

LEMMA PartitionIs ==
    ASSUME NEW ws, Len(ws) \in Nat
    PROVE  \E g : Places(g, ws, Len(ws)) /\ Partition(ws) = g[Len(ws)]
<1>1. \E g : Places(g, ws, Len(ws))
  BY PlacesExist
<1>2. Places(CHOOSE g : Places(g, ws, Len(ws)), ws, Len(ws))
  BY <1>1
<1>3. Partition(ws) = (CHOOSE g : Places(g, ws, Len(ws)))[Len(ws)]
  BY DEF Partition, Places
<1> QED BY <1>2, <1>3

------------------------------------------------------------------------------
(* Windows *)

\* The clips of a demo, sorted by start.
Ordered(ws) ==
    /\ DOMAIN ws = 1..Clips /\ Len(ws) = Clips
    /\ \A i \in 1..Clips : /\ ws[i].start \in Nat /\ ws[i].end \in Nat /\ ws[i].start < ws[i].end
                           /\ ws[i].end + Flush + 3 <= LastTick
    /\ \A i, j \in 1..Clips : i <= j => ws[i].start <= ws[j].start

LEMMA Numbers ==
    /\ Flush \in Nat /\ Gap \in Nat /\ Gap >= 2 /\ Second \in Nat /\ Clips \in Nat /\ Clips > 0
    /\ LastTick \in Nat /\ MaxKeys \in Nat /\ Step \in Nat /\ Step > 0
  BY PlaybackAssumption

LEMMA WindowType ==
    ASSUME NEW first \in Nat, NEW last \in Nat, NEW margin \in Nat \X Nat
    PROVE  LET w == ClipWindow(first, last, margin) IN
           w.start \in Nat /\ w.end \in Nat /\ w.start < w.end
<1> DEFINE start == Larger(first - margin[1], 0)
           end   == Larger(last + margin[2], start + 1)
<1>1. margin[1] \in Nat /\ margin[2] \in Nat
  OBVIOUS
<1>2. start \in Nat
  BY <1>1 DEF Larger
<1> HIDE DEF start
<1>3. end \in Nat /\ start < end
  BY <1>1, <1>2 DEF Larger
<1> HIDE DEF end
<1>4. ClipWindow(first, last, margin) = [start |-> start, end |-> end]
  BY DEF ClipWindow, start, end
<1> QED BY <1>2, <1>3, <1>4

LEMMA WindowsOrdered == ASSUME NEW ws \in Windows PROVE Ordered(ws)
<1> USE Numbers
<1>1. PICK margin \in Margins :
        ws \in [1..Clips -> {ClipWindow(k[1], k[2], margin) :
                               k \in {pair \in Kills \X Kills : pair[1] <= pair[2]}}]
  BY DEF Windows
<1>2. /\ \A i \in 1..(Clips - 1) : ws[i].start <= ws[i + 1].start
      /\ \A i \in 1..Clips : ws[i].end + Flush + 3 <= LastTick
  BY DEF Windows
<1>3. ASSUME NEW i \in 1..Clips
      PROVE  ws[i].start \in Nat /\ ws[i].end \in Nat /\ ws[i].start < ws[i].end
  <2>1. PICK k \in Kills \X Kills : ws[i] = ClipWindow(k[1], k[2], margin)
    BY <1>1
  <2>2. k[1] \in Nat /\ k[2] \in Nat /\ margin \in Nat \X Nat
    BY PlaybackAssumption
  <2> QED BY <2>1, <2>2, WindowType
<1>4. DOMAIN ws = 1..Clips /\ Len(ws) = Clips
  BY <1>1
<1> DEFINE B == {n \in Nat : \A i, j \in 1..Clips : j = i + n => ws[i].start <= ws[j].start}
<1>5. 0 \in B
  BY <1>3
<1>6. ASSUME NEW n \in B PROVE n + 1 \in B
  <2> SUFFICES ASSUME NEW i \in 1..Clips, NEW j \in 1..Clips, j = i + (n + 1)
               PROVE  ws[i].start <= ws[j].start
    OBVIOUS
  <2>1. n \in Nat /\ j - 1 \in 1..Clips /\ j - 1 = i + n /\ j - 1 \in 1..(Clips - 1) /\ (j - 1) + 1 = j
    OBVIOUS
  <2>2. ws[i].start <= ws[j - 1].start
    BY <2>1
  <2>3. ws[j - 1].start <= ws[j].start
    BY <1>2, <2>1
  <2> HIDE DEF B
  <2> QED BY <1>3, <2>1, <2>2, <2>3
<1>7. B = Nat
  <2>1. B \in SUBSET Nat
    OBVIOUS
  <2> HIDE DEF B
  <2> QED BY <1>5, <1>6, <2>1, NatSetInduction
<1>8. \A i, j \in 1..Clips : i <= j => ws[i].start <= ws[j].start
  <2> SUFFICES ASSUME NEW i \in 1..Clips, NEW j \in 1..Clips, i <= j
               PROVE  ws[i].start <= ws[j].start
    OBVIOUS
  <2>1. j - i \in Nat /\ j = i + (j - i)
    OBVIOUS
  <2>2. j - i \in B
    <3> HIDE DEF B
    <3> QED BY <1>7, <2>1
  <2> QED BY <2>1, <2>2
<1> QED BY <1>2, <1>3, <1>4, <1>8 DEF Ordered

\* What fits after a window fits after what the window fits after.
LEMMA Chain ==
    ASSUME NEW ws, Ordered(ws), NEW i \in 1..Clips, NEW j \in 1..Clips, NEW k \in 1..Clips,
           Compatible(ws[i], ws[j]), Compatible(ws[j], ws[k])
    PROVE  Compatible(ws[i], ws[k])
<1>1. /\ ws[i].start \in Nat /\ ws[j].start \in Nat /\ ws[j].end \in Nat /\ ws[k].end \in Nat
      /\ ws[j].start < ws[j].end
  BY DEF Ordered
<1>2. ws[i].start > ws[j].end + Flush + Gap /\ ws[j].start > ws[k].end + Flush + Gap
  BY DEF Compatible, FinalizeTick
<1>3. Flush \in Nat /\ Gap \in Nat
  BY Numbers
<1>4. ws[i].start > ws[k].end + Flush + Gap
  BY <1>1, <1>2, <1>3
<1> QED BY <1>4 DEF Compatible, FinalizeTick

\* What fits after a window goes for the later windows, too.
LEMMA Later ==
    ASSUME NEW ws, Ordered(ws), NEW i \in 1..Clips, NEW j \in 1..Clips, NEW k \in 1..Clips,
           i <= j, Compatible(ws[i], ws[k])
    PROVE  Compatible(ws[j], ws[k])
<1>1. ws[i].start \in Nat /\ ws[j].start \in Nat /\ ws[k].end \in Nat
  BY DEF Ordered
<1>2. ws[i].start <= ws[j].start
  BY DEF Ordered
<1>3. ws[i].start > ws[k].end + Flush + Gap
  BY DEF Compatible, FinalizeTick
<1>4. Flush \in Nat /\ Gap \in Nat
  BY Numbers
<1>5. ws[j].start > ws[k].end + Flush + Gap
  BY <1>1, <1>2, <1>3, <1>4
<1> QED BY <1>5 DEF Compatible, FinalizeTick

------------------------------------------------------------------------------
(* The passes *)

Final(clips) == clips[Len(clips)]

\* The windows that are wanted at the moment at which window m begins.
Clashing(ws, m) == {j \in 1..m : ~(j < m /\ Compatible(ws[m], ws[j]))}

\* Sequences of the first i windows, each fit for vdm_text.
Playable(passes, ws, i) ==
    /\ passes \in Seq(Seq(Nat))
    /\ \A p \in DOMAIN passes :
          Len(passes[p]) > 0 /\ \A n \in DOMAIN passes[p] : passes[p][n] \in 1..i
    /\ \A p \in DOMAIN passes : \A n, m \in DOMAIN passes[p] :
          n < m => Compatible(ws[passes[p][m]], ws[passes[p][n]])

\* A window is the last of its pass, or out of the way of all that follow.
Settled(passes, ws, i) ==
    /\ \A p, q \in DOMAIN passes : Final(passes[p]) = Final(passes[q]) => p = q
    /\ \A j \in 1..i : \/ \E p \in DOMAIN passes : Final(passes[p]) = j
                       \/ \E k \in 1..i : Compatible(ws[k], ws[j])

\* Some windows are wanted at one moment, as many as there are passes.
Needed(passes, ws, i) ==
    i > 0 => \E m \in 1..i : Len(passes) = Cardinality(Clashing(ws, m))

Good(passes, ws, i) == Playable(passes, ws, i) /\ Settled(passes, ws, i) /\ Needed(passes, ws, i)

LEMMA SequenceFacts ==
    ASSUME NEW S, NEW s \in Seq(S)
    PROVE  Len(s) \in Nat /\ DOMAIN s = 1..Len(s) /\ \A i \in DOMAIN s : s[i] \in S
  BY LenProperties

\* The passes and their windows by number.
LEMMA PassFacts ==
    ASSUME NEW ws, NEW passes, NEW k \in Nat, Playable(passes, ws, k)
    PROVE  /\ Len(passes) \in Nat /\ DOMAIN passes = 1..Len(passes)
           /\ passes \in [1..Len(passes) -> Seq(Nat)]
           /\ \A p \in 1..Len(passes) :
                 /\ passes[p] \in Seq(Nat) /\ Len(passes[p]) \in Nat /\ Len(passes[p]) > 0
                 /\ DOMAIN passes[p] = 1..Len(passes[p])
                 /\ \A n \in 1..Len(passes[p]) : passes[p][n] \in 1..k
                 /\ Final(passes[p]) = passes[p][Len(passes[p])] /\ Final(passes[p]) \in 1..k
                 /\ \A n, m \in 1..Len(passes[p]) :
                       n < m => Compatible(ws[passes[p][m]], ws[passes[p][n]])
<1>1. /\ Len(passes) \in Nat /\ DOMAIN passes = 1..Len(passes)
      /\ passes \in [1..Len(passes) -> Seq(Nat)]
  BY SequenceFacts DEF Playable
<1>2. ASSUME NEW p \in 1..Len(passes)
      PROVE  /\ passes[p] \in Seq(Nat) /\ Len(passes[p]) \in Nat /\ Len(passes[p]) > 0
             /\ DOMAIN passes[p] = 1..Len(passes[p])
  <2>1. passes[p] \in Seq(Nat)
    BY <1>1
  <2> QED BY <1>1, <2>1, SequenceFacts DEF Playable
<1>3. ASSUME NEW p \in 1..Len(passes), NEW n \in 1..Len(passes[p]) PROVE passes[p][n] \in 1..k
  BY <1>1, <1>2 DEF Playable
<1>4. ASSUME NEW p \in 1..Len(passes), NEW n \in 1..Len(passes[p]), NEW m \in 1..Len(passes[p]), n < m
      PROVE  Compatible(ws[passes[p][m]], ws[passes[p][n]])
  BY <1>1, <1>2, <1>4 DEF Playable
<1> QED BY <1>1, <1>2, <1>3, <1>4 DEF Final

\* A pass of its own: the window clashes with the last windows of all passes.
LEMMA NewPass ==
    ASSUME NEW ws, Ordered(ws), NEW passes, NEW k \in Nat, k + 1 <= Clips, Good(passes, ws, k),
           Fitting(ws, passes, k + 1) = {}
    PROVE  Good(Append(passes, <<k + 1>>), ws, k + 1)
<1> USE Numbers
<1> DEFINE L     == Len(passes)
           new   == Append(passes, <<k + 1>>)
           lasts == {Final(passes[p]) : p \in 1..L}
<1>1. /\ L \in Nat /\ DOMAIN passes = 1..L /\ passes \in [1..L -> Seq(Nat)]
      /\ \A p \in 1..L :
            /\ passes[p] \in Seq(Nat) /\ Len(passes[p]) \in Nat /\ Len(passes[p]) > 0
            /\ DOMAIN passes[p] = 1..Len(passes[p])
            /\ \A n \in 1..Len(passes[p]) : passes[p][n] \in 1..k
            /\ Final(passes[p]) = passes[p][Len(passes[p])] /\ Final(passes[p]) \in 1..k
            /\ \A n, m \in 1..Len(passes[p]) :
                  n < m => Compatible(ws[passes[p][m]], ws[passes[p][n]])
  BY PassFacts DEF Good
<1>2. <<k + 1>> \in Seq(Nat) /\ Len(<<k + 1>>) = 1 /\ DOMAIN <<k + 1>> = 1..1 /\ <<k + 1>>[1] = k + 1
  OBVIOUS
<1>3. /\ new \in Seq(Seq(Nat)) /\ Len(new) = L + 1 /\ DOMAIN new = 1..(L + 1)
      /\ \A p \in 1..L : new[p] = passes[p]
      /\ new[L + 1] = <<k + 1>>
  BY <1>1, <1>2, AppendProperties, SequenceFacts DEF Good, Playable
<1> HIDE DEF new, L
<1>4. \A p \in 1..(L + 1) : p \in 1..L \/ p = L + 1
  BY <1>1
<1>5. Playable(new, ws, k + 1)
  <2>1. ASSUME NEW p \in 1..(L + 1)
        PROVE  Len(new[p]) > 0 /\ \A n \in DOMAIN new[p] : new[p][n] \in 1..(k + 1)
    <3>1. CASE p \in 1..L
      <4>1. new[p] = passes[p] /\ Len(passes[p]) > 0 /\ DOMAIN passes[p] = 1..Len(passes[p])
        BY <1>1, <1>3, <3>1
      <4>2. \A n \in DOMAIN passes[p] : passes[p][n] \in 1..k
        BY <1>1, <3>1
      <4> QED BY <4>1, <4>2
    <3>2. CASE p = L + 1
      <4>1. \A n \in 1..1 : <<k + 1>>[n] \in 1..(k + 1)
        OBVIOUS
      <4>2. new[p] = <<k + 1>>
        BY <1>3, <3>2
      <4> QED BY <1>2, <4>1, <4>2
    <3> QED BY <1>4, <3>1, <3>2
  <2>2. ASSUME NEW p \in 1..(L + 1), NEW n \in DOMAIN new[p], NEW m \in DOMAIN new[p], n < m
        PROVE  Compatible(ws[new[p][m]], ws[new[p][n]])
    <3>1. CASE p \in 1..L
      BY <1>1, <1>3, <2>2, <3>1
    <3>2. CASE p = L + 1
      BY <1>2, <1>3, <2>2, <3>2
    <3> QED BY <1>4, <3>1, <3>2
  <2> QED BY <1>3, <2>1, <2>2 DEF Playable
<1>6. /\ \A p \in 1..L : Final(new[p]) = Final(passes[p]) /\ Final(passes[p]) \in 1..k
      /\ Final(new[L + 1]) = k + 1
  <2>1. \A p \in 1..L : Final(passes[p]) \in 1..k
    BY <1>1
  <2> QED BY <1>2, <1>3, <2>1 DEF Final
<1>7. Settled(new, ws, k + 1)
  <2>1. ASSUME NEW p \in 1..(L + 1), NEW q \in 1..(L + 1), Final(new[p]) = Final(new[q])
        PROVE  p = q
    <3>1. CASE p \in 1..L /\ q \in 1..L
      BY <1>1, <1>6, <2>1, <3>1 DEF Good, Settled
    <3>2. CASE ~(p \in 1..L /\ q \in 1..L)
      BY <1>4, <1>6, <2>1, <3>2
    <3> QED BY <3>1, <3>2
  <2>2. ASSUME NEW j \in 1..(k + 1)
        PROVE  \/ \E p \in 1..(L + 1) : Final(new[p]) = j
               \/ \E i \in 1..(k + 1) : Compatible(ws[i], ws[j])
    <3>1. CASE j = k + 1
      BY <1>1, <1>6, <3>1
    <3>2. CASE j \in 1..k
      <4>1. \/ \E p \in 1..L : Final(passes[p]) = j
            \/ \E i \in 1..k : Compatible(ws[i], ws[j])
        BY <1>1, <3>2 DEF Good, Settled
      <4> QED BY <1>1, <1>6, <4>1
    <3> QED BY <3>1, <3>2
  <2> QED BY <1>3, <2>1, <2>2 DEF Settled
<1>8. \A p \in 1..L : ~Compatible(ws[k + 1], ws[Final(passes[p])])
  BY <1>1 DEF Fitting, Final
<1>9. Clashing(ws, k + 1) = lasts \cup {k + 1}
  <2>1. ASSUME NEW j \in Clashing(ws, k + 1), j # k + 1 PROVE j \in lasts
    <3>1. j \in 1..k /\ ~Compatible(ws[k + 1], ws[j])
      BY <2>1 DEF Clashing
    <3>2. ~ \E i \in 1..k : Compatible(ws[i], ws[j])
      BY <3>1, Later
    <3> QED BY <1>1, <3>1, <3>2 DEF Good, Settled
  <2>2. lasts \subseteq Clashing(ws, k + 1)
    BY <1>6, <1>8 DEF Clashing
  <2>3. k + 1 \in Clashing(ws, k + 1)
    BY DEF Clashing
  <2> QED BY <2>1, <2>2, <2>3
<1>10. IsFiniteSet(lasts) /\ Cardinality(lasts) = L
  <2> DEFINE f == [p \in 1..L |-> Final(passes[p])]
  <2>1. f \in Surjection(1..L, lasts)
    BY DEF Surjection
  <2>2. f \in Injection(1..L, lasts)
    BY <1>1 DEF Injection, IsInjective, Good, Settled
  <2>3. IsFiniteSet(1..L) /\ Cardinality(1..L) = L
    <3>1. L \in Nat /\ L \in Int
      BY <1>1
    <3>2. IsFiniteSet(1..L) /\ Cardinality(1..L) = IF 1 > L THEN 0 ELSE L - 1 + 1
      BY <3>1, FS_Interval
    <3> QED BY <3>1, <3>2
  <2> HIDE DEF f, lasts
  <2> QED BY <2>1, <2>2, <2>3, FS_Surjection
<1>11. Cardinality(Clashing(ws, k + 1)) = L + 1
  <2>1. k + 1 \notin lasts
    BY <1>6
  <2> HIDE DEF lasts
  <2> QED BY <1>9, <1>10, <2>1, FS_AddElement
<1>12. Needed(new, ws, k + 1)
  BY <1>3, <1>11 DEF Needed
<1> QED BY <1>5, <1>7, <1>12 DEF Good, new

\* The window goes behind the last window of a pass.
LEMMA SamePass ==
    ASSUME NEW ws, Ordered(ws), NEW passes, NEW k \in Nat, k + 1 <= Clips, Good(passes, ws, k),
           NEW f \in Fitting(ws, passes, k + 1)
    PROVE  Good([passes EXCEPT ![f] = Append(@, k + 1)], ws, k + 1)
<1> USE Numbers
<1> DEFINE L   == Len(passes)
           N   == Len(passes[f])
           new == [passes EXCEPT ![f] = Append(@, k + 1)]
<1>1. /\ L \in Nat /\ DOMAIN passes = 1..L /\ passes \in [1..L -> Seq(Nat)]
      /\ \A p \in 1..L :
            /\ passes[p] \in Seq(Nat) /\ Len(passes[p]) \in Nat /\ Len(passes[p]) > 0
            /\ DOMAIN passes[p] = 1..Len(passes[p])
            /\ \A n \in 1..Len(passes[p]) : passes[p][n] \in 1..k
            /\ Final(passes[p]) = passes[p][Len(passes[p])] /\ Final(passes[p]) \in 1..k
            /\ \A n, m \in 1..Len(passes[p]) :
                  n < m => Compatible(ws[passes[p][m]], ws[passes[p][n]])
  BY PassFacts DEF Good
<1>2. f \in 1..L /\ Compatible(ws[k + 1], ws[passes[f][N]])
  BY <1>1 DEF Fitting
<1>3. /\ Append(passes[f], k + 1) \in Seq(Nat) /\ Len(Append(passes[f], k + 1)) = N + 1
      /\ DOMAIN Append(passes[f], k + 1) = 1..(N + 1)
      /\ \A n \in 1..N : Append(passes[f], k + 1)[n] = passes[f][n]
      /\ Append(passes[f], k + 1)[N + 1] = k + 1
  BY <1>1, <1>2, AppendProperties, SequenceFacts
<1>4. new \in Seq(Seq(Nat)) /\ Len(new) = L /\ DOMAIN new = 1..L
  <2>1. passes \in [1..L -> Seq(Nat)]
    BY <1>1
  <2>2. new \in [1..L -> Seq(Nat)]
    BY <1>3, <2>1
  <2>3. L \in Nat
    BY <1>1
  <2> HIDE DEF new, L
  <2>4. new \in Seq(Seq(Nat)) /\ DOMAIN new = 1..L
    BY <2>2, <2>3
  <2>5. Len(new) = L
    BY <2>3, <2>4, LenProperties
  <2> QED BY <2>4, <2>5
<1>5. /\ new[f] = Append(passes[f], k + 1)
      /\ \A p \in 1..L : p # f => new[p] = passes[p]
  BY <1>1, <1>2
<1> HIDE DEF new, L
<1>6. Len(new[f]) = N + 1 /\ DOMAIN new[f] = 1..(N + 1) /\ new[f][N + 1] = k + 1
      /\ \A n \in 1..N : new[f][n] = passes[f][n]
  BY <1>3, <1>5
<1>7. /\ N \in Nat /\ N > 0 /\ DOMAIN passes[f] = 1..N
      /\ \A n \in 1..N : passes[f][n] \in 1..k
      /\ \A n, m \in 1..N : n < m => Compatible(ws[passes[f][m]], ws[passes[f][n]])
  BY <1>1, <1>2
<1> HIDE DEF N
<1>8. Playable(new, ws, k + 1)
  <2>1. ASSUME NEW p \in 1..L
        PROVE  Len(new[p]) > 0 /\ \A n \in DOMAIN new[p] : new[p][n] \in 1..(k + 1)
    <3>1. CASE p # f
      <4>1. new[p] = passes[p] /\ Len(passes[p]) > 0 /\ DOMAIN passes[p] = 1..Len(passes[p])
        BY <1>1, <1>5, <3>1
      <4>2. \A n \in DOMAIN passes[p] : passes[p][n] \in 1..k
        BY <1>1
      <4> QED BY <4>1, <4>2
    <3>2. CASE p = f
      BY <1>6, <1>7, <3>2
    <3> QED BY <3>1, <3>2
  <2>2. ASSUME NEW p \in 1..L, NEW n \in DOMAIN new[p], NEW m \in DOMAIN new[p], n < m
        PROVE  Compatible(ws[new[p][m]], ws[new[p][n]])
    <3>1. CASE p # f
      BY <1>1, <1>5, <2>2, <3>1
    <3>2. CASE p = f /\ m \in 1..N
      <4>1. n \in 1..N /\ new[p][n] = passes[f][n] /\ new[p][m] = passes[f][m]
        BY <1>6, <1>7, <2>2, <3>2
      <4> QED BY <1>7, <2>2, <3>2, <4>1
    <3>3. CASE p = f /\ m = N + 1
      <4>1. n \in 1..N /\ new[p][n] = passes[f][n] /\ new[p][m] = k + 1
        BY <1>6, <1>7, <2>2, <3>3
      <4>2. CASE n = N
        BY <1>2, <4>1, <4>2 DEF N
      <4>3. CASE n # N
        <5>1. Compatible(ws[passes[f][N]], ws[passes[f][n]])
          <6>1. N \in 1..N /\ n < N
            BY <1>7, <4>1, <4>3
          <6> QED BY <1>7, <4>1, <6>1
        <5>2. passes[f][N] \in 1..Clips /\ passes[f][n] \in 1..Clips /\ k + 1 \in 1..Clips
          BY <1>7, <4>1
        <5>3. Compatible(ws[k + 1], ws[passes[f][N]])
          BY <1>2 DEF N
        <5> QED BY <4>1, <5>1, <5>2, <5>3, Chain
      <4> QED BY <4>2, <4>3
    <3> QED BY <1>6, <1>7, <3>1, <3>2, <3>3
  <2> QED BY <1>4, <2>1, <2>2 DEF Playable
<1>9. /\ \A p \in 1..L : p # f => Final(new[p]) = Final(passes[p]) /\ Final(passes[p]) \in 1..k
      /\ Final(new[f]) = k + 1
  <2>1. \A p \in 1..L : Final(passes[p]) \in 1..k
    BY <1>1
  <2> QED BY <1>5, <1>6, <2>1 DEF Final
<1>10. Settled(new, ws, k + 1)
  <2>1. ASSUME NEW p \in 1..L, NEW q \in 1..L, Final(new[p]) = Final(new[q])
        PROVE  p = q
    <3>1. CASE p # f /\ q # f
      BY <1>1, <1>9, <2>1, <3>1 DEF Good, Settled
    <3>2. CASE ~(p # f /\ q # f)
      BY <1>9, <2>1, <3>2
    <3> QED BY <3>1, <3>2
  <2>2. ASSUME NEW j \in 1..(k + 1)
        PROVE  \/ \E p \in 1..L : Final(new[p]) = j
               \/ \E i \in 1..(k + 1) : Compatible(ws[i], ws[j])
    <3>1. CASE j = k + 1
      BY <1>2, <1>9, <3>1
    <3>2. CASE j \in 1..k
      <4>1. \/ \E p \in 1..L : Final(passes[p]) = j
            \/ \E i \in 1..k : Compatible(ws[i], ws[j])
        BY <1>1, <3>2 DEF Good, Settled
      <4>2. Final(passes[f]) = j => Compatible(ws[k + 1], ws[j])
        BY <1>2 DEF Final, N
      <4> QED BY <1>9, <4>1, <4>2
    <3> QED BY <3>1, <3>2
  <2> QED BY <1>4, <2>1, <2>2 DEF Settled
<1>11. Needed(new, ws, k + 1)
  <2>1. L > 0 /\ k > 0
    BY <1>1, <1>2, <1>7
  <2>2. PICK m \in 1..k : L = Cardinality(Clashing(ws, m))
    BY <2>1 DEF Good, Needed, L
  <2> QED BY <1>4, <2>2 DEF Needed
<1> QED BY <1>8, <1>10, <1>11 DEF Good, new

LEMMA PlacedGood ==
    ASSUME NEW ws, Ordered(ws), NEW passes, NEW k \in Nat, k + 1 <= Clips, Good(passes, ws, k)
    PROVE  Good(Placed(ws, passes, k + 1), ws, k + 1)
<1> DEFINE fits == Fitting(ws, passes, k + 1)
<1>1. CASE fits = {}
  BY <1>1, NewPass DEF Placed
<1>2. CASE fits # {}
  <2>1. fits \subseteq Nat
    <3>1. DOMAIN passes \subseteq Nat
      BY PassFacts DEF Good
    <3> QED BY <3>1 DEF Fitting
  <2> DEFINE first == CHOOSE p \in fits : \A q \in fits : p <= q
  <2>2. first \in fits
    <3>1. Min(fits) \in fits /\ \A y \in fits : Min(fits) <= y
      BY <1>2, <2>1, MinIn
    <3> HIDE DEF fits
    <3> QED BY <3>1
  <2>3. Placed(ws, passes, k + 1) = [passes EXCEPT ![first] = Append(@, k + 1)]
    BY <1>2 DEF Placed
  <2> HIDE DEF first
  <2>4. first \in Fitting(ws, passes, k + 1)
    BY <2>2
  <2> HIDE DEF fits
  <2>5. Good([passes EXCEPT ![first] = Append(@, k + 1)], ws, k + 1)
    BY <2>4, SamePass
  <2> QED BY <2>3, <2>5
<1> QED BY <1>1, <1>2

LEMMA PartitionGood == ASSUME NEW ws, Ordered(ws) PROVE Good(Partition(ws), ws, Clips)
<1> USE Numbers
<1>1. Len(ws) = Clips
  BY DEF Ordered
<1>2. PICK g : Places(g, ws, Clips) /\ Partition(ws) = g[Clips]
  BY <1>1, PartitionIs
<1> DEFINE B == {i \in Nat : i <= Clips => Good(g[i], ws, i)}
<1>3. 0 \in B
  <2>1. g[0] = <<>>
    BY <1>2 DEF Places
  <2>2. <<>> \in Seq(Seq(Nat)) /\ DOMAIN <<>> = {}
    OBVIOUS
  <2>3. Playable(<<>>, ws, 0)
    BY <2>2 DEF Playable
  <2>4. Settled(<<>>, ws, 0) /\ Needed(<<>>, ws, 0)
    BY <2>2 DEF Settled, Needed
  <2> QED BY <2>1, <2>3, <2>4 DEF Good
<1>4. ASSUME NEW i \in B PROVE i + 1 \in B
  <2> SUFFICES ASSUME i + 1 <= Clips PROVE Good(g[i + 1], ws, i + 1)
    OBVIOUS
  <2>1. i \in Nat /\ Good(g[i], ws, i)
    OBVIOUS
  <2>2. g[i + 1] = Placed(ws, g[i], i + 1)
    BY <1>2, <2>1 DEF Places
  <2> HIDE DEF B
  <2> QED BY <2>1, <2>2, PlacedGood
<1>5. B = Nat
  <2>1. B \in SUBSET Nat
    OBVIOUS
  <2> HIDE DEF B
  <2> QED BY <1>3, <1>4, <2>1, NatSetInduction
<1> QED BY <1>2, <1>5


------------------------------------------------------------------------------
(* The hops of a safe seek *)

LEMMA Products == ASSUME NEW i \in Int, NEW j \in Int, i <= j, NEW s \in Nat PROVE i * s <= j * s
<1>1. (j - i) \in Nat /\ j = i + (j - i)
  OBVIOUS
<1>2. (j - i) * s >= 0
  BY <1>1
<1>3. j * s = i * s + (j - i) * s
  OBVIOUS
<1> QED BY <1>2, <1>3

\* n seeks of one step each do not reach the target before the last one.
LEMMA SeekFacts ==
    ASSUME NEW to \in Nat
    PROVE  /\ (to + Step - 1) \div Step \in Nat
           /\ DOMAIN SeekTargets(to) = 1..((to + Step - 1) \div Step)
           /\ \A n \in DOMAIN SeekTargets(to) :
                 /\ n \in Nat /\ n > 0 /\ (n - 1) * Step < to
                 /\ SeekTargets(to)[n] \in Nat /\ SeekTargets(to)[n] <= to
                 /\ SeekTargets(to)[n] <= (n - 1) * Step + Step
           /\ \A n \in Nat : /\ n \in DOMAIN SeekTargets(to) /\ n + 1 \in DOMAIN SeekTargets(to)
                             => SeekTargets(to)[n] = n * Step
<1> DEFINE a == to + Step - 1
           N == a \div Step
<1>1. Step \in Nat /\ Step > 0
  BY Numbers
<1>2. a \in Nat
  BY <1>1
<1> HIDE DEF a
<1>3. N \in Nat /\ N * Step <= a
  BY <1>1, <1>2
<1>4. SeekTargets(to) = [n \in 1..N |-> IF n * Step < to THEN n * Step ELSE to]
  BY DEF SeekTargets, a
<1> HIDE DEF N
<1>5. ASSUME NEW n \in 1..N PROVE (n - 1) * Step < to /\ n * Step = (n - 1) * Step + Step
  <2>1. n * Step <= N * Step
    BY <1>1, <1>3, Products
  <2>2. n * Step = (n - 1) * Step + Step
    BY <1>1
  <2>3. n * Step \in Int /\ N * Step \in Int /\ (n - 1) * Step \in Int
    BY <1>1, <1>3
  <2> HIDE DEF N
  <2> QED BY <1>1, <1>2, <1>3, <2>1, <2>2, <2>3 DEF a
<1>6. ASSUME NEW n \in 1..N
      PROVE  /\ n \in Nat /\ n > 0 /\ n * Step \in Nat
             /\ SeekTargets(to)[n] = IF n * Step < to THEN n * Step ELSE to
  BY <1>1, <1>3, <1>4
<1>7. DOMAIN SeekTargets(to) = 1..N
  BY <1>4
<1>8. ASSUME NEW n \in 1..N
      PROVE  /\ SeekTargets(to)[n] \in Nat /\ SeekTargets(to)[n] <= to
             /\ SeekTargets(to)[n] <= (n - 1) * Step + Step
  BY <1>5, <1>6
<1>9. ASSUME NEW n \in Nat, n \in 1..N, n + 1 \in 1..N PROVE SeekTargets(to)[n] = n * Step
  <2>1. (n + 1 - 1) * Step < to
    BY <1>5, <1>9
  <2>2. n + 1 - 1 = n
    OBVIOUS
  <2> QED BY <1>6, <1>9, <2>1, <2>2
<1> QED BY <1>3, <1>5, <1>6, <1>7, <1>8, <1>9 DEF N, a

LEMMA SeekAtFacts ==
    ASSUME target \in Nat
    PROVE  /\ \A n \in DOMAIN SeekTargets(target) :
                 /\ n \in Nat /\ n > 0 /\ SeekAt(n) \in Nat /\ SeekAt(n) > 0 /\ SeekAt(n) <= target
                 /\ SeekTargets(target)[n] \in Nat /\ SeekTargets(target)[n] <= target
                 /\ SeekTargets(target)[n] - SeekAt(n) <= Step
           /\ \A n, m \in DOMAIN SeekTargets(target) :
                 n < m => SeekAt(n) < SeekAt(m) /\ SeekTargets(target)[n] < SeekAt(m)
<1> DEFINE D == DOMAIN SeekTargets(target)
           goal == SeekTargets(target)
<1>1. Step \in Nat /\ Step > 0
  BY Numbers
<1>2. \A n \in D : /\ n \in Nat /\ n > 0 /\ (n - 1) * Step < target
                   /\ goal[n] \in Nat /\ goal[n] <= target /\ goal[n] <= (n - 1) * Step + Step
  BY SeekFacts
<1>3. \A n \in Nat : n \in D /\ n + 1 \in D => goal[n] = n * Step
  BY SeekFacts
<1>4. \A n \in D : n > 1 => n - 1 \in D
  <2>1. PICK N \in Nat : D = 1..N
    BY SeekFacts
  <2> HIDE DEF D
  <2> QED BY <2>1
<1> HIDE DEF D, goal
<1>5. ASSUME NEW n \in D PROVE SeekAt(n) = (n - 1) * Step + 1
  <2>1. CASE n = 1
    BY <1>1, <2>1 DEF SeekAt
  <2>2. CASE n # 1
    <3>1. n - 1 \in Nat /\ n - 1 \in D /\ (n - 1) + 1 \in D
      BY <1>2, <1>4, <2>2
    <3>2. goal[n - 1] = (n - 1) * Step
      BY <1>3, <3>1
    <3> QED BY <2>2, <3>2 DEF SeekAt, goal
  <2> QED BY <2>1, <2>2
<1>6. ASSUME NEW n \in D
      PROVE  /\ n \in Nat /\ n > 0 /\ SeekAt(n) \in Nat /\ SeekAt(n) > 0 /\ SeekAt(n) <= target
             /\ goal[n] \in Nat /\ goal[n] <= target /\ goal[n] - SeekAt(n) <= Step
  <2>1. n \in Nat /\ n > 0 /\ (n - 1) * Step \in Nat
    BY <1>1, <1>2
  <2> DEFINE x == (n - 1) * Step
  <2>2. x \in Nat /\ x < target /\ SeekAt(n) = x + 1
    BY <1>2, <1>5, <2>1
  <2>3. goal[n] \in Nat /\ goal[n] <= target /\ goal[n] <= x + Step
    BY <1>2
  <2> HIDE DEF x
  <2> QED BY <1>1, <2>1, <2>2, <2>3
<1>7. ASSUME NEW n \in D, NEW m \in D, n < m
      PROVE  SeekAt(n) < SeekAt(m) /\ goal[n] < SeekAt(m)
  <2> DEFINE x == (n - 1) * Step
             y == (m - 1) * Step
  <2>1. n \in Nat /\ m \in Nat
    BY <1>2
  <2>2. n * Step <= (m - 1) * Step
    <3>1. n \in Int /\ m - 1 \in Int /\ n <= m - 1
      BY <1>7, <2>1
    <3> QED BY <1>1, <3>1, Products
  <2>3. n * Step = (n - 1) * Step + Step
    BY <1>1, <2>1
  <2>4. x \in Int /\ y \in Int /\ SeekAt(n) = x + 1 /\ SeekAt(m) = y + 1
    BY <1>1, <1>5, <2>1
  <2>5. goal[n] \in Nat /\ goal[n] <= x + Step
    BY <1>2
  <2>6. x + Step <= y
    BY <2>2, <2>3
  <2> HIDE DEF x, y
  <2> QED BY <1>1, <2>4, <2>5, <2>6
<1> QED BY <1>6, <1>7 DEF D, goal


------------------------------------------------------------------------------
(* What is the same in all states *)

\* The script, its windows, lead-in and kills stay what they are.
Fixed ==
    \/ /\ script = "batch" /\ windows \in Windows /\ target = 0 /\ kills = {}
    \/ /\ script = "manual" /\ windows = <<>> /\ target \in Targets
       /\ kills \in SUBSET Kills /\ kills # {} /\ \A k \in kills : target <= k

LEMMA SceneryStays ==
    ASSUME [Next]_vars
    PROVE  UNCHANGED <<script, windows, target, kills>>
<1> USE DEF batch
<1>1. CASE Next
  <2>1. CASE Play
    BY <2>1 DEF Play
  <2>2. ASSUME NEW action \in todo,
               \/ SkipAhead(action) \/ Mark(action) \/ PlayNextPass(action) \/ Quit(action)
               \/ SeekAlias(action) \/ ReadyAlias(action) \/ RestoreAlias(action)
        PROVE  UNCHANGED <<script, windows, target, kills>>
    BY <2>2 DEF SkipAhead, Mark, PlayNextPass, Quit, SeekAlias, ReadyAlias, RestoreAlias, BatchFrame
  <2>3. CASE User
    BY <2>3 DEF User, TogglePause, NextKill, Seek, SafeRestart, Key
  <2> QED BY <1>1, <2>1, <2>2, <2>3 DEF Next, Player
<1>2. CASE UNCHANGED vars
  BY <1>2 DEF vars
<1> QED BY <1>1, <1>2

LEMMA FixedStep == Fixed /\ [Next]_vars => Fixed'
  BY SceneryStays DEF Fixed

LEMMA FixedHolds == Spec => []Fixed
<1>1. Init => Fixed
  BY DEF Init, Fixed
<1> QED BY <1>1, FixedStep, PTL DEF Spec

LEMMA FixedTypes ==
    ASSUME Fixed
    PROVE  /\ script \in {"batch", "manual"}
           /\ target \in Nat /\ (script = "manual" => target < LastTick)
           /\ \A k \in kills : k \in Nat /\ target <= k /\ k <= LastTick
<1>1. CASE script = "batch"
  BY <1>1 DEF Fixed
<1>2. CASE script = "manual" /\ target \in Targets /\ kills \in SUBSET Kills /\ \A k \in kills : target <= k
  <2>1. Targets \subseteq Nat /\ \A t \in Targets : t < LastTick
    BY PlaybackAssumption
  <2>2. Kills \subseteq Nat /\ \A k \in Kills : k <= LastTick
    BY PlaybackAssumption
  <2> QED BY <1>2, <2>1, <2>2
<1> QED BY <1>1, <1>2 DEF Fixed

LEMMA BatchPasses ==
    ASSUME Fixed, script = "batch"
    PROVE  Ordered(windows) /\ Good(Passes, windows, Clips)
<1>1. windows \in Windows
  BY DEF Fixed
<1> QED BY <1>1, WindowsOrdered, PartitionGood DEF Passes

------------------------------------------------------------------------------
(* The passes of a batch *)

\* Each window of a pass comes after the one before, with room for an action.
LEMMA FixedNeverRefused == ASSUME Fixed PROVE NeverRefused
<1> SUFFICES ASSUME script = "batch", NEW p \in DOMAIN Passes PROVE ~Refused(Passes[p])
  BY DEF NeverRefused
<1>1. Playable(Passes, windows, Clips)
  BY BatchPasses DEF Good
<1>2. Len(Passes[p]) \in Nat /\ DOMAIN Passes[p] = 1..Len(Passes[p])
  BY <1>1, PassFacts, Numbers
<1>3. ASSUME NEW n \in 2..Len(Passes[p])
      PROVE  Compatible(windows[Passes[p][n]], windows[Passes[p][n - 1]])
  <2>1. n \in DOMAIN Passes[p] /\ n - 1 \in DOMAIN Passes[p] /\ n - 1 < n
    BY <1>2
  <2> QED BY <1>1, <2>1 DEF Playable
<1> QED BY <1>3 DEF Refused

\* Every script of a batch is one that vdm_text writes: it never meets the overlap
\* that it refuses (recording.rs 3574).
THEOREM BatchNeverRefused == Spec => []NeverRefused
<1>1. Fixed => NeverRefused
  BY FixedNeverRefused
<1> QED BY <1>1, FixedHolds, PTL

LEMMA FixedFewestPasses == ASSUME Fixed PROVE FewestPasses
<1> SUFFICES ASSUME script = "batch"
             PROVE  \E i \in 1..Clips : Len(Passes) = Cardinality(Clashing(windows, i))
  BY DEF FewestPasses, Clashing
<1>1. Needed(Passes, windows, Clips)
  BY BatchPasses DEF Good
<1> QED BY <1>1, Numbers DEF Needed

\* TF2 plays a demo as often as it has to: as many times as there are windows wanted
\* at one moment (partition_recording_windows, recording.rs 3239-3241).
THEOREM PassesAreFewest == Spec => []FewestPasses
<1>1. Fixed => FewestPasses
  BY FixedFewestPasses
<1> QED BY <1>1, FixedHolds, PTL

LEMMA SomePass == ASSUME Fixed, script = "batch" PROVE Len(Passes) \in Nat /\ Len(Passes) > 0
<1>1. Good(Passes, windows, Clips)
  BY BatchPasses
<1>2. Len(Passes) \in Nat
  BY <1>1, PassFacts, Numbers DEF Good
<1>3. PICK m \in 1..Clips : Len(Passes) = Cardinality(Clashing(windows, m))
  BY <1>1, Numbers DEF Good, Needed
<1>4. IsFiniteSet(Clashing(windows, m))
  <2>1. Clashing(windows, m) \subseteq 1..m /\ 1 \in Int /\ m \in Int
    BY Numbers DEF Clashing
  <2>2. IsFiniteSet(1..m)
    BY <2>1, FS_Interval
  <2> QED BY <2>1, <2>2, FS_Subset
<1>5. m \in Clashing(windows, m)
  BY Numbers DEF Clashing
<1>6. Cardinality(Clashing(windows, m)) # 0
  BY <1>4, <1>5, FS_EmptySet
<1> QED BY <1>2, <1>3, <1>6


------------------------------------------------------------------------------
(* The script of a pass *)

Now == Passes[pass]
From(n) == IF n = 1 THEN 2 ELSE FinalizeTick(windows[Now[n - 1]]) + 2
W(n) == windows[Now[n]]
Fin(n) == FinalizeTick(windows[Now[n]])

\* The pass that plays exists.
InPass == script = "batch" /\ Fixed /\ pass \in 1..Len(Passes)

LEMMA NowFacts ==
    ASSUME InPass
    PROVE  /\ Len(Now) \in Nat /\ Len(Now) > 0 /\ DOMAIN Now = 1..Len(Now)
           /\ \A n \in 1..Len(Now) :
                 /\ Now[n] \in 1..Clips /\ W(n).start \in Nat /\ W(n).end \in Nat /\ Fin(n) \in Nat
                 /\ W(n).start < W(n).end /\ W(n).end <= Fin(n) /\ Fin(n) + 3 <= LastTick
                 /\ From(n) \in Nat /\ From(n) >= 2
           /\ \A n, m \in 1..Len(Now) :
                 n < m => /\ Fin(n) + 2 < W(m).start /\ Fin(n) < Fin(m)
                          /\ Fin(n) + 2 <= From(m) /\ From(n) < From(m)
<1> USE Numbers
<1>1. Ordered(windows) /\ Playable(Passes, windows, Clips) /\ pass \in 1..Len(Passes)
  BY BatchPasses DEF InPass, Good
<1>2. /\ Len(Now) \in Nat /\ Len(Now) > 0 /\ DOMAIN Now = 1..Len(Now)
      /\ \A n \in 1..Len(Now) : Now[n] \in 1..Clips
      /\ \A n, m \in 1..Len(Now) : n < m => Compatible(W(m), W(n))
  BY <1>1, PassFacts DEF Now, W
<1>3. ASSUME NEW n \in 1..Len(Now)
      PROVE  /\ Now[n] \in 1..Clips /\ W(n).start \in Nat /\ W(n).end \in Nat /\ Fin(n) \in Nat
             /\ Fin(n) = W(n).end + Flush
             /\ W(n).start < W(n).end /\ W(n).end <= Fin(n) /\ Fin(n) + 3 <= LastTick
  <2>1. Now[n] \in 1..Clips
    BY <1>2
  <2>2. /\ W(n).start \in Nat /\ W(n).end \in Nat /\ W(n).start < W(n).end
        /\ W(n).end + Flush + 3 <= LastTick
    BY <1>1, <2>1 DEF Ordered, W
  <2>3. Fin(n) = W(n).end + Flush
    BY DEF Fin, W, FinalizeTick
  <2> QED BY <2>1, <2>2, <2>3
<1>4. ASSUME NEW n \in 1..Len(Now), NEW m \in 1..Len(Now), n < m
      PROVE  Fin(n) + 2 < W(m).start /\ Fin(n) < Fin(m)
  <2>1. W(m).start > Fin(n) + Gap
    BY <1>2, <1>4 DEF Compatible, Fin, W
  <2>2. Fin(n) \in Nat
    BY <1>3
  <2>3. W(m).start \in Nat /\ W(m).end \in Nat /\ Fin(m) \in Nat /\ W(m).start < W(m).end /\ W(m).end <= Fin(m)
    BY <1>3
  <2>4. Gap \in Nat /\ Gap >= 2
    OBVIOUS
  <2> QED BY <2>1, <2>2, <2>3, <2>4
<1>5. ASSUME NEW n \in 1..Len(Now)
      PROVE  /\ n # 1 => n - 1 \in 1..Len(Now) /\ n - 1 < n
             /\ From(n) = IF n = 1 THEN 2 ELSE Fin(n - 1) + 2
  BY <1>2 DEF From, Fin
<1>6. ASSUME NEW n \in 1..Len(Now) PROVE From(n) \in Nat /\ From(n) >= 2
  <2>1. CASE n = 1
    BY <1>5, <2>1
  <2>2. CASE n # 1
    <3>1. n - 1 \in 1..Len(Now) /\ From(n) = Fin(n - 1) + 2
      BY <1>5, <2>2
    <3>2. Fin(n - 1) \in Nat
      BY <1>3, <3>1
    <3> QED BY <3>1, <3>2
  <2> QED BY <2>1, <2>2
<1>7. ASSUME NEW n \in 1..Len(Now), NEW m \in 1..Len(Now), n < m
      PROVE  Fin(n) + 2 <= From(m) /\ From(n) < From(m)
  <2>1. m # 1 /\ m - 1 \in 1..Len(Now) /\ From(m) = Fin(m - 1) + 2
    BY <1>2, <1>5, <1>7
  <2>2. Fin(n) <= Fin(m - 1)
    <3>1. CASE n = m - 1
      <4>1. Fin(n) \in Nat /\ Fin(n) = Fin(m - 1)
        BY <1>3, <3>1
      <4> QED BY ONLY <4>1
    <3>2. CASE n < m - 1
      <4>1. Fin(n) < Fin(m - 1)
        BY <1>4, <2>1, <3>2
      <4>2. Fin(n) \in Nat /\ Fin(m - 1) \in Nat
        BY <1>3, <2>1
      <4> QED BY <4>1, <4>2
    <3> QED BY <1>2, <1>7, <3>1, <3>2
  <2>3. From(n) < Fin(n) + 2
    <3>1. CASE n = 1
      <4>1. From(n) = 2
        BY <1>5, <3>1
      <4>2. W(n).start \in Nat /\ W(n).end \in Nat /\ Fin(n) \in Nat /\ W(n).start < W(n).end /\ W(n).end <= Fin(n)
        BY <1>3
      <4> QED BY <4>1, <4>2
    <3>2. CASE n # 1
      <4>1. n - 1 \in 1..Len(Now) /\ n - 1 < n /\ From(n) = Fin(n - 1) + 2
        BY <1>5, <3>2
      <4>2. Fin(n - 1) < Fin(n) /\ Fin(n - 1) \in Nat /\ Fin(n) \in Nat
        BY <1>3, <1>4, <4>1
      <4> QED BY <4>1, <4>2
    <3> QED BY <3>1, <3>2
  <2>4. Fin(n) \in Nat /\ Fin(m - 1) \in Nat /\ From(n) \in Nat
    BY <1>3, <1>6, <2>1
  <2> QED BY <2>1, <2>2, <2>3, <2>4
<1> QED BY <1>2, <1>3, <1>4, <1>6, <1>7

\* What an action of the script is.
IsStart(a, n) == a = Action(W(n).start + 1, "start", Now[n])
IsStop(a, n) == a = Action(W(n).end, "stop", Now[n])
IsFinal(a, n) == a = Action(Fin(n), "finalize", Now[n])
IsGoto(a, n) == a = Action(From(n), "goto", W(n).start) /\ W(n).start > From(n)
IsEnd(a) == \/ a = Action(Fin(Len(Now)) + 3, "quit", 0)
            \/ a = Action(Fin(Len(Now)) + 2, "playdemo", 0) /\ pass # Len(Passes)

LEMMA VdmIs ==
    ASSUME NEW clips, NEW last \in BOOLEAN, NEW a
    PROVE  a \in VdmText(clips, last) <=>
              \/ \E n \in DOMAIN clips : a \in ClipActions(clips, n)
              \/ last /\ a = Action(FinalizeTick(windows[clips[Len(clips)]]) + 3, "quit", 0)
              \/ ~last /\ a = Action(FinalizeTick(windows[clips[Len(clips)]]) + 2, "playdemo", 0)
<1>1. CASE last
  BY <1>1 DEF VdmText
<1>2. CASE ~last
  BY <1>2 DEF VdmText
<1> QED BY <1>1, <1>2

LEMMA BatchScript ==
    ASSUME InPass
    PROVE  /\ \A a \in Script :
                 \/ \E n \in 1..Len(Now) : IsStart(a, n) \/ IsStop(a, n) \/ IsFinal(a, n) \/ IsGoto(a, n)
                 \/ IsEnd(a)
           /\ \A n \in 1..Len(Now) : Action(Fin(n), "finalize", Now[n]) \in Script
<1>1. DOMAIN Now = 1..Len(Now)
  BY NowFacts
<1>2. ASSUME NEW a
      PROVE  a \in Script <=>
                \/ \E n \in 1..Len(Now) : a \in ClipActions(Now, n)
                \/ pass = Len(Passes) /\ a = Action(Fin(Len(Now)) + 3, "quit", 0)
                \/ pass # Len(Passes) /\ a = Action(Fin(Len(Now)) + 2, "playdemo", 0)
  <2>1. Script = VdmText(Now, pass = Len(Passes))
    BY DEF Script, InPass, Now
  <2>2. (pass = Len(Passes)) \in BOOLEAN
    OBVIOUS
  <2> QED BY <1>1, <2>1, <2>2, VdmIs DEF Fin
<1>3. ASSUME NEW n \in 1..Len(Now)
      PROVE  ClipActions(Now, n) =
                {Action(W(n).start + 1, "start", Now[n]), Action(W(n).end, "stop", Now[n]),
                 Action(Fin(n), "finalize", Now[n])}
                \cup IF W(n).start > From(n) THEN {Action(From(n), "goto", W(n).start)} ELSE {}
  BY DEF ClipActions, W, Fin, From
<1>4. ASSUME NEW a \in Script
      PROVE  \/ \E n \in 1..Len(Now) : IsStart(a, n) \/ IsStop(a, n) \/ IsFinal(a, n) \/ IsGoto(a, n)
             \/ IsEnd(a)
  <2>1. CASE \E n \in 1..Len(Now) : a \in ClipActions(Now, n)
    <3>1. PICK n \in 1..Len(Now) : a \in ClipActions(Now, n)
      BY <2>1
    <3>2. IsStart(a, n) \/ IsStop(a, n) \/ IsFinal(a, n) \/ IsGoto(a, n)
      BY <1>3, <3>1 DEF IsStart, IsStop, IsFinal, IsGoto
    <3> QED BY <3>2
  <2>2. CASE \/ pass = Len(Passes) /\ a = Action(Fin(Len(Now)) + 3, "quit", 0)
             \/ pass # Len(Passes) /\ a = Action(Fin(Len(Now)) + 2, "playdemo", 0)
    BY <2>2 DEF IsEnd
  <2> QED BY <1>2, <2>1, <2>2
<1>5. ASSUME NEW n \in 1..Len(Now) PROVE Action(Fin(n), "finalize", Now[n]) \in Script
  BY <1>2, <1>3
<1> QED BY <1>4, <1>5

LEMMA ActionIs ==
    ASSUME NEW at, NEW does, NEW arg
    PROVE  Action(at, does, arg).at = at /\ Action(at, does, arg).does = does
           /\ Action(at, does, arg).arg = arg
  BY DEF Action

\* The tick and the subject of an action of a pass.
LEMMA BatchAction ==
    ASSUME InPass, NEW a \in Script, a.at = tick
    PROVE  /\ a.does \in {"start", "stop", "finalize", "goto", "quit", "playdemo"}
           /\ a.does = "start" => \E n \in 1..Len(Now) : IsStart(a, n)
           /\ a.does = "stop" => \E n \in 1..Len(Now) : IsStop(a, n)
           /\ a.does = "finalize" => \E n \in 1..Len(Now) : IsFinal(a, n)
           /\ a.does = "goto" => \E n \in 1..Len(Now) : IsGoto(a, n)
           /\ a.does = "playdemo" => tick = Fin(Len(Now)) + 2 /\ pass # Len(Passes)
<1>1. CASE \E n \in 1..Len(Now) : IsStart(a, n)
  <2>1. a.does = "start"
    BY <1>1, ActionIs DEF IsStart
  <2> QED BY <1>1, <2>1
<1>2. CASE \E n \in 1..Len(Now) : IsStop(a, n)
  <2>1. a.does = "stop"
    BY <1>2, ActionIs DEF IsStop
  <2> QED BY <1>2, <2>1
<1>3. CASE \E n \in 1..Len(Now) : IsFinal(a, n)
  <2>1. a.does = "finalize"
    BY <1>3, ActionIs DEF IsFinal
  <2> QED BY <1>3, <2>1
<1>4. CASE \E n \in 1..Len(Now) : IsGoto(a, n)
  <2>1. a.does = "goto"
    BY <1>4, ActionIs DEF IsGoto
  <2> QED BY <1>4, <2>1
<1>5. CASE IsEnd(a)
  <2>1. CASE a = Action(Fin(Len(Now)) + 3, "quit", 0)
    <3>1. a.does = "quit"
      BY <2>1, ActionIs
    <3> QED BY <3>1
  <2>2. CASE a = Action(Fin(Len(Now)) + 2, "playdemo", 0) /\ pass # Len(Passes)
    <3>1. a.does = "playdemo" /\ a.at = Fin(Len(Now)) + 2
      BY <2>2, ActionIs
    <3> QED BY <2>2, <3>1
  <2> QED BY <1>5, <2>1, <2>2 DEF IsEnd
<1> QED BY <1>1, <1>2, <1>3, <1>4, <1>5, BatchScript

\* Nothing else happens at the tick of a jump.
LEMMA GotoAlone ==
    ASSUME InPass, NEW n \in 1..Len(Now), NEW a, IsGoto(a, n), NEW b \in Script, b.at = a.at
    PROVE  b = a
<1>1. a.at = From(n) /\ W(n).start > From(n)
  BY ActionIs, NowFacts DEF IsGoto
<1>2. Len(Now) \in Nat /\ \A m \in 1..Len(Now) : m \in Nat
  BY NowFacts
<1>3. ASSUME NEW m \in 1..Len(Now), IsStart(b, m) \/ IsStop(b, m) \/ IsFinal(b, m) PROVE FALSE
  <2>1. b.at \in {W(m).start + 1, W(m).end, Fin(m)}
    BY <1>3, ActionIs, NowFacts DEF IsStart, IsStop, IsFinal
  <2>2. /\ W(m).start \in Nat /\ W(m).end \in Nat /\ Fin(m) \in Nat /\ From(n) \in Nat
        /\ W(n).start \in Nat /\ W(m).start < W(m).end /\ W(m).end <= Fin(m)
    BY NowFacts
  <2>3. CASE m < n
    <3>1. Fin(m) + 2 <= From(n)
      BY <2>3, NowFacts
    <3> QED BY <1>1, <2>1, <2>2, <3>1
  <2>4. CASE m >= n
    <3>1. W(n).start <= W(m).start
      <4>1. CASE m = n
        BY <2>2, <4>1
      <4>2. CASE n < m
        <5>1. Fin(n) + 2 < W(m).start
          BY <4>2, NowFacts
        <5>2. /\ W(n).start < W(n).end /\ W(n).end <= Fin(n)
              /\ W(n).end \in Nat /\ Fin(n) \in Nat
          BY NowFacts
        <5> QED BY <2>2, <5>1, <5>2
      <4> QED BY <1>2, <2>4, <4>1, <4>2
    <3> QED BY <1>1, <2>1, <2>2, <3>1
  <2> QED BY <1>2, <2>3, <2>4
<1>4. ASSUME NEW m \in 1..Len(Now), IsGoto(b, m) PROVE b = a
  <2>1. b.at = From(m)
    BY <1>4, ActionIs, NowFacts DEF IsGoto
  <2>2. m = n
    BY <1>1, <1>2, <2>1, NowFacts
  <2> QED BY <1>4, <2>2 DEF IsGoto
<1>5. ASSUME IsEnd(b) PROVE FALSE
  <2>1. b.at \in {Fin(Len(Now)) + 2, Fin(Len(Now)) + 3}
    BY <1>5, ActionIs, NowFacts DEF IsEnd
  <2>2. Fin(n) <= Fin(Len(Now))
    <3>1. CASE n = Len(Now)
      <4>1. Fin(n) \in Nat
        BY NowFacts
      <4> QED BY <3>1, <4>1
    <3>2. CASE n < Len(Now)
      <4>1. Len(Now) \in 1..Len(Now)
        BY NowFacts
      <4>2. Fin(n) \in Nat /\ Fin(Len(Now)) \in Nat /\ Fin(n) < Fin(Len(Now))
        BY <3>2, <4>1, NowFacts
      <4> QED BY <4>2
    <3>3. n \in Nat /\ Len(Now) \in Nat /\ n <= Len(Now)
      BY <1>2
    <3>4. n = Len(Now) \/ n < Len(Now)
      BY ONLY <3>3
    <3> QED BY <3>1, <3>2, <3>4
  <2>3. /\ W(n).start \in Nat /\ W(n).end \in Nat /\ Fin(n) \in Nat /\ From(n) \in Nat
        /\ W(n).start < W(n).end /\ W(n).end <= Fin(n)
    BY NowFacts
  <2>4. Fin(Len(Now)) \in Nat
    <3>1. Len(Now) \in 1..Len(Now)
      BY NowFacts
    <3> QED BY <3>1, NowFacts
  <2> QED BY <1>1, <2>1, <2>2, <2>3, <2>4
<1> QED BY <1>3, <1>4, <1>5, BatchScript


------------------------------------------------------------------------------
(* The script in the next state *)

LEMMA PassesSame == ASSUME windows' = windows PROVE Passes' = Passes
  BY DEF Passes

LEMMA ScriptSame ==
    ASSUME UNCHANGED <<script, windows, pass, target, kills>>
    PROVE  Script' = Script /\ Now' = Now
<1>1. Passes' = Passes /\ Now' = Now
  BY PassesSame DEF Now
<1>2. ASSUME NEW clips, NEW n PROVE ClipActions(clips, n)' = ClipActions(clips, n)
  BY DEF ClipActions
<1>3. ASSUME NEW clips, NEW last PROVE VdmText(clips, last)' = VdmText(clips, last)
  BY <1>2 DEF VdmText
<1>4. ASSUME NEW n PROVE SeekAt(n)' = SeekAt(n)
  BY DEF SeekAt
<1>5. ASSUME NEW k PROVE Cue(k)' = Cue(k)
  BY DEF Cue
<1>6. ManualVdm' = ManualVdm
  BY <1>4, <1>5 DEF ManualVdm
<1> QED BY <1>1, <1>3, <1>6 DEF Script


------------------------------------------------------------------------------
(* The state of the player *)

Marks == {"start", "stop", "finalize"}

\* The player and the batch, with the actions of this tick.
Base ==
    /\ Fixed
    /\ script = "batch" => pass \in 1..Len(Passes)
    /\ script = "manual" => pass = 1
    /\ tick \in 0..LastTick
    /\ todo \subseteq At(tick)
    /\ takes \in [1..Clips -> [Marks -> Nat \cup {Never}]]
    /\ nextKill \in 1..Larger(Cardinality(kills), 1)

LEMMA ManualScript ==
    ASSUME script = "manual", NEW a \in Script
    PROVE  \/ \E n \in DOMAIN SeekTargets(target) : a = Action(SeekAt(n), "seek", n)
           \/ a = Action(target + 1, "ready", 0)
           \/ \E kill \in kills : a = Action(Cue(kill) + 1, "restore", 0)
  BY DEF Script, ManualVdm

LEMMA CueFacts ==
    ASSUME Fixed, NEW kill \in kills
    PROVE  Cue(kill) \in Nat /\ Cue(kill) >= target /\ Cue(kill) <= LastTick
<1>1. target \in Nat /\ kill \in Nat /\ target <= kill /\ kill <= LastTick
  BY FixedTypes
<1> QED BY <1>1, Numbers DEF Cue, Larger

LEMMA TodoFacts ==
    ASSUME Base, NEW a \in todo
    PROVE  a \in Script /\ a.at = tick /\ tick \in Nat
  BY Numbers DEF Base, At

LEMMA TodoBatch ==
    ASSUME Base, script = "batch", NEW a \in todo
    PROVE  /\ InPass
           /\ a.does \in {"start", "stop", "finalize", "goto", "quit", "playdemo"}
           /\ a.does = "start" => \E n \in 1..Len(Now) : IsStart(a, n)
           /\ a.does = "stop" => \E n \in 1..Len(Now) : IsStop(a, n)
           /\ a.does = "finalize" => \E n \in 1..Len(Now) : IsFinal(a, n)
           /\ a.does = "goto" => \E n \in 1..Len(Now) : IsGoto(a, n)
           /\ a.does = "playdemo" => tick = Fin(Len(Now)) + 2 /\ pass # Len(Passes)
<1>1. InPass
  BY DEF Base, InPass
<1> QED BY <1>1, TodoFacts, BatchAction

LEMMA TodoManual ==
    ASSUME Base, script = "manual", NEW a \in todo
    PROVE  /\ a.does \in {"seek", "ready", "restore"}
           /\ a.does = "seek" => /\ a.arg \in DOMAIN SeekTargets(target) /\ tick = SeekAt(a.arg)
                                 /\ a = Action(SeekAt(a.arg), "seek", a.arg)
           /\ a.does = "ready" => tick = target + 1 /\ a = Action(target + 1, "ready", 0)
           /\ a.does = "restore" => tick > target
<1>1. a \in Script /\ a.at = tick /\ tick \in Nat
  BY TodoFacts
<1>2. target \in Nat
  BY FixedTypes DEF Base
<1>3. CASE \E n \in DOMAIN SeekTargets(target) : a = Action(SeekAt(n), "seek", n)
  <2>1. PICK n \in DOMAIN SeekTargets(target) : a = Action(SeekAt(n), "seek", n)
    BY <1>3
  <2>2. a.does = "seek" /\ a.arg = n /\ a.at = SeekAt(n)
    BY <2>1, ActionIs
  <2> QED BY <1>1, <2>1, <2>2
<1>4. CASE a = Action(target + 1, "ready", 0)
  <2>1. a.does = "ready" /\ a.at = target + 1
    BY <1>4, ActionIs
  <2> QED BY <1>1, <1>4, <2>1
<1>5. CASE \E kill \in kills : a = Action(Cue(kill) + 1, "restore", 0)
  <2>1. PICK kill \in kills : a = Action(Cue(kill) + 1, "restore", 0)
    BY <1>5
  <2>2. a.does = "restore" /\ a.at = Cue(kill) + 1
    BY <2>1, ActionIs
  <2>3. Cue(kill) \in Nat /\ Cue(kill) >= target
    BY CueFacts DEF Base
  <2> QED BY <1>1, <1>2, <2>2, <2>3
<1> QED BY <1>1, <1>3, <1>4, <1>5, ManualScript

\* Nothing else happens at the tick of a jump.
LEMMA JumpAlone ==
    ASSUME Base, NEW a \in todo, a.does \in {"goto", "seek"}
    PROVE  todo = {a}
<1>1. CASE script = "batch"
  <2>1. InPass /\ a.does = "goto"
    BY <1>1, TodoBatch
  <2>2. PICK n \in 1..Len(Now) : IsGoto(a, n)
    BY <1>1, <2>1, TodoBatch
  <2>3. ASSUME NEW b \in todo PROVE b = a
    <3>1. b \in Script /\ b.at = a.at
      BY TodoFacts
    <3> QED BY <2>1, <2>2, <3>1, GotoAlone
  <2> QED BY <2>3
<1>2. CASE script = "manual"
  <2>1. a.arg \in DOMAIN SeekTargets(target) /\ tick = SeekAt(a.arg) /\ a = Action(SeekAt(a.arg), "seek", a.arg)
    BY <1>2, TodoManual
  <2>2. target \in Nat
    BY FixedTypes DEF Base
  <2>3. tick \in Nat /\ tick <= target
    BY <2>1, <2>2, SeekAtFacts
  <2>4. ASSUME NEW b \in todo PROVE b = a
    <3>1. b.does = "seek"
      <4>1. b.does # "ready" /\ b.does # "restore"
        BY <1>2, <2>2, <2>3, TodoManual
      <4> QED BY <1>2, <4>1, TodoManual
    <3>2. /\ b.arg \in DOMAIN SeekTargets(target) /\ tick = SeekAt(b.arg)
          /\ b = Action(SeekAt(b.arg), "seek", b.arg)
      BY <1>2, <3>1, TodoManual
    <3>3. a.arg = b.arg
      <4>1. a.arg \in Nat /\ b.arg \in Nat /\ SeekAt(a.arg) \in Nat
        BY <2>1, <2>2, <3>2, SeekAtFacts
      <4>2. a.arg < b.arg => SeekAt(a.arg) < SeekAt(b.arg)
        BY <2>1, <2>2, <3>2, SeekAtFacts
      <4>3. b.arg < a.arg => SeekAt(b.arg) < SeekAt(a.arg)
        BY <2>1, <2>2, <3>2, SeekAtFacts
      <4>4. SeekAt(a.arg) = SeekAt(b.arg)
        BY <2>1, <3>2
      <4> QED BY <4>1, <4>2, <4>3, <4>4
    <3> QED BY <2>1, <3>2, <3>3
  <2> QED BY <2>4
<1> QED BY <1>1, <1>2, FixedTypes DEF Base


\* The tick of the kill that the next key goes to.
LEMMA NextKillIs ==
    ASSUME Fixed, script = "manual", nextKill \in 1..Larger(Cardinality(kills), 1)
    PROVE  /\ Cardinality(kills) \in Nat /\ Cardinality(kills) > 0
           /\ nextKill \in 1..Cardinality(kills) /\ KillOrder[nextKill] \in kills
<1>1. kills \in SUBSET Nat /\ IsFiniteSet(kills) /\ kills # {}
  <2>1. kills \subseteq Kills /\ kills # {}
    BY DEF Fixed
  <2> QED BY <2>1, PlaybackAssumption, FS_Subset
<1>2. Cardinality(kills) \in Nat /\ Cardinality(kills) > 0
  BY <1>1, FS_CardinalityType, FS_EmptySet
<1>3. nextKill \in 1..Cardinality(kills)
  BY <1>2 DEF Larger
<1>4. PICK seq : Sorted(seq, kills)
  BY <1>1, SortedExists
<1>5. seq \in [1..Cardinality(kills) -> kills] /\ \A i, j \in DOMAIN seq : i < j => seq[i] < seq[j]
  BY <1>4 DEF Sorted
<1>6. KillOrder \in [1..Cardinality(kills) -> kills]
  BY <1>5 DEF KillOrder
<1> QED BY <1>2, <1>3, <1>6

LEMMA JumpTodo ==
    ASSUME UNCHANGED <<script, windows, pass, target, kills>>, NEW to, Jump(to, {})
    PROVE  tick' = to /\ (todo \subseteq At(tick))'
<1>1. Script' = Script
  BY ScriptSame
<1>2. At(tick)' = {action \in Script : action.at = to}
  BY <1>1 DEF At, Jump
<1> QED BY <1>2 DEF Jump, At

LEMMA BaseInit == Init => Base
<1> SUFFICES ASSUME Init PROVE Base
  OBVIOUS
<1>1. Fixed
  BY DEF Init, Fixed
<1>2. script = "batch" => pass \in 1..Len(Passes)
  BY <1>1, SomePass DEF Init
<1>3. takes \in [1..Clips -> [Marks -> Nat \cup {Never}]]
  <2>1. NoTake \in [Marks -> Nat \cup {Never}]
    BY DEF NoTake, Marks
  <2> QED BY <2>1 DEF Init
<1>4. nextKill \in 1..Larger(Cardinality(kills), 1)
  <2>1. IsFiniteSet(kills)
    <3>1. kills \subseteq Kills
      BY <1>1 DEF Fixed
    <3> QED BY <3>1, PlaybackAssumption, FS_Subset
  <2>2. Cardinality(kills) \in Nat
    BY <2>1, FS_CardinalityType
  <2> QED BY <2>2 DEF Init, Larger
<1> QED BY <1>1, <1>2, <1>3, <1>4, Numbers DEF Base, Init

LEMMA BaseStep == Base /\ [Next]_vars => Base'
<1> SUFFICES ASSUME Base, [Next]_vars PROVE Base'
  OBVIOUS
<1> USE DEF batch, aliases
<1>1. Fixed'
  BY FixedStep DEF Base
<1> DEFINE Stays == UNCHANGED <<script, windows, target, kills>>
           Still == Stays /\ UNCHANGED <<pass, takes, nextKill>>
<1>2. ASSUME Still, tick' \in 0..LastTick, (todo \subseteq At(tick))' PROVE Base'
  <2>1. Passes' = Passes
    BY <1>2, PassesSame
  <2> QED BY <1>1, <1>2, <2>1 DEF Base
<1>3. ASSUME UNCHANGED <<script, windows, target, kills, pass>> PROVE Script' = Script /\ Passes' = Passes
  BY <1>3, ScriptSame, PassesSame
<1>4. ASSUME UNCHANGED <<script, windows, target, kills, pass, tick>>, NEW gone, todo' = todo \ gone
      PROVE  (todo \subseteq At(tick))'
  BY <1>3, <1>4 DEF Base, At
<1>5. CASE Play
  <2>1. Still /\ tick' = tick + 1 /\ todo' = At(tick + 1) /\ tick < LastTick
    BY <1>5 DEF Play
  <2>2. (todo \subseteq At(tick))'
    BY <1>3, <2>1 DEF At
  <2> QED BY <1>2, <2>1, <2>2, Numbers DEF Base
<1>6. ASSUME NEW a \in todo, SkipAhead(a) PROVE Base'
  <2>1. Still /\ a.does = "goto" /\ Jump(a.arg, todo \ {a})
    BY <1>6 DEF SkipAhead, Fires
  <2>2. todo \ {a} = {}
    BY <2>1, JumpAlone
  <2>3. tick' = a.arg /\ (todo \subseteq At(tick))'
    BY <2>1, <2>2, JumpTodo
  <2>4. script = "batch"
    BY <2>1, TodoManual, FixedTypes DEF Base
  <2>5. PICK n \in 1..Len(Now) : IsGoto(a, n)
    BY <2>1, <2>4, TodoBatch
  <2>6. InPass
    BY <2>4, TodoBatch
  <2>7. a.arg = W(n).start
    BY <2>5, ActionIs DEF IsGoto
  <2>8. W(n).start \in 0..LastTick
    <3>1. /\ W(n).start \in Nat /\ W(n).end \in Nat /\ Fin(n) \in Nat /\ W(n).start < W(n).end
          /\ W(n).end <= Fin(n) /\ Fin(n) + 3 <= LastTick
      BY <2>6, NowFacts
    <3> QED BY <3>1, Numbers
  <2> QED BY <1>2, <2>1, <2>3, <2>7, <2>8
<1>7. ASSUME NEW a \in todo, Mark(a) PROVE Base'
  <2>1. Stays /\ UNCHANGED <<pass, nextKill, tick>> /\ todo' = todo \ {a}
    BY <1>7 DEF Mark, BatchFrame
  <2>2. PICK mark \in Marks : a.does = mark /\ takes' = [takes EXCEPT ![a.arg][mark] = tick]
    BY <1>7 DEF Mark, Fires, Marks
  <2>3. takes' \in [1..Clips -> [Marks -> Nat \cup {Never}]]
    <3>1. tick \in Nat /\ takes \in [1..Clips -> [Marks -> Nat \cup {Never}]]
      BY Numbers DEF Base
    <3> QED BY <2>2, <3>1
  <2>4. (todo \subseteq At(tick))'
    BY <1>4, <2>1
  <2>5. Passes' = Passes
    BY <1>3, <2>1
  <2> QED BY <1>1, <2>1, <2>3, <2>4, <2>5 DEF Base
<1>8. ASSUME NEW a \in todo, PlayNextPass(a) PROVE Base'
  <2>1. Stays /\ UNCHANGED <<takes, nextKill>> /\ tick' = 0 /\ todo' = {} /\ pass' = pass + 1
        /\ a.does = "playdemo"
    BY <1>8 DEF PlayNextPass, Fires
  <2>2. script = "batch"
    BY <2>1, TodoManual, FixedTypes DEF Base
  <2>3. pass # Len(Passes) /\ pass \in 1..Len(Passes) /\ Len(Passes) \in Nat
    BY <2>1, <2>2, TodoBatch, SomePass DEF Base
  <2>4. Passes' = Passes
    BY <2>1, PassesSame
  <2>5. script' # "manual" /\ pass' \in 1..Len(Passes')
    BY <2>1, <2>2, <2>3, <2>4
  <2> QED BY <1>1, <2>1, <2>5, Numbers DEF Base
<1>9. ASSUME NEW a \in todo, Quit(a) PROVE Base'
  <2>1. Still /\ UNCHANGED tick /\ todo' = todo \ {a}
    BY <1>9 DEF Quit, BatchFrame
  <2> QED BY <1>2, <1>4, <2>1 DEF Base
<1>10. ASSUME NEW a \in todo, SeekAlias(a) PROVE Base'
  <2>1. Still /\ a.does = "seek"
    BY <1>10 DEF SeekAlias, Fires
  <2>2. CASE a.arg \in armed
    <3>1. Jump(SeekTargets(target)[a.arg], todo \ {a})
      BY <1>10, <2>2 DEF SeekAlias
    <3>2. todo \ {a} = {}
      BY <2>1, JumpAlone
    <3>3. tick' = SeekTargets(target)[a.arg] /\ (todo \subseteq At(tick))'
      BY <2>1, <3>1, <3>2, JumpTodo
    <3>4. script = "manual"
      BY <2>1, TodoBatch, FixedTypes DEF Base
    <3>5. a.arg \in DOMAIN SeekTargets(target) /\ target \in Nat /\ target < LastTick
      BY <2>1, <3>4, TodoManual, FixedTypes DEF Base
    <3>6. tick' \in 0..LastTick
      BY <3>3, <3>5, SeekAtFacts, Numbers
    <3> QED BY <1>2, <2>1, <3>3, <3>6
  <2>3. CASE a.arg \notin armed
    <3>1. UNCHANGED tick /\ todo' = todo \ {a}
      BY <1>10, <2>3 DEF SeekAlias
    <3> QED BY <1>2, <1>4, <2>1, <3>1 DEF Base
  <2> QED BY <2>2, <2>3
<1>11. ASSUME NEW a \in todo, ReadyAlias(a) \/ RestoreAlias(a) PROVE Base'
  <2>1. Still /\ UNCHANGED tick /\ todo' = todo \ {a}
    BY <1>11 DEF ReadyAlias, RestoreAlias
  <2> QED BY <1>2, <1>4, <2>1 DEF Base
<1>12. CASE TogglePause
  <2>1. Still /\ UNCHANGED <<tick, todo>>
    BY <1>12 DEF TogglePause, Key
  <2>2. todo' = todo \ {}
    BY <2>1
  <2> QED BY <1>2, <1>4, <2>1, <2>2 DEF Base
<1>13. CASE NextKill
  <2>1. Stays /\ UNCHANGED <<pass, takes>> /\ script = "manual" /\ Jump(Cue(KillOrder[nextKill]), {})
    BY <1>13 DEF NextKill, Key
  <2>2. nextKill' = IF nextKill = Cardinality(kills) THEN 1 ELSE nextKill + 1
    BY <1>13 DEF NextKill
  <2>3. /\ Cardinality(kills) \in Nat /\ Cardinality(kills) > 0
        /\ nextKill \in 1..Cardinality(kills) /\ KillOrder[nextKill] \in kills
    BY <2>1, NextKillIs DEF Base
  <2>4. tick' = Cue(KillOrder[nextKill]) /\ (todo \subseteq At(tick))'
    BY <2>1, JumpTodo
  <2>5. tick' \in 0..LastTick
    BY <2>3, <2>4, CueFacts, Numbers DEF Base
  <2>6. nextKill' \in 1..Larger(Cardinality(kills'), 1)
    BY <2>1, <2>2, <2>3 DEF Larger
  <2>7. Passes' = Passes
    BY <1>3, <2>1
  <2> QED BY <1>1, <2>1, <2>4, <2>5, <2>6, <2>7 DEF Base
<1>14. CASE Seek
  <2>1. Still
    BY <1>14 DEF Seek, Key
  <2>2. PICK to \in 0..LastTick : Jump(to, {})
    BY <1>14 DEF Seek
  <2>3. tick' = to /\ (todo \subseteq At(tick))'
    BY <2>1, <2>2, JumpTodo
  <2> QED BY <1>2, <2>1, <2>3
<1>15. CASE SafeRestart
  <2>1. Still /\ tick' = 0 /\ todo' = {}
    BY <1>15 DEF SafeRestart, Key
  <2> QED BY <1>2, <2>1, Numbers
<1>16. CASE UNCHANGED vars
  <2>1. Still /\ UNCHANGED <<tick, todo>>
    BY <1>16 DEF vars, player
  <2>2. todo' = todo \ {}
    BY <2>1
  <2> QED BY <1>2, <1>4, <2>1, <2>2 DEF Base
<1> QED
  BY <1>5, <1>6, <1>7, <1>8, <1>9, <1>10, <1>11, <1>12, <1>13, <1>14, <1>15, <1>16
  DEF Next, Player, User

LEMMA BaseHolds == Spec => []Base
BY BaseInit, BaseStep, PTL DEF Spec


------------------------------------------------------------------------------
(* One clip at a time *)

\* The clips of the passes that have played are finalized.
Earlier == \A q \in 1..(pass - 1) : \A n \in DOMAIN Passes[q] : takes[Passes[q][n]].finalize # Never

\* A clip of the pass that plays is finalized, or will be.
Ahead == \A n \in DOMAIN Now :
            \/ takes[Now[n]].finalize # Never
            \/ tick < Fin(n)
            \/ tick = Fin(n) /\ Action(Fin(n), "finalize", Now[n]) \in todo

\* A clip that has begun is one of a pass that has played, or of this one up to here.
Begun == \A c \in 1..Clips :
            takes[c].start # Never =>
                \/ \E q \in 1..(pass - 1) : \E n \in DOMAIN Passes[q] : Passes[q][n] = c
                \/ \E n \in DOMAIN Now : Now[n] = c /\ tick > W(n).start

\* A manual session records nothing of its own.
Untaken == takes = [c \in 1..Clips |-> NoTake]

PassInv == /\ script = "batch" => Earlier /\ Ahead /\ Begun
           /\ script = "manual" => Untaken

LEMMA OneAtATimeFollows == ASSUME Base, PassInv PROVE OneAtATime
<1> SUFFICES ASSUME NEW c \in 1..Clips, NEW d \in 1..Clips, Open(c), Open(d) PROVE c = d
  BY DEF OneAtATime
<1>1. CASE script = "manual"
  BY <1>1 DEF PassInv, Untaken, Open, NoTake
<1>2. CASE script = "batch"
  <2>1. InPass /\ Earlier /\ Ahead /\ Begun /\ tick \in Nat
    BY <1>2, Numbers DEF Base, InPass, PassInv
  <2>2. ASSUME NEW x \in 1..Clips, Open(x)
        PROVE  \E n \in 1..Len(Now) : Now[n] = x /\ tick > W(n).start /\ tick <= Fin(n)
    <3>1. ~ \E q \in 1..(pass - 1) : \E n \in DOMAIN Passes[q] : Passes[q][n] = x
      BY <2>1, <2>2 DEF Earlier, Open
    <3>2. PICK n \in DOMAIN Now : Now[n] = x /\ tick > W(n).start
      BY <2>1, <2>2, <3>1 DEF Begun, Open
    <3>3. tick < Fin(n) \/ tick = Fin(n)
      BY <2>1, <2>2, <3>2 DEF Ahead, Open
    <3>4. n \in 1..Len(Now) /\ Fin(n) \in Nat
      BY <2>1, NowFacts
    <3> QED BY <2>1, <3>2, <3>3, <3>4
  <2>3. PICK n \in 1..Len(Now) : Now[n] = c /\ tick > W(n).start /\ tick <= Fin(n)
    BY <2>2
  <2>4. PICK m \in 1..Len(Now) : Now[m] = d /\ tick > W(m).start /\ tick <= Fin(m)
    BY <2>2
  <2>5. /\ Fin(n) \in Nat /\ Fin(m) \in Nat /\ W(n).start \in Nat /\ W(m).start \in Nat
        /\ n < m => Fin(n) + 2 < W(m).start
        /\ m < n => Fin(m) + 2 < W(n).start
    BY <2>1, NowFacts
  <2>6. n \in Nat /\ m \in Nat
    BY <2>1, NowFacts
  <2>7. ~(n < m) /\ ~(m < n)
    BY <2>1, <2>3, <2>4, <2>5
  <2> QED BY <2>3, <2>4, <2>6, <2>7
<1> QED BY <1>1, <1>2, FixedTypes DEF Base

LEMMA PassInvInit == Init => PassInv
<1> SUFFICES ASSUME Init PROVE PassInv
  OBVIOUS
<1>1. Base
  BY BaseInit
<1>2. script = "manual" => Untaken
  BY DEF Init, Untaken
<1>3. ASSUME script = "batch" PROVE Earlier /\ Ahead /\ Begun
  <2>1. InPass /\ tick = 0 /\ pass = 1
    BY <1>1, <1>3 DEF Base, InPass, Init
  <2>2. Earlier
    BY <2>1 DEF Earlier
  <2>3. Begun
    BY DEF Begun, Init, NoTake
  <2>4. ASSUME NEW n \in DOMAIN Now PROVE tick < Fin(n)
    <3>1. W(n).start \in Nat /\ W(n).end \in Nat /\ Fin(n) \in Nat /\ W(n).start < W(n).end /\ W(n).end <= Fin(n)
      BY <2>1, NowFacts
    <3> QED BY <2>1, <3>1
  <2> QED BY <2>2, <2>3, <2>4 DEF Ahead
<1> QED BY <1>2, <1>3 DEF PassInv


LEMMA NowSame ==
    ASSUME UNCHANGED <<windows, pass>>
    PROVE  Passes' = Passes /\ Now' = Now /\ \A n : W(n)' = W(n) /\ Fin(n)' = Fin(n)
<1>1. Passes' = Passes /\ Now' = Now
  BY PassesSame DEF Now
<1> QED BY <1>1 DEF W, Fin, FinalizeTick

\* A step that neither marks a clip nor ends the pass, and runs no mark in passing.
LEMMA PlaysOn ==
    ASSUME InPass, PassInv, UNCHANGED <<script, windows, pass, takes>>, tick \in Nat, tick' \in Nat,
           tick <= tick',
           \A n \in DOMAIN Now :
              \/ takes[Now[n]].finalize # Never
              \/ tick' < Fin(n)
              \/ tick' = Fin(n) /\ Action(Fin(n), "finalize", Now[n]) \in todo'
    PROVE  PassInv'
<1>1. Passes' = Passes /\ Now' = Now /\ \A n : W(n)' = W(n) /\ Fin(n)' = Fin(n)
  BY NowSame
<1>2. script = "batch" /\ Earlier /\ Ahead /\ Begun
  BY DEF InPass, PassInv
<1>3. Earlier'
  BY <1>1, <1>2 DEF Earlier
<1>4. Ahead'
  BY <1>1 DEF Ahead
<1>5. Begun'
  <2> SUFFICES ASSUME NEW c \in 1..Clips, takes[c].start # Never
               PROVE  \/ \E q \in 1..(pass - 1) : \E n \in DOMAIN Passes[q] : Passes[q][n] = c
                      \/ \E n \in DOMAIN Now : Now[n] = c /\ tick' > W(n).start
    BY <1>1 DEF Begun
  <2>1. CASE \E q \in 1..(pass - 1) : \E n \in DOMAIN Passes[q] : Passes[q][n] = c
    BY <2>1
  <2>2. CASE \E n \in DOMAIN Now : Now[n] = c /\ tick > W(n).start
    <3>1. PICK n \in DOMAIN Now : Now[n] = c /\ tick > W(n).start
      BY <2>2
    <3>2. W(n).start \in Nat
      BY NowFacts
    <3> QED BY <3>1, <3>2
  <2> QED BY <1>2, <2>1, <2>2 DEF Begun
<1> QED BY <1>2, <1>3, <1>4, <1>5 DEF PassInv

LateEnough == \A n \in DOMAIN Now : Fin(n) \in Nat /\ Fin(n) > 0

LEMMA InPassIsLate == InPass => LateEnough
<1> SUFFICES ASSUME InPass, NEW n \in DOMAIN Now PROVE Fin(n) \in Nat /\ Fin(n) > 0
  BY DEF LateEnough
<1>1. /\ W(n).start \in Nat /\ W(n).end \in Nat /\ Fin(n) \in Nat
      /\ W(n).start < W(n).end /\ W(n).end <= Fin(n)
  BY NowFacts
<1> QED BY <1>1

\* The next pass starts behind the last clip of this one.
LEMMA PassEnds ==
    ASSUME InPass, PassInv, UNCHANGED <<script, windows, takes>>, tick \in Nat,
           tick = Fin(Len(Now)) + 2, pass' = pass + 1, tick' = 0, InPass'
    PROVE  PassInv'
<1>1. script = "batch" /\ Earlier /\ Ahead /\ Begun /\ Passes' = Passes
  BY PassesSame DEF InPass, PassInv
<1>2. pass \in Nat /\ pass > 0 /\ pass' - 1 = pass /\ Len(Passes) \in Nat
  BY SomePass DEF InPass
<1>3. ASSUME NEW n \in DOMAIN Now PROVE takes[Now[n]].finalize # Never
  <2>1. n \in 1..Len(Now) /\ Len(Now) \in 1..Len(Now) /\ Len(Now) \in Nat /\ n \in Nat /\ n <= Len(Now)
    BY NowFacts
  <2>2. /\ Fin(n) \in Nat /\ Fin(Len(Now)) \in Nat
        /\ n < Len(Now) => Fin(n) < Fin(Len(Now))
    BY <2>1, NowFacts
  <2>3. n = Len(Now) \/ n < Len(Now)
    BY <2>1
  <2>4. Fin(n) <= Fin(Len(Now))
    BY <2>2, <2>3
  <2>5. ~(tick < Fin(n)) /\ tick # Fin(n)
    BY <2>2, <2>4
  <2> QED BY <1>1, <2>5 DEF Ahead
<1>4. Earlier'
  <2> SUFFICES ASSUME NEW q \in 1..pass, NEW n \in DOMAIN Passes[q]
               PROVE  takes[Passes[q][n]].finalize # Never
    BY <1>1, <1>2 DEF Earlier
  <2>1. CASE q = pass
    BY <1>3, <2>1 DEF Now
  <2>2. CASE q # pass
    <3>1. q \in 1..(pass - 1)
      BY <1>2, <2>2
    <3> QED BY <1>1, <3>1 DEF Earlier
  <2> QED BY <2>1, <2>2
<1>5. Ahead'
  <2>1. ASSUME NEW n \in DOMAIN Now' PROVE tick' < Fin(n)'
    <3>1. InPass' => LateEnough'
      BY InPassIsLate, PTL
    <3> QED BY <3>1 DEF LateEnough
  <2> QED BY <2>1 DEF Ahead
<1>6. Begun'
  <2> SUFFICES ASSUME NEW c \in 1..Clips, takes[c].start # Never
               PROVE  \E q \in 1..pass : \E n \in DOMAIN Passes[q] : Passes[q][n] = c
    BY <1>1, <1>2 DEF Begun
  <2>1. CASE \E q \in 1..(pass - 1) : \E n \in DOMAIN Passes[q] : Passes[q][n] = c
    <3>1. 1..(pass - 1) \subseteq 1..pass
      BY <1>2
    <3> QED BY <2>1, <3>1
  <2>2. CASE \E n \in DOMAIN Now : Now[n] = c
    <3>1. pass \in 1..pass
      BY <1>2
    <3> QED BY <2>2, <3>1 DEF Now
  <2> QED BY <1>1, <2>1, <2>2 DEF Begun
<1> QED BY <1>1, <1>4, <1>5, <1>6 DEF PassInv


\* The clip whose recording is started, stopped or declared final.
LEMMA MarkStep ==
    ASSUME Base, PassInv, NEW a \in todo, Mark(a)
    PROVE  PassInv'
<1> USE DEF batch, aliases
<1>1. script = "batch"
  <2>1. a.does \in Marks
    BY DEF Mark, Fires, Marks
  <2> QED BY <2>1, TodoManual, FixedTypes DEF Base, Marks
<1>2. InPass /\ Earlier /\ Ahead /\ Begun /\ tick \in Nat
  BY <1>1, Numbers DEF Base, InPass, PassInv
<1>3. UNCHANGED <<script, windows, pass, tick>> /\ todo' = todo \ {a}
  BY DEF Mark, BatchFrame
<1>4. PICK mark \in Marks : a.does = mark /\ takes' = [takes EXCEPT ![a.arg][mark] = tick]
  BY DEF Mark, Fires, Marks
<1>5. Passes' = Passes /\ Now' = Now /\ \A n : W(n)' = W(n) /\ Fin(n)' = Fin(n)
  BY <1>3, NowSame
<1>6. takes \in [1..Clips -> [Marks -> Nat \cup {Never}]] /\ tick # Never
  BY <1>2 DEF Base, Never
<1>7. PICK k \in 1..Len(Now) :
        /\ a.arg = Now[k]
        /\ mark = "start" => tick > W(k).start
        /\ mark = "finalize" => tick = Fin(k)
  <2>1. a.at = tick
    BY TodoFacts
  <2>2. CASE mark = "start"
    <3>1. PICK k \in 1..Len(Now) : IsStart(a, k)
      BY <1>1, <1>4, <2>2, TodoBatch
    <3>2. a.arg = Now[k] /\ a.at = W(k).start + 1 /\ W(k).start \in Nat
      BY <1>2, <3>1, ActionIs, NowFacts DEF IsStart
    <3> QED BY <2>1, <2>2, <3>2
  <2>3. CASE mark = "stop"
    <3>1. PICK k \in 1..Len(Now) : IsStop(a, k)
      BY <1>1, <1>4, <2>3, TodoBatch
    <3>2. a.arg = Now[k]
      BY <3>1, ActionIs DEF IsStop
    <3> QED BY <2>3, <3>2
  <2>4. CASE mark = "finalize"
    <3>1. PICK k \in 1..Len(Now) : IsFinal(a, k)
      BY <1>1, <1>4, <2>4, TodoBatch
    <3>2. a.arg = Now[k] /\ a.at = Fin(k)
      BY <3>1, ActionIs DEF IsFinal
    <3> QED BY <2>1, <2>4, <3>2
  <2> QED BY <2>2, <2>3, <2>4 DEF Marks
<1>8. a.arg \in 1..Clips /\ k \in DOMAIN Now
  BY <1>2, <1>7, NowFacts
<1>9. ASSUME NEW c \in 1..Clips
      PROVE  /\ takes[c].finalize # Never => takes'[c].finalize # Never
             /\ c = a.arg /\ mark = "finalize" => takes'[c].finalize # Never
             /\ takes'[c].start # Never => takes[c].start # Never \/ (c = a.arg /\ mark = "start")
  <2>1. CASE c # a.arg
    BY <1>4, <1>6, <2>1
  <2>2. CASE c = a.arg
    <3>1. takes'[c] = [takes[c] EXCEPT ![mark] = tick]
      BY <1>4, <1>6, <1>8, <2>2
    <3>2. takes[c] \in [Marks -> Nat \cup {Never}]
      BY <1>6
    <3>3. CASE mark = "start"
      <4>1. takes'[c].finalize = takes[c].finalize
        BY <3>1, <3>2, <3>3 DEF Marks
      <4> QED BY <2>2, <3>3, <4>1
    <3>4. CASE mark = "stop"
      <4>1. takes'[c].finalize = takes[c].finalize /\ takes'[c].start = takes[c].start
        BY <3>1, <3>2, <3>4 DEF Marks
      <4> QED BY <2>2, <3>4, <4>1
    <3>5. CASE mark = "finalize"
      <4>1. takes'[c].finalize = tick /\ takes'[c].start = takes[c].start
        BY <3>1, <3>2, <3>5 DEF Marks
      <4> QED BY <1>6, <2>2, <3>5, <4>1
    <3> QED BY <3>3, <3>4, <3>5 DEF Marks
  <2> QED BY <2>1, <2>2
<1>10. Earlier'
  <2> SUFFICES ASSUME NEW q \in 1..(pass - 1), NEW n \in DOMAIN Passes[q]
               PROVE  takes'[Passes[q][n]].finalize # Never
    BY <1>3, <1>5 DEF Earlier
  <2>1. takes[Passes[q][n]].finalize # Never
    BY <1>2 DEF Earlier
  <2>2. Passes[q][n] \in 1..Clips
    <3>1. Playable(Passes, windows, Clips) /\ Len(Passes) \in Nat
      BY <1>1, BatchPasses, SomePass DEF Base, Good
    <3>2. q \in 1..Len(Passes)
      BY <1>2, <3>1 DEF InPass
    <3>3. n \in 1..Len(Passes[q])
      BY <3>1, <3>2, PassFacts, Numbers
    <3> QED BY <3>1, <3>2, <3>3, PassFacts, Numbers
  <2> QED BY <1>9, <2>1, <2>2
<1>11. Ahead'
  <2> SUFFICES ASSUME NEW n \in DOMAIN Now
               PROVE  \/ takes'[Now[n]].finalize # Never
                      \/ tick < Fin(n)
                      \/ tick = Fin(n) /\ Action(Fin(n), "finalize", Now[n]) \in todo'
    BY <1>3, <1>5 DEF Ahead
  <2>1. Now[n] \in 1..Clips
    BY <1>2, NowFacts
  <2>2. CASE takes[Now[n]].finalize # Never \/ tick < Fin(n)
    BY <1>9, <2>1, <2>2
  <2>3. CASE tick = Fin(n) /\ Action(Fin(n), "finalize", Now[n]) \in todo
    <3>1. CASE a = Action(Fin(n), "finalize", Now[n])
      <4>1. a.does = "finalize" /\ a.arg = Now[n]
        BY <3>1, ActionIs
      <4> QED BY <1>4, <1>9, <2>1, <4>1
    <3>2. CASE a # Action(Fin(n), "finalize", Now[n])
      BY <1>3, <2>3, <3>2
    <3> QED BY <3>1, <3>2
  <2> QED BY <1>2, <2>2, <2>3 DEF Ahead
<1>12. Begun'
  <2> SUFFICES ASSUME NEW c \in 1..Clips, takes'[c].start # Never
               PROVE  \/ \E q \in 1..(pass - 1) : \E n \in DOMAIN Passes[q] : Passes[q][n] = c
                      \/ \E n \in DOMAIN Now : Now[n] = c /\ tick > W(n).start
    BY <1>3, <1>5 DEF Begun
  <2>1. CASE takes[c].start # Never
    BY <1>2, <2>1 DEF Begun
  <2>2. CASE c = a.arg /\ mark = "start"
    BY <1>7, <1>8, <2>2
  <2> QED BY <1>9, <2>1, <2>2
<1> QED BY <1>1, <1>3, <1>10, <1>11, <1>12 DEF PassInv

LEMMA PassInvStep == Base /\ Base' /\ PassInv /\ [Next]_vars => PassInv'
<1> SUFFICES ASSUME Base, Base', PassInv, [Next]_vars PROVE PassInv'
  OBVIOUS
<1> USE DEF batch, aliases
<1>1. UNCHANGED <<script, windows, target, kills>>
  BY SceneryStays
<1>2. script \in {"batch", "manual"} /\ tick \in Nat /\ tick' \in Nat
  BY FixedTypes, Numbers DEF Base
<1>3. CASE script = "manual"
  <2>1. UNCHANGED takes
    <3>1. CASE \E a \in todo : Mark(a)
      <4>1. PICK a \in todo : a.does \in Marks
        BY <3>1 DEF Mark, Fires, Marks
      <4> QED BY <1>3, <4>1, TodoManual DEF Marks
    <3>2. CASE Play
      BY <3>2 DEF Play
    <3>3. ASSUME NEW a \in todo, \/ SkipAhead(a) \/ PlayNextPass(a) \/ Quit(a)
                                 \/ SeekAlias(a) \/ ReadyAlias(a) \/ RestoreAlias(a)
          PROVE  UNCHANGED takes
      BY <3>3 DEF SkipAhead, PlayNextPass, Quit, SeekAlias, ReadyAlias, RestoreAlias, BatchFrame
    <3>4. CASE User
      BY <3>4 DEF User, TogglePause, NextKill, Seek, SafeRestart, Key
    <3>5. CASE UNCHANGED vars
      BY <3>5 DEF vars
    <3> QED BY <3>1, <3>2, <3>3, <3>4, <3>5 DEF Next, Player
  <2> QED BY <1>1, <1>3, <2>1 DEF PassInv, Untaken
<1>4. CASE script = "batch"
  <2>1. InPass /\ Earlier /\ Ahead /\ Begun
    BY <1>4 DEF Base, InPass, PassInv
  <2>2. InPass'
    BY <1>1, <1>4 DEF Base, InPass
  <2>3. CASE Play
    <3>1. UNCHANGED <<script, windows, target, kills, pass, takes>> /\ todo = {}
          /\ tick' = tick + 1 /\ todo' = At(tick + 1)
      BY <2>3 DEF Play
    <3>2. ASSUME NEW n \in DOMAIN Now
          PROVE  \/ takes[Now[n]].finalize # Never
                 \/ tick' < Fin(n)
                 \/ tick' = Fin(n) /\ Action(Fin(n), "finalize", Now[n]) \in todo'
      <4>1. n \in 1..Len(Now) /\ Fin(n) \in Nat
        BY <2>1, NowFacts
      <4>2. CASE tick' = Fin(n)
        <5>1. Action(Fin(n), "finalize", Now[n]) \in Script
          BY <2>1, <4>1, BatchScript
        <5> QED BY <3>1, <4>2, <5>1, ActionIs DEF At
      <4>3. CASE tick' # Fin(n) /\ tick < Fin(n)
        BY <1>2, <3>1, <4>1, <4>3
      <4> QED BY <2>1, <3>1, <4>2, <4>3 DEF Ahead
    <3> QED BY <1>2, <2>1, <3>1, <3>2, PlaysOn
  <2>4. ASSUME NEW a \in todo, SkipAhead(a) PROVE PassInv'
    <3>1. UNCHANGED <<script, windows, pass, takes>> /\ a.does = "goto" /\ tick' = a.arg
      BY <2>4 DEF SkipAhead, Fires, Jump
    <3>2. PICK k \in 1..Len(Now) : IsGoto(a, k)
      BY <1>4, <3>1, TodoBatch
    <3>3. tick' = W(k).start /\ tick = From(k) /\ W(k).start > From(k) /\ todo = {a}
      BY <3>1, <3>2, ActionIs, TodoFacts, JumpAlone DEF IsGoto
    <3>4. ASSUME NEW n \in DOMAIN Now
          PROVE  takes[Now[n]].finalize # Never \/ tick' < Fin(n)
      <4>1. n \in 1..Len(Now) /\ Fin(n) \in Nat /\ n \in Nat /\ k \in Nat /\ From(k) \in Nat
        BY <2>1, NowFacts
      <4>2. CASE n < k
        <5>1. Fin(n) + 2 <= From(k)
          BY <2>1, <4>1, <4>2, NowFacts
        <5>2. ~(tick < Fin(n)) /\ tick # Fin(n)
          BY <3>3, <4>1, <5>1
        <5> QED BY <2>1, <5>2 DEF Ahead
      <4>3. CASE n = k
        <5>1. /\ W(n).start \in Nat /\ W(n).end \in Nat
              /\ W(n).start < W(n).end /\ W(n).end <= Fin(n)
          BY <2>1, <4>1, NowFacts
        <5> QED BY <3>3, <4>1, <4>3, <5>1
      <4>4. CASE k < n
        <5>1. /\ W(k).start \in Nat /\ W(k).end \in Nat /\ Fin(k) \in Nat
              /\ W(k).start < W(k).end /\ W(k).end <= Fin(k) /\ Fin(k) < Fin(n)
          BY <2>1, <4>1, <4>4, NowFacts
        <5> QED BY <3>3, <4>1, <5>1
      <4> QED BY <4>1, <4>2, <4>3, <4>4
    <3>5. tick <= tick'
      BY <1>2, <3>3
    <3> QED BY <1>2, <2>1, <3>1, <3>4, <3>5, PlaysOn
  <2>5. ASSUME NEW a \in todo, PlayNextPass(a) PROVE PassInv'
    <3>1. UNCHANGED <<script, windows, takes>> /\ a.does = "playdemo" /\ pass' = pass + 1 /\ tick' = 0
      BY <2>5 DEF PlayNextPass, Fires
    <3>2. tick = Fin(Len(Now)) + 2
      BY <1>4, <3>1, TodoBatch
    <3> QED BY <1>2, <2>1, <2>2, <3>1, <3>2, PassEnds
  <2>6. ASSUME NEW a \in todo, Quit(a) PROVE PassInv'
    <3>1. UNCHANGED <<script, windows, pass, takes, tick>> /\ todo' = todo \ {a} /\ a.does = "quit"
      BY <2>6 DEF Quit, BatchFrame, Fires
    <3>2. ASSUME NEW n \in DOMAIN Now, Action(Fin(n), "finalize", Now[n]) \in todo
          PROVE  Action(Fin(n), "finalize", Now[n]) \in todo'
      <4>1. Action(Fin(n), "finalize", Now[n]).does # "quit"
        BY ActionIs
      <4> QED BY <3>1, <3>2, <4>1
    <3>3. \A n \in DOMAIN Now :
              \/ takes[Now[n]].finalize # Never
              \/ tick' < Fin(n)
              \/ tick' = Fin(n) /\ Action(Fin(n), "finalize", Now[n]) \in todo'
      BY <2>1, <3>1, <3>2 DEF Ahead
    <3> QED BY <1>2, <2>1, <3>1, <3>3, PlaysOn
  <2>7. ASSUME NEW a \in todo, SeekAlias(a) \/ ReadyAlias(a) \/ RestoreAlias(a) PROVE FALSE
    <3>1. a.does \in {"seek", "ready", "restore"}
      BY <2>7 DEF SeekAlias, ReadyAlias, RestoreAlias, Fires
    <3> QED BY <1>4, <3>1, TodoBatch
  <2>8. CASE User
    <3>1. script = "manual"
      BY <2>8 DEF User, TogglePause, NextKill, Seek, SafeRestart, Key
    <3> QED BY <1>4, <3>1
  <2>9. CASE UNCHANGED vars
    <3>1. UNCHANGED <<script, windows, pass, takes, tick, todo>>
      BY <2>9 DEF vars, player
    <3>2. \A n \in DOMAIN Now :
              \/ takes[Now[n]].finalize # Never
              \/ tick' < Fin(n)
              \/ tick' = Fin(n) /\ Action(Fin(n), "finalize", Now[n]) \in todo'
      BY <2>1, <3>1 DEF Ahead
    <3> QED BY <1>2, <2>1, <3>1, <3>2, PlaysOn
  <2> QED BY <2>3, <2>4, <2>5, <2>6, <2>7, <2>8, <2>9, MarkStep DEF Next, Player
<1> QED BY <1>2, <1>3, <1>4

LEMMA PassInvHolds == Spec => []PassInv
BY PassInvInit, PassInvStep, BaseHolds, PTL DEF Spec

\* A clip is not started while HLAE still writes another one: the flush is part of
\* the window, and the passes keep the windows apart (partition_recording_windows,
\* recording.rs 3261).
THEOREM ClipsNeverOverlap == Spec => []OneAtATime
<1>1. Base /\ PassInv => OneAtATime
  BY OneAtATimeFollows
<1> QED BY <1>1, BaseHolds, PassInvHolds, PTL


------------------------------------------------------------------------------
(* Types *)

\* The rest of the state.
KeysInv == keys \in 0..MaxKeys /\ armed \subseteq {0} \cup DOMAIN SeekTargets(target)
Flags == /\ restore \in BOOLEAN /\ paused \in BOOLEAN /\ over \in BOOLEAN
         /\ atStart \in BOOLEAN /\ meddled \in BOOLEAN

LEMMA KeysInvInit == Init => KeysInv
<1> SUFFICES ASSUME Init PROVE KeysInv
  OBVIOUS
<1>1. armed \subseteq {0} \cup DOMAIN SeekTargets(target)
  BY DEF Init
<1> QED BY <1>1, Numbers DEF Init, KeysInv

LEMMA KeysInvStep == KeysInv /\ [Next]_vars => KeysInv'
<1> SUFFICES ASSUME KeysInv, [Next]_vars PROVE KeysInv'
  OBVIOUS
<1> USE DEF batch, aliases
<1>1. target' = target
  BY SceneryStays
<1>2. ASSUME keys' = keys, armed' \subseteq armed PROVE KeysInv'
  BY <1>1, <1>2 DEF KeysInv
<1>3. ASSUME Key PROVE keys' \in 0..MaxKeys
  BY <1>3, Numbers DEF Key, KeysInv
<1>4. CASE Play
  BY <1>2, <1>4 DEF Play
<1>5. ASSUME NEW a \in todo, \/ SkipAhead(a) \/ Mark(a) \/ PlayNextPass(a) \/ Quit(a)
                             \/ ReadyAlias(a) \/ RestoreAlias(a)
      PROVE  KeysInv'
  BY <1>2, <1>5 DEF SkipAhead, Mark, PlayNextPass, Quit, ReadyAlias, RestoreAlias, BatchFrame
<1>6. ASSUME NEW a \in todo, SeekAlias(a) PROVE KeysInv'
  BY <1>2, <1>6 DEF SeekAlias
<1>7. CASE TogglePause \/ NextKill \/ Seek
  <2>1. armed' = armed /\ Key
    BY <1>7 DEF TogglePause, NextKill, Seek
  <2> QED BY <1>1, <1>3, <2>1 DEF KeysInv
<1>8. CASE SafeRestart
  <2>1. armed' = {0} \cup DOMAIN SeekTargets(target) /\ Key
    BY <1>8 DEF SafeRestart, ArmAll
  <2> QED BY <1>1, <1>3, <2>1 DEF KeysInv
<1>9. CASE UNCHANGED vars
  BY <1>2, <1>9 DEF vars
<1> QED BY <1>4, <1>5, <1>6, <1>7, <1>8, <1>9 DEF Next, Player, User

LEMMA FlagsStep == Flags /\ [Next]_vars => Flags'
<1> SUFFICES ASSUME Flags, [Next]_vars PROVE Flags'
  OBVIOUS
<1> USE DEF batch, aliases, Flags
<1>1. CASE Play
  BY <1>1 DEF Play
<1>2. ASSUME NEW a \in todo, \/ SkipAhead(a) \/ Mark(a) \/ PlayNextPass(a) PROVE Flags'
  BY <1>2 DEF SkipAhead, Mark, PlayNextPass, BatchFrame
<1>3. ASSUME NEW a \in todo, Quit(a) \/ SeekAlias(a) \/ RestoreAlias(a) PROVE Flags'
  BY <1>3 DEF Quit, SeekAlias, RestoreAlias, BatchFrame
<1>4. ASSUME NEW a \in todo, ReadyAlias(a) PROVE Flags'
  <2>1. UNCHANGED <<restore, over, meddled>>
    BY <1>4 DEF ReadyAlias
  <2>2. CASE 0 \in armed
    BY <1>4, <2>1, <2>2 DEF ReadyAlias
  <2>3. CASE 0 \notin armed
    BY <1>4, <2>1, <2>3 DEF ReadyAlias
  <2> QED BY <2>2, <2>3
<1>5. CASE TogglePause
  <2>1. UNCHANGED <<restore, over, atStart>>
    BY <1>5 DEF TogglePause, Key
  <2>2. paused' \in BOOLEAN
    BY <1>5, Zenon DEF TogglePause
  <2>3. meddled' \in BOOLEAN
    BY <1>5, Zenon DEF TogglePause, Meddle
  <2> QED BY <2>1, <2>2, <2>3
<1>6. CASE NextKill
  <2>1. UNCHANGED <<over, atStart>> /\ paused' = TRUE /\ restore' = TRUE
    BY <1>6 DEF NextKill, Key
  <2>2. meddled' \in BOOLEAN
    BY <1>6, Zenon DEF NextKill, Meddle
  <2> QED BY <2>1, <2>2
<1>7. CASE Seek
  <2>1. UNCHANGED <<over, restore, atStart>> /\ paused' \in BOOLEAN
    BY <1>7 DEF Seek, Key
  <2>2. meddled' \in BOOLEAN
    BY <1>7, Zenon DEF Seek, Meddle
  <2> QED BY <2>1, <2>2
<1>8. CASE SafeRestart
  BY <1>8 DEF SafeRestart, Key
<1>9. CASE UNCHANGED vars
  BY <1>9 DEF vars, player
<1> QED BY <1>1, <1>2, <1>3, <1>4, <1>5, <1>6, <1>7, <1>8, <1>9 DEF Next, Player, User

LEMMA NoWindowsNoPass == ASSUME Fixed, script = "manual" PROVE Len(Passes) = 0
<1>1. windows = <<>> /\ Len(<<>>) = 0
  BY DEF Fixed
<1>2. PICK g : Places(g, <<>>, 0) /\ Partition(<<>>) = g[0]
  BY <1>1, PartitionIs
<1>3. g[0] = <<>>
  BY <1>2 DEF Places
<1> QED BY <1>1, <1>2, <1>3 DEF Passes

LEMMA TypeFollows == ASSUME Base, KeysInv, Flags PROVE TypeOK
<1>1. pass \in 1..Larger(Len(Passes), 1)
  <2>1. CASE script = "batch"
    <3>1. Len(Passes) \in Nat /\ Len(Passes) > 0 /\ pass \in 1..Len(Passes)
      BY <2>1, SomePass DEF Base
    <3> QED BY <3>1 DEF Larger
  <2>2. CASE script = "manual"
    <3>1. Len(Passes) = 0 /\ pass = 1
      BY <2>2, NoWindowsNoPass DEF Base
    <3> QED BY <3>1 DEF Larger
  <2> QED BY <2>1, <2>2, FixedTypes DEF Base
<1>2. ASSUME NEW c \in 1..Clips, NEW mark \in DOMAIN NoTake
      PROVE  takes[c][mark] \in Nat \cup {Never}
  <2>1. mark \in Marks
    BY DEF NoTake, Marks
  <2> QED BY <2>1 DEF Base
<1> QED BY <1>1, <1>2 DEF TypeOK, Base, KeysInv, Flags

\* Every state is well-formed: the pass exists, the actions of this tick are those of
\* the script at this tick, the aliases that are armed are those of its seeks, and the
\* key that cycles through the kills never leaves them.
THEOREM TypeInvariant == Spec => []TypeOK
<1>1. Init => KeysInv
  BY KeysInvInit
<1>2. Init => Flags
  BY DEF Init, Flags
<1>3. Base /\ KeysInv /\ Flags => TypeOK
  BY TypeFollows
<1> QED BY <1>1, <1>2, <1>3, KeysInvStep, FlagsStep, BaseHolds, PTL DEF Spec


------------------------------------------------------------------------------
(* The safe seek *)

\* A step of the demo player that the user did not ask for: on by a tick, or on by an
\* alias that was armed.
LEMMA MovesOn ==
    ASSUME Base, [Next]_vars, script = "manual", keys' = keys, keys \in Int
    PROVE  \/ tick' \in {tick, tick + 1}
           \/ \E a \in todo : /\ SeekAlias(a) /\ a.arg \in armed
                              /\ a.arg \in DOMAIN SeekTargets(target) /\ tick = SeekAt(a.arg)
                              /\ tick' = SeekTargets(target)[a.arg]
<1> USE DEF batch, aliases
<1>1. CASE Play
  BY <1>1 DEF Play
<1>2. ASSUME NEW a \in todo, SkipAhead(a) \/ PlayNextPass(a) PROVE FALSE
  <2>1. a.does \in {"goto", "playdemo"}
    BY <1>2 DEF SkipAhead, PlayNextPass, Fires
  <2> QED BY <2>1, TodoManual
<1>3. ASSUME NEW a \in todo, Mark(a) \/ Quit(a) \/ ReadyAlias(a) \/ RestoreAlias(a) PROVE tick' = tick
  BY <1>3 DEF Mark, Quit, ReadyAlias, RestoreAlias
<1>4. ASSUME NEW a \in todo, SeekAlias(a)
      PROVE  \/ tick' = tick
             \/ /\ SeekAlias(a) /\ a.arg \in armed
                /\ a.arg \in DOMAIN SeekTargets(target) /\ tick = SeekAt(a.arg)
                /\ tick' = SeekTargets(target)[a.arg]
  <2>1. a.does = "seek"
    BY <1>4 DEF SeekAlias, Fires
  <2>2. a.arg \in DOMAIN SeekTargets(target) /\ tick = SeekAt(a.arg)
    BY <2>1, TodoManual
  <2> QED BY <1>4, <2>2 DEF SeekAlias, Jump
<1>5. CASE User
  BY <1>5 DEF User, TogglePause, NextKill, Seek, SafeRestart, Key
<1>6. CASE UNCHANGED vars
  BY <1>6 DEF vars, player
<1> QED BY <1>1, <1>2, <1>3, <1>4, <1>5, <1>6 DEF Next, Player

\* The script of a manual session moves the demo by MANUAL_SEEK_STEP_TICKS at most
\* (manual_seek_targets; MANUAL_HLAE_CAMERA_GUIDE.md 12 and 27), whatever the distance
\* of the lead-in and whatever the user does in between.
THEOREM HopsAreShort == Spec => ShortHops
<1>1. Base /\ KeysInv /\ [Next]_vars => [script = "manual" /\ keys' = keys => tick' - tick <= Step]_vars
  <2> SUFFICES ASSUME Base, KeysInv, [Next]_vars, script = "manual", keys' = keys
               PROVE  tick' - tick <= Step
    OBVIOUS
  <2>1. keys \in Int /\ tick \in Nat /\ target \in Nat /\ Step \in Nat /\ Step > 0
    BY FixedTypes, Numbers DEF Base, KeysInv
  <2>2. CASE tick' \in {tick, tick + 1}
    <3>1. CASE tick' = tick
      BY <2>1, <3>1
    <3>2. CASE tick' = tick + 1
      BY <2>1, <3>2
    <3> QED BY <2>2, <3>1, <3>2
  <2>3. CASE \E a \in todo : /\ SeekAlias(a) /\ a.arg \in armed
                             /\ a.arg \in DOMAIN SeekTargets(target) /\ tick = SeekAt(a.arg)
                             /\ tick' = SeekTargets(target)[a.arg]
    <3>1. PICK a \in todo : /\ a.arg \in DOMAIN SeekTargets(target) /\ tick = SeekAt(a.arg)
                            /\ tick' = SeekTargets(target)[a.arg]
      BY <2>3
    <3> QED BY <2>1, <3>1, SeekAtFacts
  <2> QED BY <2>1, <2>2, <2>3, MovesOn
<1>2. Init => KeysInv
  BY KeysInvInit
<1> QED BY <1>1, <1>2, KeysInvStep, BaseHolds, PTL DEF Spec, ShortHops

\* As long as the user lets the script run: no alias of a seek that the demo has passed
\* is armed, and none at all once the demo is paused at the lead-in.
SeekInv ==
    script = "manual" /\ ~meddled =>
        /\ atStart => armed = {}
        /\ ~atStart => \A n \in armed \ {0} :
              tick < SeekAt(n) \/ (tick = SeekAt(n) /\ Action(SeekAt(n), "seek", n) \in todo)

LEMMA SeekInvInit == Init => SeekInv
<1> SUFFICES ASSUME Init, script = "manual" PROVE SeekInv
  BY DEF SeekInv
<1>1. target \in Nat /\ tick = 0 /\ ~atStart /\ armed = {0} \cup DOMAIN SeekTargets(target)
  BY BaseInit, FixedTypes DEF Base, Init
<1>2. \A n \in armed \ {0} : tick < SeekAt(n)
  BY <1>1, SeekAtFacts
<1> QED BY <1>1, <1>2 DEF SeekInv

\* The user's keys: those that move the demo count as meddling before the lead-in, and
\* find nothing armed after it.
LEMMA SeekInvUser ==
    ASSUME Base, SeekInv, User
    PROVE  SeekInv'
<1> USE DEF aliases
<1>1. UNCHANGED <<script, target>> /\ script = "manual" /\ target \in Nat
  BY FixedTypes DEF User, TogglePause, NextKill, Seek, SafeRestart, Key, Base
<1>2. CASE TogglePause \/ NextKill \/ Seek
  <2>1. UNCHANGED <<armed, atStart>> /\ meddled' = (meddled \/ ~atStart)
    BY <1>2 DEF TogglePause, NextKill, Seek, Meddle
  <2>2. CASE meddled \/ ~atStart
    <3>1. meddled'
      BY <2>1, <2>2
    <3> QED BY <3>1 DEF SeekInv
  <2>3. CASE ~meddled /\ atStart
    <3>1. armed' = {} /\ atStart'
      BY <1>1, <2>1, <2>3 DEF SeekInv
    <3> QED BY <3>1 DEF SeekInv
  <2> QED BY <2>2, <2>3
<1>3. CASE SafeRestart
  <2>1. armed' = {0} \cup DOMAIN SeekTargets(target) /\ tick' = 0 /\ ~atStart'
    BY <1>3 DEF SafeRestart, ArmAll
  <2>2. \A n \in armed' \ {0} : tick' < SeekAt(n)
    BY <1>1, <2>1, SeekAtFacts
  <2>3. \A n : SeekAt(n)' = SeekAt(n)
    BY <1>1 DEF SeekAt
  <2> QED BY <2>1, <2>2, <2>3 DEF SeekInv
<1> QED BY <1>2, <1>3 DEF User

LEMMA SeekInvStep == Base /\ KeysInv /\ SeekInv /\ [Next]_vars => SeekInv'
<1> SUFFICES ASSUME Base, KeysInv, SeekInv, [Next]_vars PROVE SeekInv'
  OBVIOUS
<1> USE DEF batch, aliases
<1>1. UNCHANGED <<script, windows, target, kills>>
  BY SceneryStays
<1>2. CASE script # "manual"
  BY <1>1, <1>2 DEF SeekInv
<1>3. CASE User
  BY <1>3, SeekInvUser
<1>4. CASE meddled /\ ~User
  <2>1. CASE Play
    BY <1>4, <2>1 DEF Play, SeekInv
  <2>2. ASSUME NEW a \in todo, SkipAhead(a) \/ Mark(a) \/ PlayNextPass(a) \/ Quit(a)
        PROVE  SeekInv'
    BY <1>4, <2>2 DEF SkipAhead, Mark, PlayNextPass, Quit, BatchFrame, SeekInv
  <2>3. ASSUME NEW a \in todo, SeekAlias(a) \/ ReadyAlias(a) \/ RestoreAlias(a)
        PROVE  SeekInv'
    BY <1>4, <2>3 DEF SeekAlias, ReadyAlias, RestoreAlias, SeekInv
  <2>4. CASE UNCHANGED vars
    BY <1>4, <2>4 DEF vars, SeekInv
  <2> QED BY <1>4, <2>1, <2>2, <2>3, <2>4 DEF Next, Player
<1>5. CASE script = "manual" /\ ~meddled /\ ~User
  <2>1. target \in Nat /\ tick \in Nat /\ armed \subseteq {0} \cup DOMAIN SeekTargets(target)
    BY FixedTypes, Numbers DEF Base, KeysInv
  <2>2. \A n : SeekAt(n)' = SeekAt(n)
    BY <1>1 DEF SeekAt
  <2>3. /\ atStart => armed = {}
        /\ ~atStart => \A n \in armed \ {0} :
              tick < SeekAt(n) \/ (tick = SeekAt(n) /\ Action(SeekAt(n), "seek", n) \in todo)
    BY <1>5 DEF SeekInv
  <2>4. ASSUME NEW n \in armed \ {0} PROVE n \in DOMAIN SeekTargets(target) /\ SeekAt(n) \in Nat /\ SeekAt(n) <= target
    BY <2>1, SeekAtFacts
  <2>5. CASE Play
    <3>1. UNCHANGED <<armed, atStart, meddled, pass>> /\ todo = {} /\ tick' = tick + 1 /\ todo' = At(tick + 1)
      BY <2>5 DEF Play
    <3>2. ASSUME ~atStart, NEW n \in armed \ {0}
          PROVE  tick' < SeekAt(n) \/ (tick' = SeekAt(n) /\ Action(SeekAt(n), "seek", n) \in todo')
      <4>1. tick < SeekAt(n) /\ SeekAt(n) \in Nat
        BY <2>3, <2>4, <3>1, <3>2
      <4>2. CASE tick + 1 = SeekAt(n)
        <5>1. Action(SeekAt(n), "seek", n) \in Script
          BY <1>5, <2>4 DEF Script, ManualVdm
        <5> QED BY <3>1, <4>2, <5>1, ActionIs DEF At
      <4>3. CASE tick + 1 # SeekAt(n)
        BY <2>1, <3>1, <4>1, <4>3
      <4> QED BY <4>2, <4>3
    <3> QED BY <2>2, <2>3, <3>1, <3>2 DEF SeekInv
  <2>6. ASSUME NEW a \in todo, SkipAhead(a) \/ Mark(a) \/ PlayNextPass(a) \/ Quit(a) PROVE FALSE
    <3>1. a.does \in {"goto", "start", "stop", "finalize", "playdemo", "quit"}
      BY <2>6 DEF SkipAhead, Mark, PlayNextPass, Quit, Fires
    <3> QED BY <1>5, <3>1, TodoManual
  <2>7. ASSUME NEW a \in todo, SeekAlias(a) PROVE SeekInv'
    <3>1. UNCHANGED <<atStart, meddled>> /\ a.does = "seek"
      BY <2>7 DEF SeekAlias, Fires
    <3>2. /\ a.arg \in DOMAIN SeekTargets(target) /\ tick = SeekAt(a.arg)
          /\ a = Action(SeekAt(a.arg), "seek", a.arg)
      BY <1>5, <3>1, TodoManual
    <3>3. CASE a.arg \in armed
      <4>1. armed' = armed \ {a.arg} /\ tick' = SeekTargets(target)[a.arg]
        BY <2>7, <3>3 DEF SeekAlias, Jump
      <4>2. ~atStart
        BY <2>3, <3>3
      <4>3. ASSUME NEW n \in armed' \ {0} PROVE tick' < SeekAt(n)
        <5>1. n \in armed \ {0} /\ n # a.arg
          BY <4>1
        <5>2. n \in DOMAIN SeekTargets(target) /\ n \in Nat /\ a.arg \in Nat
              /\ SeekAt(n) \in Nat /\ SeekAt(a.arg) \in Nat
          BY <2>1, <2>4, <3>2, <5>1, SeekAtFacts
        <5>3. CASE a.arg < n
          BY <2>1, <3>2, <4>1, <5>2, <5>3, SeekAtFacts
        <5>4. CASE n < a.arg
          <6>1. SeekAt(n) < SeekAt(a.arg)
            BY <2>1, <3>2, <5>2, <5>4, SeekAtFacts
          <6>2. tick < SeekAt(n) \/ tick = SeekAt(n)
            BY <2>3, <4>2, <5>1
          <6> QED BY <3>2, <5>2, <6>1, <6>2
        <5> QED BY <5>1, <5>2, <5>3, <5>4
      <4> QED BY <2>2, <3>1, <4>2, <4>3 DEF SeekInv
    <3>4. CASE a.arg \notin armed
      <4>1. UNCHANGED <<armed, tick>> /\ todo' = todo \ {a}
        BY <2>7, <3>4 DEF SeekAlias
      <4>2. ASSUME ~atStart, NEW n \in armed \ {0}
            PROVE  tick < SeekAt(n) \/ (tick = SeekAt(n) /\ Action(SeekAt(n), "seek", n) \in todo')
        <5>1. Action(SeekAt(n), "seek", n) # a
          BY <3>4, <4>2, ActionIs
        <5> QED BY <2>3, <4>1, <4>2, <5>1
      <4> QED BY <2>2, <2>3, <3>1, <4>1, <4>2 DEF SeekInv
    <3> QED BY <3>3, <3>4
  <2>8. ASSUME NEW a \in todo, ReadyAlias(a) PROVE SeekInv'
    <3>1. UNCHANGED <<tick, meddled>> /\ todo' = todo \ {a} /\ a.does = "ready"
      BY <2>8 DEF ReadyAlias, Fires
    <3>2. tick = target + 1
      BY <1>5, <3>1, TodoManual
    <3>3. armed \ {0} = {}
      <4>1. ASSUME NEW n \in armed \ {0} PROVE FALSE
        <5>1. ~atStart
          BY <2>3
        <5>2. tick < SeekAt(n) \/ tick = SeekAt(n)
          BY <2>3, <5>1
        <5> QED BY <2>1, <2>4, <3>2, <5>2
      <4> QED BY <4>1
    <3>4. CASE 0 \in armed
      <4>1. armed' = armed \ {0} /\ atStart' = TRUE
        BY <2>8, <3>4 DEF ReadyAlias
      <4> QED BY <3>3, <4>1 DEF SeekInv
    <3>5. CASE 0 \notin armed
      <4>1. UNCHANGED <<armed, atStart>>
        BY <2>8, <3>5 DEF ReadyAlias
      <4> QED BY <2>3, <3>3, <4>1 DEF SeekInv
    <3> QED BY <3>4, <3>5
  <2>9. ASSUME NEW a \in todo, RestoreAlias(a) PROVE SeekInv'
    <3>1. UNCHANGED <<tick, armed, atStart, meddled>> /\ todo' = todo \ {a} /\ a.does = "restore"
      BY <2>9 DEF RestoreAlias, Fires
    <3>2. ASSUME ~atStart, NEW n \in armed \ {0}
          PROVE  tick < SeekAt(n) \/ (tick = SeekAt(n) /\ Action(SeekAt(n), "seek", n) \in todo')
      <4>1. Action(SeekAt(n), "seek", n) # a
        BY <3>1, ActionIs
      <4> QED BY <2>3, <3>1, <3>2, <4>1
    <3> QED BY <2>2, <2>3, <3>1, <3>2 DEF SeekInv
  <2>10. CASE UNCHANGED vars
    <3>1. UNCHANGED <<tick, todo, armed, atStart, meddled>>
      BY <2>10 DEF vars, player
    <3> QED BY <2>2, <2>3, <3>1 DEF SeekInv
  <2> QED BY <1>5, <2>5, <2>6, <2>7, <2>8, <2>9, <2>10 DEF Next, Player
<1> QED BY <1>2, <1>3, <1>4, <1>5

\* Once the demo has been paused at the lead-in, going back and playing over the ticks
\* of the safe seek does not start it again: each alias has become the no-op when it
\* fired (manual_seek_control_cfg).
THEOREM NeverBehindTheBack == Spec => NoSurpriseJump
<1>1. Base /\ KeysInv /\ SeekInv /\ [Next]_vars =>
        [script = "manual" /\ atStart /\ ~meddled /\ keys' = keys => tick' \in {tick, tick + 1}]_vars
  <2> SUFFICES ASSUME Base, KeysInv, SeekInv, [Next]_vars,
                      script = "manual", atStart, ~meddled, keys' = keys
               PROVE  tick' \in {tick, tick + 1}
    OBVIOUS
  <2>1. armed = {} /\ keys \in Int
    BY Numbers DEF SeekInv, KeysInv
  <2> QED BY <2>1, MovesOn
<1>2. Init => KeysInv
  BY KeysInvInit
<1>3. Init => SeekInv
  BY SeekInvInit
<1> QED BY <1>1, <1>2, <1>3, KeysInvStep, SeekInvStep, BaseHolds, PTL DEF Spec, NoSurpriseJump
==============================================================================
