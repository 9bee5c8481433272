------------------------- MODULE FourKEQBlockProofs -------------------------
(***************************************************************************)
(* Theorems about the path of the samples, for every stream, block length, *)
(* buffer, filter, ring and crossfade.                                     *)
(*                                                                         *)
(* Three invariants carry them.  RingsInv is about the spectrum taps.      *)
(* Shape keeps types and bounds through a block.  Path says where a block  *)
(* under way stands: the filters hold the signals of the samples they have *)
(* seen (Along), and host buffer, instance buffers, scratch, crossfade and *)
(* clip count are each as far as pieces and chunks have come (Underway).   *)
(* Under Path every step is one of StreamPromise, or none.  The lemmas     *)
(* before it are about values alone: a ring that holds a signal answers    *)
(* with its convolution, a stage makes of a signal's next sample that of   *)
(* the next signal, and so does the round trip.                            *)
(***************************************************************************)
EXTENDS FourKEQBlock, NumberFacts, SequenceTheorems, FiniteSetTheorems

PreRing == INSTANCE SpectrumRingProofs WITH buf <- preBuf, writePos <- preWritePos,
             storing <- preStoring, snap <- preSnap, pushed <- prePushed
PostRing == INSTANCE SpectrumRingProofs WITH buf <- postBuf, writePos <- postWritePos,
              storing <- postStoring, snap <- postSnap, pushed <- postPushed

-----------------------------------------------------------------------------
(* The spectrum taps. *)

RingsInv ==
  /\ PreRing!SlotsInv /\ PreRing!SnapInv
  /\ PostRing!SlotsInv /\ PostRing!SnapInv

LEMMA RingsAreSized == PreRing!Sizes /\ PostRing!Sizes
BY RingsAssumption DEF PreRing!Sizes, PostRing!Sizes

LEMMA RingsInit == Init => RingsInv
<1> SUFFICES ASSUME Init PROVE RingsInv
  OBVIOUS
<1>1. PreRing!InitRing /\ PostRing!InitRing
  BY DEF Init, Pre!InitRing, PreRing!InitRing, Post!InitRing, PostRing!InitRing,
         Pre!NoSnapshot, PreRing!NoSnapshot, Post!NoSnapshot, PostRing!NoSnapshot
<1> QED
  BY <1>1, RingsAreSized, PreRing!SlotsInit, PreRing!SnapInit,
     PostRing!SlotsInit, PostRing!SnapInit DEF RingsInv

\* Whatever the audio thread and the editor do, each ring takes a step of its
\* own, or none.
LEMMA RingsMove == [Next]_vars => PreRing!RingStep /\ PostRing!RingStep
<1> SUFFICES ASSUME [Next]_vars PROVE PreRing!RingStep /\ PostRing!RingStep
  OBVIOUS
<1>1. CASE UNCHANGED <<preVars, postVars>>
  BY <1>1 DEF preVars, postVars, PreRing!RingStep, PostRing!RingStep, PreRing!ringVars,
              PostRing!ringVars
<1>2. CASE PreTap
  <2>1. PreRing!RingStep
    BY <1>2 DEF PreTap, PreRing!RingStep, Pre!PushStore, PreRing!PushStore,
                Pre!PushPublish, PreRing!PushPublish
  <2> QED
    BY <1>2, <2>1 DEF PreTap, postVars, PostRing!RingStep, PostRing!ringVars
<1>3. CASE PostTap
  <2>1. PostRing!RingStep
    BY <1>3 DEF PostTap, PostRing!RingStep, Post!PushStore, PostRing!PushStore,
                Post!PushPublish, PostRing!PushPublish
  <2> QED
    BY <1>3, <2>1 DEF PostTap, preVars, PreRing!RingStep, PreRing!ringVars
<1>4. CASE EditorPre
  <2>1. PreRing!RingStep
    BY <1>4, RingsAssumption
    DEF EditorPre, PreRing!RingStep, Pre!SnapBegin, PreRing!SnapBegin, Pre!SnapLoad,
        PreRing!SnapLoad, Pre!SnapEnd, PreRing!SnapEnd, Pre!NoSnapshot,
        PreRing!NoSnapshot, Pre!Published, PreRing!Published, Pre!Slot, PreRing!Slot
  <2> QED
    BY <1>4, <2>1 DEF EditorPre, postVars, PostRing!RingStep, PostRing!ringVars
<1>5. CASE EditorPost
  <2>1. PostRing!RingStep
    BY <1>5, RingsAssumption
    DEF EditorPost, PostRing!RingStep, Post!SnapBegin, PostRing!SnapBegin,
        Post!SnapLoad, PostRing!SnapLoad, Post!SnapEnd, PostRing!SnapEnd,
        Post!NoSnapshot, PostRing!NoSnapshot, Post!Published, PostRing!Published,
        Post!Slot, PostRing!Slot
  <2> QED
    BY <1>5, <2>1 DEF EditorPost, preVars, PreRing!RingStep, PreRing!ringVars
<1>6. CASE Toggle \/ (\E frames \in Blocks : Begin(frames)) \/ ConvertIn \/ Input
           \/ Run \/ Mix \/ ConvertOut \/ UNCHANGED vars
  BY <1>1, <1>6 DEF Toggle, Begin, ConvertIn, Input, Run, Mix, ConvertOut, vars
<1> QED
  BY <1>2, <1>3, <1>4, <1>5, <1>6 DEF Next, Audio

LEMMA RingsStep == RingsInv /\ [Next]_vars => RingsInv'
BY RingsMove, RingsAreSized, PreRing!SlotsStep, PreRing!SnapStep, PostRing!SlotsStep,
   PostRing!SnapStep DEF RingsInv

\* An editor's picture of either tap, taken while the audio thread goes on, shows
\* the latest samples in order, or where it was lapped later ones, never older.
THEOREM EditorsSeeTheLatest == Spec => []SnapshotsAreRecent
<1>1. RingsInv => SnapshotsAreRecent
  BY PreRing!SnapsAreRecent, PostRing!SnapsAreRecent
  DEF RingsInv, SnapshotsAreRecent, Pre!SnapshotIsRecent, PreRing!SnapshotIsRecent,
      Post!SnapshotIsRecent, PostRing!SnapshotIsRecent, Pre!NoSnapshot,
      PreRing!NoSnapshot, Post!NoSnapshot, PostRing!NoSnapshot, Pre!Sample,
      PreRing!Sample, Post!Sample, PostRing!Sample
<1> QED
  BY <1>1, RingsInit, RingsStep, PTL DEF Spec

-----------------------------------------------------------------------------
(* Sums. *)

\* s holds the partial sums of f[1..n].
Partial(s, f, n) ==
  s \in [0..n -> Int] /\ s[0] = 0 /\ \A i \in 1..n : s[i] = s[i - 1] + f[i]

\* They exist; and both recursive sums, the code's and the promise's, are the last.
LEMMA PartialSums ==
  ASSUME NEW n \in Nat, NEW f, \A i \in 1..n : f[i] \in Int
  PROVE  \E s : Partial(s, f, n)
<1>1. PICK g : g = [i \in 1..n |-> [v \in Int |-> v + f[i]]]
  OBVIOUS
<1>2. Steps(g, n, Int)
  BY <1>1 DEF Steps
<1>3. PICK s : Recurs(s, 0, g, n, Int)
  BY <1>2, Recursion
<1>4. s \in [0..n -> Int] /\ s[0] = 0 /\ \A i \in 1..n : s[i] = g[i][s[i - 1]]
  BY <1>3 DEF Recurs
<1>5. \A i \in 1..n, v \in Int : g[i][v] = v + f[i]
  BY <1>1
<1>6. \A i \in 1..n : s[i - 1] \in Int
  BY <1>4
<1>7. ASSUME NEW i \in 1..n
      PROVE  s[i] = s[i - 1] + f[i]
  BY <1>4, <1>5, <1>6
<1> QED
  BY <1>4, <1>7 DEF Partial

LEMMA SumToIs ==
  ASSUME NEW n \in Nat, NEW f, \A i \in 1..n : f[i] \in Int
  PROVE  \E s : Partial(s, f, n) /\ SumTo(f, n) = s[n]
<1>1. PICK t : Partial(t, f, n)
  BY PartialSums
<1>2. t = [i \in 0..n |-> IF i = 0 THEN 0 ELSE t[i - 1] + f[i]]
  BY <1>1 DEF Partial
<1> DEFINE s == CHOOSE s : s = [i \in 0..n |-> IF i = 0 THEN 0 ELSE s[i - 1] + f[i]]
<1>3. SumTo(f, n) = s[n]
  BY DEF SumTo
<1>4. s = [i \in 0..n |-> IF i = 0 THEN 0 ELSE s[i - 1] + f[i]]
  BY <1>2
<1> HIDE DEF s
<1>5. s[0] = 0 /\ \A i \in 1..n : s[i] = s[i - 1] + f[i]
  BY <1>4
<1> DEFINE S == {i \in 0..n : s[i] = t[i]}
<1>6. 0 \in S /\ \A i \in 1..n : i - 1 \in S => i \in S
  BY <1>1, <1>5 DEF Partial
<1>7. 0..n \subseteq S
  <2> HIDE DEF S
  <2> QED
    BY <1>6, InductionUpTo
<1>8. SumTo(f, n) = t[n]
  BY <1>3, <1>7
<1> QED
  BY <1>1, <1>8

\* s holds the partial sums of f[0..n-1].
PartialFrom0(s, f, n) ==
  s \in [0..n -> Int] /\ s[0] = 0 /\ \A i \in 1..n : s[i] = s[i - 1] + f[i - 1]

LEMMA PromiseSumIs ==
  ASSUME NEW n \in Nat, NEW f, \A i \in 1..n : f[i - 1] \in Int
  PROVE  \E s : PartialFrom0(s, f, n) /\ Promise!Sum(f, n) = s[n]
<1>0. PICK h : h = [i \in 1..n |-> f[i - 1]]
  OBVIOUS
<1>1. PICK t : Partial(t, h, n)
  BY <1>0, PartialSums
<1>2. t = [i \in 0..n |-> IF i = 0 THEN 0 ELSE t[i - 1] + f[i - 1]]
  BY <1>0, <1>1 DEF Partial
<1> DEFINE s == CHOOSE s : s = [i \in 0..n |-> IF i = 0 THEN 0 ELSE s[i - 1] + f[i - 1]]
<1>3. Promise!Sum(f, n) = s[n]
  BY DEF Promise!Sum
<1>4. s = [i \in 0..n |-> IF i = 0 THEN 0 ELSE s[i - 1] + f[i - 1]]
  BY <1>2
<1> HIDE DEF s
<1>5. s[0] = 0 /\ \A i \in 1..n : s[i] = s[i - 1] + f[i - 1]
  BY <1>4
<1> DEFINE S == {i \in 0..n : s[i] = t[i]}
<1>6. 0 \in S /\ \A i \in 1..n : i - 1 \in S => i \in S
  BY <1>0, <1>1, <1>5 DEF Partial
<1>7. 0..n \subseteq S
  <2> HIDE DEF S
  <2> QED
    BY <1>6, InductionUpTo
<1>8. Promise!Sum(f, n) = t[n]
  BY <1>3, <1>7
<1> QED
  BY <1>0, <1>1, <1>8 DEF Partial, PartialFrom0

-----------------------------------------------------------------------------
(* The filter histories. *)

\* A ring as the code keeps it, and the taps that fit in one.
Rings == [buf : [0..Ring-1 -> Int], pos : 0..Ring-1]
Filters == {taps \in [half : Int, side : Seq(Int)] : taps.side # <<>> /\ Fits(taps)}

\* The last samples of s[0..n-1] are in the ring, after silence.
Holds(r, s, n) ==
  /\ r \in Rings
  /\ \A d \in 0..Ring-1 : Past(r, d) = IF d < n THEN s[n - 1 - d] ELSE 0

LEMMA TapsAreFilters == TapsA \in Filters /\ TapsB \in Filters
BY TapsAssumption DEF Filters

LEMMA EmptyRing == Empty \in Rings
BY RingAssumption DEF Empty, Rings

LEMMA PushRing ==
  ASSUME NEW r \in Rings, NEW x \in Int
  PROVE  Push(r, x) \in Rings
<1>1. r.buf \in [0..Ring-1 -> Int] /\ r.pos \in Int
  BY RingAssumption DEF Rings
<1>2. PICK k \in Int : k = r.pos + 1
  BY <1>1
<1>3. k % Ring \in 0..Ring-1
  BY RingAssumption, Division
<1>4. PICK p \in 0..Ring-1 : p = (r.pos + 1) % Ring
  BY <1>2, <1>3
<1>5. Push(r, x) = [buf |-> [r.buf EXCEPT ![p] = x], pos |-> p]
  BY <1>4 DEF Push
<1>6. [r.buf EXCEPT ![p] = x] \in [0..Ring-1 -> Int]
  BY <1>1
<1> QED
  BY <1>5, <1>6 DEF Rings

LEMMA PastIsSample ==
  ASSUME NEW r \in Rings, NEW d \in Int
  PROVE  Past(r, d) \in Int
<1>1. r.buf \in [0..Ring-1 -> Int] /\ r.pos \in Int
  BY RingAssumption DEF Rings
<1>2. PICK k \in Int : k = r.pos - d
  BY <1>1
<1>3. k % Ring \in 0..Ring-1
  BY RingAssumption, Division
<1> QED
  BY <1>1, <1>2, <1>3 DEF Past

\* A sample pushed is the last; what was d back is now d + 1 back.
LEMMA PastOfPush ==
  ASSUME NEW r \in Rings, NEW x \in Int, NEW d \in 0..Ring-1
  PROVE  Past(Push(r, x), d) = IF d = 0 THEN x ELSE Past(r, d - 1)
<1>1. r.buf \in [0..Ring-1 -> Int] /\ r.pos \in Int
  BY RingAssumption DEF Rings
<1>2. PICK q \in Int, k \in Int : q = r.pos /\ k = q + 1
  BY <1>1
<1>3. PICK p \in 0..Ring-1 : p = k % Ring
  BY RingAssumption, Division
<1>4. Push(r, x).buf = [r.buf EXCEPT ![p] = x] /\ Push(r, x).pos = p
  BY <1>2, <1>3 DEF Push
<1>5. PICK j \in Int, e \in Int : j = p - d /\ e = - d
  BY RingAssumption
<1>6. j % Ring \in 0..Ring-1
  BY RingAssumption, Division
<1>7. PICK m \in 0..Ring-1 : m = j % Ring
  BY <1>6
<1>8. Past(Push(r, x), d) = IF m = p THEN x ELSE r.buf[m]
  BY <1>1, <1>4, <1>5, <1>7 DEF Past
<1>9. p % Ring = p
  <2>1. p = Ring * 0 + p
    BY RingAssumption
  <2> QED
    BY <2>1, RingAssumption, RemainderIs
<1>10. CASE d = 0
  <2>1. j = p
    BY <1>5, <1>10, RingAssumption
  <2> QED
    BY <2>1, <1>7, <1>8, <1>9, <1>10
<1>11. CASE d # 0
  <2>1. m # p
    <3> SUFFICES ASSUME m = p PROVE FALSE
      OBVIOUS
    <3>1. j % Ring = p % Ring
      BY <1>7, <1>9
    <3>2. j - p < Ring /\ p - j < Ring
      BY <1>5, RingAssumption
    <3>3. j = p
      BY <3>1, <3>2, NearAndCongruent, RingAssumption
    <3> QED
      BY <3>3, <1>5, <1>11, RingAssumption
  <2>2. m = (q - (d - 1)) % Ring
    <3>1. ((k % Ring) + e) % Ring = (k + e) % Ring
      BY RemainderOfSum, RingAssumption
    <3>2. p + e = j /\ k + e = q - (d - 1)
      BY <1>2, <1>5, RingAssumption
    <3> QED
      BY <1>3, <1>7, <3>1, <3>2
  <2> QED
    BY <1>2, <1>8, <1>11, <2>1, <2>2 DEF Past
<1> QED
  BY <1>10, <1>11

LEMMA EmptyHolds == \A s : Holds(Empty, s, 0)
<1> SUFFICES ASSUME NEW s, NEW d \in 0..Ring-1 PROVE Past(Empty, d) = 0
  BY EmptyRing DEF Holds
<1>1. PICK k \in Int : k = 0 - d
  BY RingAssumption
<1>2. k % Ring \in 0..Ring-1
  BY RingAssumption, Division
<1> QED
  BY <1>1, <1>2 DEF Past, Empty

\* A ring that holds the first n samples of a signal and is pushed the next holds
\* n + 1 of them.
LEMMA PushHolds ==
  ASSUME NEW r, NEW s, NEW n \in Nat, Holds(r, s, n), s[n] \in Int
  PROVE  Holds(Push(r, s[n]), s, n + 1)
<1>1. r \in Rings /\ Push(r, s[n]) \in Rings
  BY PushRing DEF Holds
<1>2. ASSUME NEW d \in 0..Ring-1
      PROVE  Past(Push(r, s[n]), d) = IF d < n + 1 THEN s[n + 1 - 1 - d] ELSE 0
  <2>1. Past(Push(r, s[n]), d) = IF d = 0 THEN s[n] ELSE Past(r, d - 1)
    BY <1>1, PastOfPush
  <2>2. CASE d = 0
    <3>1. d < n + 1 /\ n + 1 - 1 - d = n
      BY <2>2
    <3> QED
      BY <2>1, <2>2, <3>1
  <2>3. CASE d # 0
    <3>1. d - 1 \in 0..Ring-1
      BY <2>3, RingAssumption
    <3>2. Past(r, d - 1) = IF d - 1 < n THEN s[n - 1 - (d - 1)] ELSE 0
      BY <3>1 DEF Holds
    <3>3. PICK e \in Int : e = n - d
      BY RingAssumption
    <3>4. n - 1 - (d - 1) = e /\ n + 1 - 1 - d = e /\ (d - 1 < n <=> d < n + 1)
      BY <3>3, RingAssumption
    <3>5. Past(r, d - 1) = IF d < n + 1 THEN s[e] ELSE 0
      BY <3>2, <3>4
    <3> QED
      BY <2>1, <2>3, <3>4, <3>5
  <2> QED
    BY <2>2, <2>3
<1> QED
  BY <1>1, <1>2 DEF Holds

LEMMA OutIsSample ==
  ASSUME NEW r \in Rings, NEW taps \in Filters
  PROVE  Out(r, taps) \in Int
<1>1. taps.half \in Int /\ taps.side \in Seq(Int) /\ Len(taps.side) \in Nat
  BY DEF Filters
<1>2. Centre(taps) \in Int
  BY <1>1 DEF Centre
<1> DEFINE C == Centre(taps)
           pair == [i \in 1..Len(taps.side) |->
                      LET k == 2 * i - 1
                      IN  taps.side[i] * (Past(r, C - k) + Past(r, C + k))]
<1>3. \A i \in 1..Len(taps.side) : pair[i] \in Int
  <2> SUFFICES ASSUME NEW i \in 1..Len(taps.side) PROVE pair[i] \in Int
    OBVIOUS
  <2>1. PICK a \in Int, b \in Int : a = C - (2 * i - 1) /\ b = C + (2 * i - 1)
    BY <1>1, <1>2
  <2>2. PICK t \in Int, u \in Int, v \in Int :
          t = taps.side[i] /\ u = Past(r, a) /\ v = Past(r, b)
    <3>1. taps.side[i] \in Int
      BY <1>1
    <3>2. Past(r, a) \in Int /\ Past(r, b) \in Int
      BY PastIsSample
    <3> QED
      BY <3>1, <3>2
  <2>3. pair[i] = taps.side[i] * (Past(r, C - (2 * i - 1)) + Past(r, C + (2 * i - 1)))
    BY Zenon
  <2>4. pair[i] = t * (u + v)
    BY <2>1, <2>2, <2>3, Zenon
  <2> QED
    BY <2>4
<1>4. SumTo(pair, Len(taps.side)) \in Int
  <2> HIDE DEF pair
  <2>1. PICK s : /\ Partial(s, pair, Len(taps.side))
                 /\ SumTo(pair, Len(taps.side)) = s[Len(taps.side)]
    BY <1>1, <1>3, SumToIs
  <2> QED
    BY <1>1, <2>1 DEF Partial
<1>5. Past(r, C) \in Int
  BY <1>2, PastIsSample
<1>6. Out(r, taps) = taps.half * Past(r, C) + SumTo(pair, Len(taps.side))
  BY DEF Out
<1> HIDE DEF pair, C
<1> QED
  BY <1>1, <1>4, <1>5, <1>6

-----------------------------------------------------------------------------
(* One sample through the oversampler. *)

Oversamplers ==
  [factor : {1, 2, 4}, upA : Rings, downA : Rings, upB : Rings, downB : Rings]

LEMMA FreshIsOversampler == \A f \in {1, 2, 4} : FreshOversampler(f) \in Oversamplers
BY EmptyRing DEF FreshOversampler, FactorOf, Oversamplers

\* An oversampler with the histories of one stage moved on.
StageA(o, u, d) == [o EXCEPT !.upA = u, !.downA = d]
StageB(o, u, d) == [o EXCEPT !.upB = u, !.downB = d]

LEMMA StageAIs ==
  ASSUME NEW o \in Oversamplers, NEW u \in Rings, NEW d \in Rings,
         NEW s, s = StageA(o, u, d)
  PROVE  /\ s \in Oversamplers /\ s.factor = o.factor
         /\ s.upA = u /\ s.downA = d /\ s.upB = o.upB /\ s.downB = o.downB
BY DEF Oversamplers, StageA

LEMMA StageBIs ==
  ASSUME NEW o \in Oversamplers, NEW u \in Rings, NEW d \in Rings,
         NEW s, s = StageB(o, u, d)
  PROVE  /\ s \in Oversamplers /\ s.factor = o.factor
         /\ s.upA = o.upA /\ s.downA = o.downA /\ s.upB = u /\ s.downB = d
BY DEF Oversamplers, StageB

\* Every helper of the round trip keeps types, and the factor.
LEMMA UpKeepsTypes ==
  ASSUME NEW r \in Rings, NEW x \in Int, NEW taps \in Filters
  PROVE  LET up == Up(r, x, taps)
         IN  up.ring \in Rings /\ up.phases[1] \in Int /\ up.phases[2] \in Int
<1>1. PICK first \in Rings : first = Push(r, x)
  BY PushRing
<1>2. PICK second \in Rings : second = Push(first, 0)
  BY PushRing
<1>3. PICK a \in Int, b \in Int : a = Out(first, taps) /\ b = Out(second, taps)
  BY OutIsSample
<1> QED
  BY <1>1, <1>2, <1>3 DEF Up

LEMMA DownKeepsTypes ==
  ASSUME NEW r \in Rings, NEW a \in Int, NEW b \in Int, NEW taps \in Filters
  PROVE  LET down == Down(r, <<a, b>>, taps) IN down.ring \in Rings /\ down.y \in Int
<1>1. PICK first \in Rings : first = Push(r, a)
  BY PushRing
<1>2. PICK second \in Rings : second = Push(first, b)
  BY PushRing
<1> QED
  BY <1>1, <1>2, OutIsSample DEF Down

LEMMA InnerKeepsTypes ==
  ASSUME NEW o \in Oversamplers, NEW x \in Int, NEW f \in [Int -> Int]
  PROVE  LET s == Process4xInner(o, x, f)
         IN  /\ s.os \in Oversamplers /\ s.y \in Int
             /\ s.os.factor = o.factor /\ s.os.upA = o.upA /\ s.os.downA = o.downA
<1>1. o.upB \in Rings /\ o.downB \in Rings
  BY DEF Oversamplers
<1>2. PICK up : up = Up(o.upB, x, TapsB)
  OBVIOUS
<1>3. up.ring \in Rings /\ f[up.phases[1]] \in Int /\ f[up.phases[2]] \in Int
  BY <1>1, <1>2, UpKeepsTypes, TapsAreFilters
<1>4. PICK down : down = Down(o.downB, <<f[up.phases[1]], f[up.phases[2]]>>, TapsB)
  OBVIOUS
<1>5. down.ring \in Rings /\ down.y \in Int
  BY <1>1, <1>3, <1>4, DownKeepsTypes, TapsAreFilters
<1>6. PICK left : left = StageB(o, up.ring, down.ring)
  OBVIOUS
<1>7. /\ left \in Oversamplers /\ left.factor = o.factor
      /\ left.upA = o.upA /\ left.downA = o.downA
  BY <1>3, <1>5, <1>6, StageBIs
<1>8. Process4xInner(o, x, f) = [os |-> left, y |-> down.y]
  BY <1>2, <1>4, <1>6 DEF Process4xInner, StageB
<1> QED
  BY <1>5, <1>7, <1>8

LEMMA ProcessKeepsTypes ==
  ASSUME NEW o \in Oversamplers, NEW x \in Int, NEW f \in [Int -> Int]
  PROVE  LET s == ProcessSample(o, x, f)
         IN  s.os \in Oversamplers /\ s.os.factor = o.factor /\ s.y \in Int
<1>1. CASE o.factor = 1
  BY <1>1 DEF ProcessSample
<1>2. o.upA \in Rings /\ o.downA \in Rings
  BY DEF Oversamplers
<1>3. PICK up : up = Up(o.upA, x, TapsA)
  OBVIOUS
<1>4. /\ up.ring \in Rings /\ up.phases[1] \in Int /\ up.phases[2] \in Int
      /\ f[up.phases[1]] \in Int /\ f[up.phases[2]] \in Int
  BY <1>2, <1>3, UpKeepsTypes, TapsAreFilters
<1>5. CASE o.factor = 2
  <2>1. PICK down : down = Down(o.downA, <<f[up.phases[1]], f[up.phases[2]]>>, TapsA)
    OBVIOUS
  <2>2. down.ring \in Rings /\ down.y \in Int
    BY <1>2, <1>4, <2>1, DownKeepsTypes, TapsAreFilters
  <2>3. PICK left : left = StageA(o, up.ring, down.ring)
    OBVIOUS
  <2>4. left \in Oversamplers /\ left.factor = o.factor
    BY <1>4, <2>2, <2>3, StageAIs
  <2>5. ProcessSample(o, x, f) = [os |-> left, y |-> down.y]
    BY <1>3, <1>5, <2>1, <2>3 DEF ProcessSample, StageA
  <2> QED
    BY <2>2, <2>4, <2>5
<1>6. CASE o.factor = 4
  <2>1. PICK first : first = Process4xInner(o, up.phases[1], f)
    OBVIOUS
  <2>2. first.os \in Oversamplers /\ first.y \in Int /\ first.os.factor = o.factor
    BY <1>4, <2>1, InnerKeepsTypes
  <2>3. PICK second : second = Process4xInner(first.os, up.phases[2], f)
    OBVIOUS
  <2>4. second.os \in Oversamplers /\ second.y \in Int /\ second.os.factor = o.factor
    BY <1>4, <2>2, <2>3, InnerKeepsTypes
  <2>5. PICK down : down = Down(o.downA, <<first.y, second.y>>, TapsA)
    OBVIOUS
  <2>6. down.ring \in Rings /\ down.y \in Int
    BY <1>2, <2>2, <2>4, <2>5, DownKeepsTypes, TapsAreFilters
  <2>7. PICK left : left = StageA(second.os, up.ring, down.ring)
    OBVIOUS
  <2>8. left \in Oversamplers /\ left.factor = o.factor
    BY <1>4, <2>4, <2>6, <2>7, StageAIs
  <2>9. ProcessSample(o, x, f) = [os |-> left, y |-> down.y]
    BY <1>3, <1>6, <2>1, <2>3, <2>5, <2>7 DEF ProcessSample, StageA
  <2> QED
    BY <2>6, <2>8, <2>9
<1> QED
  BY <1>1, <1>5, <1>6 DEF Oversamplers

LEMMA TwoThenTwo ==
  ASSUME NEW a \in Int, NEW b \in Int, NEW c \in Int, NEW d \in Int
  PROVE  <<a, b>> \o <<c, d>> = <<a, b, c, d>>
<1>1. PICK s : s = <<a, b>> \o <<c, d>>
  OBVIOUS
<1>2. s \in Seq(Int) /\ Len(s) = 4 /\ s[1] = a /\ s[2] = b /\ s[3] = c /\ s[4] = d
  BY <1>1
<1>3. s = <<s[1], s[2], s[3], s[4]>>
  BY <1>2
<1> QED
  BY <1>1, <1>2, <1>3, Zenon

LEMMA Halves ==
  ASSUME NEW a \in Int, NEW b \in Int, NEW c \in Int, NEW d \in Int
  PROVE  /\ SubSeq(<<a, b, c, d>>, 1, 2) = <<a, b>>
         /\ SubSeq(<<a, b, c, d>>, 3, 4) = <<c, d>>
<1>1. PICK q : q = <<a, b, c, d>>
  OBVIOUS
<1>2. q \in Seq(Int) /\ Len(q) = 4 /\ q[1] = a /\ q[2] = b /\ q[3] = c /\ q[4] = d
  BY <1>1
<1>3. PICK s, t : s = SubSeq(q, 1, 2) /\ t = SubSeq(q, 3, 4)
  OBVIOUS
<1>4. s \in Seq(Int) /\ Len(s) = 2 /\ s[1] = q[1] /\ s[2] = q[2]
  BY <1>2, <1>3, SubSeqProperties
<1>5. t \in Seq(Int) /\ Len(t) = 2 /\ t[1] = q[3] /\ t[2] = q[4]
  BY <1>2, <1>3, SubSeqProperties
<1>6. \A z \in Seq(Int) : Len(z) = 2 => z = <<z[1], z[2]>>
  OBVIOUS
<1>7. s = <<a, b>> /\ t = <<c, d>>
  BY <1>2, <1>4, <1>5, <1>6, Zenon
<1> QED
  BY <1>1, <1>3, <1>7

\* All phases up, each processed, and all of them down again is processSample, with
\* the filters left alike.
LEMMA SplitIsProcess ==
  ASSUME NEW o \in Oversamplers, NEW x \in Int, NEW f \in [Int -> Int]
  PROVE  LET up    == UpsampleSample(o, x)
             split == DownsampleSample(up.os, [k \in DOMAIN up.phases |-> f[up.phases[k]]])
         IN  split = ProcessSample(o, x, f)
<1>1. CASE o.factor = 1
  <2>1. UpsampleSample(o, x) = [os |-> o, phases |-> <<x>>]
    BY <1>1 DEF UpsampleSample
  <2>2. [k \in DOMAIN <<x>> |-> f[<<x>>[k]]] = <<f[x]>>
    OBVIOUS
  <2>3. DownsampleSample(o, <<f[x]>>) = [os |-> o, y |-> f[x]]
    BY <1>1 DEF DownsampleSample
  <2>4. ProcessSample(o, x, f) = [os |-> o, y |-> f[x]]
    BY <1>1 DEF ProcessSample
  <2> QED
    BY <2>1, <2>2, <2>3, <2>4
<1>2. o.upA \in Rings /\ o.upB \in Rings
  BY DEF Oversamplers
<1>3. PICK a : a = Up(o.upA, x, TapsA)
  OBVIOUS
<1>4. PICK a1 \in Int, a2 \in Int :
        a1 = a.phases[1] /\ a2 = a.phases[2] /\ a.phases = <<a1, a2>>
  BY <1>2, <1>3, UpKeepsTypes, TapsAreFilters DEF Up
<1>6. CASE o.factor = 2
  <2>1. PICK up : up = [o EXCEPT !.upA = a.ring]
    OBVIOUS
  <2>2. UpsampleSample(o, x) = [os |-> up, phases |-> <<a1, a2>>]
    BY <1>3, <1>4, <1>6, <2>1 DEF UpsampleSample
  <2>3. [k \in DOMAIN <<a1, a2>> |-> f[<<a1, a2>>[k]]] = <<f[a1], f[a2]>>
    OBVIOUS
  <2>4. PICK d : d = Down(o.downA, <<f[a1], f[a2]>>, TapsA)
    OBVIOUS
  <2>5. up.factor = 2 /\ up.downA = o.downA
    BY <1>6, <2>1 DEF Oversamplers
  <2>6. DownsampleSample(up, <<f[a1], f[a2]>>)
          = [os |-> [up EXCEPT !.downA = d.ring], y |-> d.y]
    BY <2>4, <2>5 DEF DownsampleSample
  <2>7. ProcessSample(o, x, f)
          = [os |-> [o EXCEPT !.upA = a.ring, !.downA = d.ring], y |-> d.y]
    BY <1>3, <1>4, <1>6, <2>4 DEF ProcessSample
  <2> QED
    BY <2>1, <2>2, <2>3, <2>6, <2>7
<1>7. CASE o.factor = 4
  <2>0. o.factor = 4 /\ o.factor # 1 /\ o.factor # 2
    BY <1>7
  <2>1. PICK b0 : b0 = Up(o.upB, a1, TapsB)
    OBVIOUS
  <2>2. PICK b1 : b1 = Up(b0.ring, a2, TapsB)
    OBVIOUS
  <2>3. b0.ring \in Rings
    BY <1>2, <2>1, UpKeepsTypes, TapsAreFilters
  <2>4. PICK p1 \in Int, p2 \in Int : b0.phases = <<p1, p2>>
    BY <1>2, <2>1, UpKeepsTypes, TapsAreFilters DEF Up
  <2>5. PICK p3 \in Int, p4 \in Int : b1.phases = <<p3, p4>>
    BY <2>3, <2>2, UpKeepsTypes, TapsAreFilters DEF Up
  <2>6. b0.phases \o b1.phases = <<p1, p2, p3, p4>>
    BY <2>4, <2>5, TwoThenTwo
  <2>7. PICK up : up = [o EXCEPT !.upA = a.ring, !.upB = b1.ring]
    OBVIOUS
  <2>8. UpsampleSample(o, x) = [os |-> up, phases |-> <<p1, p2, p3, p4>>]
    BY <1>3, <1>4, <2>0, <2>1, <2>2, <2>6, <2>7, Zenon DEF UpsampleSample
  <2>9. PICK q1 \in Int, q2 \in Int, q3 \in Int, q4 \in Int :
         q1 = f[p1] /\ q2 = f[p2] /\ q3 = f[p3] /\ q4 = f[p4]
    OBVIOUS
  <2>10. [k \in DOMAIN <<p1, p2, p3, p4>> |-> f[<<p1, p2, p3, p4>>[k]]] = <<q1, q2, q3, q4>>
    BY <2>9
  <2>11. /\ SubSeq(<<q1, q2, q3, q4>>, 1, 2) = <<q1, q2>>
         /\ SubSeq(<<q1, q2, q3, q4>>, 3, 4) = <<q3, q4>>
    BY Halves
  <2>12. PICK d0 : d0 = Down(o.downB, <<q1, q2>>, TapsB)
    OBVIOUS
  <2>13. PICK d1 : d1 = Down(d0.ring, <<q3, q4>>, TapsB)
    OBVIOUS
  <2>14. PICK d : d = Down(o.downA, <<d0.y, d1.y>>, TapsA)
    OBVIOUS
  <2>15. /\ up.factor # 1 /\ up.factor # 2 /\ up.factor = 4
         /\ up.downA = o.downA /\ up.downB = o.downB
    BY <1>7, <2>7 DEF Oversamplers
  <2>16. DownsampleSample(up, <<q1, q2, q3, q4>>)
          = [os |-> [up EXCEPT !.downA = d.ring, !.downB = d1.ring], y |-> d.y]
    BY <2>11, <2>12, <2>13, <2>14, <2>15, Zenon DEF DownsampleSample
  <2>17. PICK first : first = [o EXCEPT !.upB = b0.ring, !.downB = d0.ring]
    OBVIOUS
  <2>18. Process4xInner(o, a1, f) = [os |-> first, y |-> d0.y]
    BY <2>1, <2>4, <2>9, <2>12, <2>17 DEF Process4xInner
  <2>19. PICK second : second = [first EXCEPT !.upB = b1.ring, !.downB = d1.ring]
    OBVIOUS
  <2>20. first.upB = b0.ring /\ first.downB = d0.ring
    BY <2>17 DEF Oversamplers
  <2>21. Process4xInner(first, a2, f) = [os |-> second, y |-> d1.y]
    <3>1. b1.phases[1] = p3 /\ b1.phases[2] = p4
      BY <2>5
    <3> QED
      BY <2>2, <3>1, <2>9, <2>13, <2>19, <2>20, Zenon DEF Process4xInner
  <2>22. ProcessSample(o, x, f)
          = [os |-> [second EXCEPT !.upA = a.ring, !.downA = d.ring], y |-> d.y]
    <3>1. PICK i1 : i1 = Process4xInner(o, a.phases[1], f)
      OBVIOUS
    <3>2. i1.os = first /\ i1.y = d0.y
      BY <1>4, <2>18, <3>1
    <3>3. PICK i2 : i2 = Process4xInner(i1.os, a.phases[2], f)
      OBVIOUS
    <3>4. i2.os = second /\ i2.y = d1.y
      BY <1>4, <2>21, <3>2, <3>3
    <3>5. d = Down(o.downA, <<i1.y, i2.y>>, TapsA)
      BY <2>14, <3>2, <3>4
    <3>6. ProcessSample(o, x, f)
            = [os |-> [i2.os EXCEPT !.upA = a.ring, !.downA = d.ring], y |-> d.y]
      BY <1>3, <2>0, <3>1, <3>3, <3>5 DEF ProcessSample
    <3> QED
      BY <3>4, <3>6
  <2>23. [second EXCEPT !.upA = a.ring, !.downA = d.ring]
           = [up EXCEPT !.downA = d.ring, !.downB = d1.ring]
    BY <2>7, <2>17, <2>19 DEF Oversamplers
  <2> QED
    BY <2>8, <2>10, <2>16, <2>22, <2>23
<1> QED
  BY <1>1, <1>6, <1>7 DEF Oversamplers

-----------------------------------------------------------------------------
(* The shape of a block under way. *)

\* Frames, at any scale.
Frame2 == Int \X Int

Processing == {"pre", "run", "post", "mix"}

\* Types, and how far done, offset and pushes may be at each of the stages.
Shape ==
  /\ taken \in 0..Len(Stream)
  /\ bypass \in BOOLEAN /\ power \in Int /\ powerBefore \in Int
  /\ os \in [1..2 -> Oversamplers] /\ os[1].factor = os[2].factor
  /\ audio \in Seq(Frame2) /\ bufs \in Seq(Frame2) /\ wet \in Seq(Frame2)
  /\ done \in Nat /\ offset \in Nat /\ pushes \in Nat
  /\ clipped \in Int /\ clip_count \in Int
  /\ pc \in {"idle", "convert", "input", "out"} \cup Processing
  /\ pc # "idle" =>
       /\ Len(audio) \in Blocks /\ taken + Len(audio) <= Len(Stream)
       /\ done < Len(audio)
  /\ pc \notin {"idle", "convert"} => Len(bufs) > 0 /\ done + Len(bufs) <= Len(audio)
  /\ pc = "input" => offset < Len(bufs)
  /\ pc \in Processing => offset + Len(wet) <= Len(bufs) /\ pushes < Len(wet)
  /\ pc = "out" => offset = Len(bufs)

LEMMA FunctionIsSeq ==
  ASSUME NEW S, NEW n \in Nat, NEW f \in [1..n -> S]
  PROVE  f \in Seq(S) /\ Len(f) = n
OBVIOUS

LEMMA StreamIsFrames ==
  /\ Stream \in Seq(Frame2) /\ Len(Stream) \in Nat
  /\ \A k \in 1..Len(Stream) : Stream[k] \in Int16 \X Int16 /\ Stream[k] \in Frame2
<1>1. Int16 \subseteq Int
  BY ScaleAssumption DEF Int16
<1>2. Stream \in Seq(Int16 \X Int16)
  BY SignalAssumption
<1>3. \A k \in 1..Len(Stream) : Stream[k] \in Int16 \X Int16
  BY <1>2, ElementOfSeq
<1>4. Int16 \X Int16 \subseteq Frame2
  BY <1>1 DEF Frame2
<1>5. Stream \in Seq(Frame2)
  BY <1>2, <1>4, SeqMonotonic
<1> QED
  BY <1>2, <1>3, <1>4, <1>5

LEMMA OverloadIsMap == \A f \in {1, 2, 4} : Overload(f) \in [Int -> Int]
<1> SUFFICES ASSUME NEW f \in {1, 2, 4} PROVE Overload(f) \in [Int -> Int]
  OBVIOUS
<1>1. PICK t \in Int : t = Stages(f)
  BY SignalAssumption DEF Stages
<1>2. PICK rail \in Int : rail = Rail * Unit * Stages(f)
  BY <1>1, SignalAssumption, ScaleAssumption
<1>3. -rail \in Int
  OBVIOUS
<1>4. Overload(f) = [x \in Int |-> IF x > rail THEN rail ELSE IF x < -rail THEN -rail ELSE x]
  BY <1>2, Zenon DEF Overload
<1> QED
  BY <1>3, <1>4

\* What the recursion of Run computes.
Run1(P, n, o, w, c) ==
  /\ P \in [0..n -> [os : Oversamplers, y : Int]]
  /\ P[0] = [os |-> o, y |-> 0]
  /\ \A i \in 1..n :
       /\ P[i] = ProcessSample(P[i - 1].os, w[i][c], Overload(o.factor))
       /\ P[i].os.factor = o.factor /\ P[i - 1].os.factor = o.factor

\* Run's recursive function is that computation.
LEMMA ProcessedIs ==
  ASSUME os \in [1..2 -> Oversamplers], wet \in Seq(Frame2), NEW c \in 1..2
  PROVE  Run1(Processed(c), Len(wet), os[c], wet, c)
<1> DEFINE n == Len(wet)
           f == Overload(os[c].factor)
           T == {s \in [os : Oversamplers, y : Int] : s.os.factor = os[c].factor}
           base == [os |-> os[c], y |-> 0]
<1>1. n \in Nat /\ os[c] \in Oversamplers /\ f \in [Int -> Int]
  <2>1. os[c].factor \in {1, 2, 4} /\ os[c] \in Oversamplers
    BY DEF Oversamplers
  <2>2. n \in Nat
    OBVIOUS
  <2>3. f \in [Int -> Int]
    BY <2>1, OverloadIsMap
  <2> QED
    BY <2>1, <2>2, <2>3
<1>2. \A i \in 1..n : wet[i][c] \in Int
  <2> SUFFICES ASSUME NEW i \in 1..n PROVE wet[i][c] \in Int
    OBVIOUS
  <2>1. wet[i] \in Int \X Int
    BY DEF Frame2
  <2> QED
    BY <2>1
<1> HIDE DEF n, f
<1>3. base \in T
  BY <1>1
<1>4. ASSUME NEW s \in T, NEW i \in 1..n
      PROVE  ProcessSample(s.os, wet[i][c], f) \in T
  <2>1. s.os \in Oversamplers /\ s.os.factor = os[c].factor
    OBVIOUS
  <2>2. PICK p : p = ProcessSample(s.os, wet[i][c], f)
    OBVIOUS
  <2>3. p.os \in Oversamplers /\ p.os.factor = os[c].factor /\ p.y \in Int
    BY <1>1, <1>2, <2>1, <2>2, ProcessKeepsTypes
  <2>4. p = [os |-> p.os, y |-> p.y]
    BY <2>2 DEF ProcessSample
  <2> QED
    BY <2>2, <2>3, <2>4
<1> HIDE DEF T, base
<1>5. PICK g : g = [i \in 1..n |-> [s \in T |-> ProcessSample(s.os, wet[i][c], f)]]
  OBVIOUS
<1>6. \A i \in 1..n, s \in T : g[i][s] = ProcessSample(s.os, wet[i][c], f)
  BY <1>5
<1>7. Steps(g, n, T)
  BY <1>4, <1>6 DEF Steps
<1>8. PICK P : Recurs(P, base, g, n, T)
  BY <1>1, <1>3, <1>7, Recursion
<1>9. /\ P \in [0..n -> T] /\ P[0] = base
      /\ \A i \in 1..n : P[i] = ProcessSample(P[i - 1].os, wet[i][c], f)
  <2>1. P \in [0..n -> T] /\ P[0] = base /\ \A i \in 1..n : P[i] = g[i][P[i - 1]]
    BY <1>8 DEF Recurs
  <2>2. ASSUME NEW i \in 1..n PROVE P[i - 1] \in T
    <3>1. i - 1 \in 0..n
      BY <1>1
    <3> QED
      BY <2>1, <3>1
  <2> QED
    BY <1>6, <2>1, <2>2
<1>10. P = [i \in 0..n |-> IF i = 0 THEN base
                           ELSE ProcessSample(P[i - 1].os, wet[i][c], f)]
  <2>1. \A i \in 0..n : P[i] = IF i = 0 THEN base
                               ELSE ProcessSample(P[i - 1].os, wet[i][c], f)
    BY <1>9
  <2> QED
    BY <1>9, <2>1
<1> DEFINE Q == CHOOSE Q : Q = [i \in 0..n |-> IF i = 0 THEN base
                                               ELSE ProcessSample(Q[i - 1].os, wet[i][c], f)]
<1>11. Processed(c) = Q
  BY Zenon DEF Processed, n, f, base
<1>12. Q = [i \in 0..n |-> IF i = 0 THEN base
                           ELSE ProcessSample(Q[i - 1].os, wet[i][c], f)]
  BY <1>10
<1> HIDE DEF Q
<1>13. Q[0] = base /\ \A i \in 1..n : Q[i] = ProcessSample(Q[i - 1].os, wet[i][c], f)
  <2>1. \A i \in 0..n : Q[i] = IF i = 0 THEN base
                               ELSE ProcessSample(Q[i - 1].os, wet[i][c], f)
    BY <1>12, Zenon
  <2>2. 0 \in 0..n /\ \A i \in 1..n : i \in 0..n /\ i # 0
    BY <1>1
  <2> QED
    BY <2>1, <2>2, Zenon
<1> DEFINE S == {i \in 0..n : Q[i] = P[i]}
<1>14. 0..n \subseteq S
  <2>1. 0 \in S
    <3>1. 0 \in 0..n /\ Q[0] = base /\ P[0] = base
      BY <1>1, <1>9, <1>13
    <3> QED
      BY <3>1
  <2>2. \A i \in 1..n : i - 1 \in S => i \in S
    BY <1>9, <1>13
  <2> HIDE DEF S
  <2> QED
    BY <1>1, <2>1, <2>2, InductionUpTo
<1>15. Q = P
  BY <1>9, <1>12, <1>14
<1>16. ASSUME NEW i \in 0..n
       PROVE  P[i] \in [os : Oversamplers, y : Int] /\ P[i].os.factor = os[c].factor
  BY <1>9 DEF T
<1>17. P \in [0..n -> [os : Oversamplers, y : Int]]
  BY <1>9, <1>16
<1> QED
  BY <1>9, <1>11, <1>15, <1>16, <1>17 DEF Run1, base, n, f

-----------------------------------------------------------------------------
(* The crossfade. *)

\* n samples of the crossfade from p toward t.
Glide(p, t, n) ==
  LET at[i \in 0..n] == IF i = 0 THEN p ELSE NextPower(at[i - 1], t) IN at

\* The crossfade of a chunk and that of the promise are both glides.
LEMMA FadesAreGlides ==
  \A n : /\ Fade(n) = Glide(power, BypassTarget, n)
         /\ Promise!Fade(n)
              = Glide(IF pc = "idle" THEN power ELSE powerBefore, BypassTarget, n)
<1> SUFFICES ASSUME NEW n
             PROVE  /\ Fade(n) = Glide(power, BypassTarget, n)
                    /\ Promise!Fade(n)
                         = Glide(IF pc = "idle" THEN power ELSE powerBefore, BypassTarget, n)
  OBVIOUS
<1>1. Fade(n) = Glide(power, BypassTarget, n)
  BY Zenon DEF Fade, Glide
<1>2. Promise!Fade(n) = Glide(IF pc = "idle" THEN power ELSE powerBefore, BypassTarget, n)
  BY Zenon DEF Promise!Fade, Glide, BypassTarget, NextPower, Promise!NextPower
<1> QED
  BY <1>1, <1>2

LEMMA NextPowerIsInt == \A p, t \in Int : NextPower(p, t) \in Int
<1> SUFFICES ASSUME NEW p \in Int, NEW t \in Int PROVE NextPower(p, t) \in Int
  OBVIOUS
<1>1. PICK a \in Int, b \in Int : a = p - t /\ b = t - p
  OBVIOUS
<1>2. a \div 2 \in Int /\ b \div 2 \in Int
  OBVIOUS
<1> QED
  BY <1>1, <1>2 DEF NextPower

LEMMA GlideIs ==
  ASSUME NEW p \in Int, NEW t \in Int, NEW n \in Nat
  PROVE  /\ Glide(p, t, n) \in [0..n -> Int] /\ Glide(p, t, n)[0] = p
         /\ \A i \in 1..n : Glide(p, t, n)[i] = NextPower(Glide(p, t, n)[i - 1], t)
<1>1. PICK g : g = [i \in 1..n |-> [v \in Int |-> NextPower(v, t)]]
  OBVIOUS
<1>2. \A i \in 1..n, v \in Int : g[i][v] = NextPower(v, t) /\ g[i][v] \in Int
  BY <1>1, NextPowerIsInt
<1>3. Steps(g, n, Int)
  BY <1>2 DEF Steps
<1>4. PICK f : Recurs(f, p, g, n, Int)
  BY <1>3, Recursion
<1>5. f \in [0..n -> Int] /\ f[0] = p /\ \A i \in 1..n : f[i] = NextPower(f[i - 1], t)
  <2>1. f \in [0..n -> Int] /\ f[0] = p /\ \A i \in 1..n : f[i] = g[i][f[i - 1]]
    BY <1>4 DEF Recurs
  <2>2. ASSUME NEW i \in 1..n PROVE f[i - 1] \in Int
    BY <2>1
  <2> QED
    BY <1>2, <2>1, <2>2
<1>6. f = [i \in 0..n |-> IF i = 0 THEN p ELSE NextPower(f[i - 1], t)]
  <2>1. \A i \in 0..n : f[i] = IF i = 0 THEN p ELSE NextPower(f[i - 1], t)
    BY <1>5
  <2> QED
    BY <1>5, <2>1
<1>7. PICK h : h = Glide(p, t, n)
  OBVIOUS
<1>8. h = [i \in 0..n |-> IF i = 0 THEN p ELSE NextPower(h[i - 1], t)]
  BY <1>6, <1>7 DEF Glide
<1>9. h[0] = p /\ \A i \in 1..n : h[i] = NextPower(h[i - 1], t)
  <2>1. \A i \in 0..n : h[i] = IF i = 0 THEN p ELSE NextPower(h[i - 1], t)
    BY <1>8, Zenon
  <2>2. 0 \in 0..n /\ \A i \in 1..n : i \in 0..n /\ i # 0
    OBVIOUS
  <2> QED
    BY <2>1, <2>2, Zenon
<1> DEFINE S == {i \in 0..n : h[i] = f[i]}
<1>10. 0..n \subseteq S
  <2>1. 0 \in S
    <3>1. 0 \in 0..n /\ h[0] = p /\ f[0] = p
      BY <1>5, <1>9
    <3> QED
      BY <3>1
  <2>2. \A i \in 1..n : i - 1 \in S => i \in S
    BY <1>5, <1>9
  <2> HIDE DEF S
  <2> QED
    BY <2>1, <2>2, InductionUpTo
<1>11. h = f
  BY <1>5, <1>8, <1>10
<1> QED
  BY <1>5, <1>7, <1>11

-----------------------------------------------------------------------------
(* Every step keeps the shape. *)

LEMMA OutsAreInts == \A y \in Int : ToInt16(y) \in Int /\ ToFloat(y) \in Int
<1> SUFFICES ASSUME NEW y \in Int PROVE ToInt16(y) \in Int /\ ToFloat(y) \in Int
  OBVIOUS
<1>1. PICK u \in Nat \ {0} : u = Unit
  BY ScaleAssumption
<1>2. Top \in Int /\ Bottom \in Int
  BY ScaleAssumption DEF Top, Bottom
<1>3. \A v \in Int : Truncate(v) \in Int
  <2> SUFFICES ASSUME NEW v \in Int PROVE Truncate(v) \in Int
    OBVIOUS
  <2>1. PICK w \in Int : w = -v
    OBVIOUS
  <2>2. v \div u \in Int /\ w \div u \in Int
    BY <1>1, Division
  <2> QED
    BY <1>1, <2>1, <2>2 DEF Truncate
<1>4. ToInt16(y) \in Int
  <2>1. PICK z \in Int : z = IF OutScale(y) > Top THEN Top
                            ELSE IF OutScale(y) < Bottom THEN Bottom ELSE OutScale(y)
    BY <1>2 DEF OutScale
  <2>2. ToInt16(y) = Truncate(z)
    BY <2>1 DEF ToInt16
  <2> QED
    BY <1>3, <2>1, <2>2
<1>5. ToFloat(y) \in Int
  BY <1>1 DEF ToFloat
<1> QED
  BY <1>4, <1>5

LEMMA ShapeInit == Init => Shape
<1> SUFFICES ASSUME Init PROVE Shape
  OBVIOUS
<1>1. PICK f \in {1, 2, 4} : os = [c \in 1..2 |-> FreshOversampler(f)]
  BY DEF Init
<1>2. os \in [1..2 -> Oversamplers] /\ os[1].factor = os[2].factor
  BY <1>1, FreshIsOversampler
<1>3. BypassTarget \in Int
  BY SignalAssumption DEF BypassTarget
<1> QED
  BY <1>2, <1>3, StreamIsFrames DEF Init, Shape, Processing

LEMMA ShapeBegin == Shape /\ (\E frames \in Blocks : Begin(frames)) => Shape'
<1> SUFFICES ASSUME Shape, NEW frames \in Blocks, Begin(frames) PROVE Shape'
  OBVIOUS
<1>1. frames \in Nat \ {0}
  BY BlockAssumption
<1>2. audio' \in Seq(Frame2) /\ Len(audio') = frames
  <2>1. PICK a \in Int, b \in Int : a = taken + 1 /\ b = taken + frames
    BY <1>1, StreamIsFrames DEF Shape
  <2>2. \A i \in a..b : Stream[i] \in Frame2
    <3>1. taken \in Nat /\ Len(Stream) \in Nat /\ taken + frames <= Len(Stream)
      BY StreamIsFrames DEF Shape, Begin
    <3>2. \A i \in a..b : i \in 1..Len(Stream)
      BY <1>1, <2>1, <3>1
    <3> QED
      BY <3>2, StreamIsFrames
  <2>3. audio' = SubSeq(Stream, a, b)
    BY <2>1 DEF Begin
  <2>4. /\ SubSeq(Stream, a, b) \in Seq(Frame2)
        /\ Len(SubSeq(Stream, a, b)) = IF a <= b THEN b - a + 1 ELSE 0
    BY <2>2, SubSeqProperties
  <2>5. taken \in Int
    BY StreamIsFrames DEF Shape
  <2> QED
    BY <1>1, <2>1, <2>3, <2>4, <2>5
<1> QED
  BY <1>1, <1>2 DEF Begin, Shape, Processing

LEMMA ShapeConvertIn == Shape /\ ConvertIn => Shape'
<1> SUFFICES ASSUME Shape, ConvertIn PROVE Shape'
  OBVIOUS
<1>1. PICK n : n = Lesser(Len(audio) - done, Frames)
  OBVIOUS
<1>2. n \in Nat /\ n > 0 /\ done + n <= Len(audio)
  BY <1>1, BlockAssumption DEF Shape, ConvertIn, Lesser
<1>3. bufs' \in [1..n -> Frame2]
  <2>1. ASSUME NEW i \in 1..n
        PROVE  <<ToFloat(audio[done + i][1]), ToFloat(audio[done + i][2])>> \in Frame2
    <3>1. done + i \in 1..Len(audio)
      BY <1>2 DEF Shape
    <3>2. audio[done + i] \in Int \X Int
      BY <3>1 DEF Shape, Frame2
    <3>3. PICK a \in Int, b \in Int : a = audio[done + i][1] /\ b = audio[done + i][2]
      BY <3>2
    <3> QED
      BY <3>3, OutsAreInts DEF Frame2
  <2>2. bufs' = [i \in 1..n |-> <<ToFloat(audio[done + i][1]), ToFloat(audio[done + i][2])>>]
    BY <1>1 DEF ConvertIn
  <2> QED
    BY <2>1, <2>2
<1>4. bufs' \in Seq(Frame2) /\ Len(bufs') = n
  BY <1>2, <1>3, FunctionIsSeq
<1> QED
  BY <1>2, <1>4 DEF ConvertIn, Shape, Processing

LEMMA ShapeInput == Shape /\ Input => Shape'
<1> SUFFICES ASSUME Shape, Input PROVE Shape'
  OBVIOUS
<1>1. PICK n : n = Lesser(Len(bufs) - offset, MaxBlock)
  OBVIOUS
<1>2. n \in Nat /\ n > 0 /\ offset + n <= Len(bufs)
  BY <1>1, BlockAssumption DEF Shape, Input, Lesser
<1>3. wet' \in [1..n -> Frame2]
  <2>1. ASSUME NEW i \in 1..n
        PROVE  <<Gain * bufs[offset + i][1], Gain * bufs[offset + i][2]>> \in Frame2
    <3>1. offset + i \in 1..Len(bufs)
      BY <1>2 DEF Shape
    <3>2. bufs[offset + i] \in Int \X Int
      BY <3>1 DEF Shape, Frame2
    <3>3. PICK a \in Int, b \in Int : a = bufs[offset + i][1] /\ b = bufs[offset + i][2]
      BY <3>2
    <3>4. Gain * a \in Int /\ Gain * b \in Int
      BY SignalAssumption
    <3> QED
      BY <3>3, <3>4 DEF Frame2
  <2>2. wet' = [i \in 1..n |-> <<Gain * bufs[offset + i][1], Gain * bufs[offset + i][2]>>]
    BY <1>1 DEF Input
  <2> QED
    BY <2>1, <2>2
<1>4. wet' \in Seq(Frame2) /\ Len(wet') = n
  BY <1>2, <1>3, FunctionIsSeq
<1> QED
  BY <1>2, <1>4 DEF Input, Shape, Processing

LEMMA ShapePush ==
  ASSUME Shape, pc \in Processing, NEW next \in {"run", "mix"}, Pushed(next)
  PROVE  Shape'
BY DEF Pushed, Shape, Processing

LEMMA ShapeTap == Shape /\ (PreTap \/ PostTap) => Shape'
<1> SUFFICES ASSUME Shape, PreTap \/ PostTap PROVE Shape'
  OBVIOUS
<1>1. CASE UNCHANGED blockVars
  BY <1>1 DEF blockVars, Shape
<1>2. CASE pc = "pre" /\ Pushed("run")
  BY <1>2, ShapePush DEF Processing
<1>3. CASE pc = "post" /\ Pushed("mix")
  BY <1>3, ShapePush DEF Processing
<1> QED
  BY <1>1, <1>2, <1>3 DEF PreTap, PostTap

LEMMA RescaledIsInt == \A y \in Int, f \in {1, 2, 4} : Rescaled(y, f) \in Int
<1> SUFFICES ASSUME NEW y \in Int, NEW f \in {1, 2, 4} PROVE Rescaled(y, f) \in Int
  OBVIOUS
<1>1. PICK t \in Nat \ {0} : t = Stages(f)
  <2>1. TapUnit * TapUnit \in Nat \ {0}
    BY SignalAssumption
  <2> QED
    BY <2>1, SignalAssumption DEF Stages
<1>2. t * t \in Nat \ {0}
  OBVIOUS
<1>3. y \div (t * t) \in Int
  BY <1>2, Division
<1> QED
  BY <1>1, <1>3 DEF Rescaled

LEMMA ShapeRun == Shape /\ Run => Shape'
<1> SUFFICES ASSUME Shape, Run PROVE Shape'
  OBVIOUS
<1>1. PICK P1, P2 : P1 = Processed(1) /\ P2 = Processed(2)
  OBVIOUS
<1>2. Run1(P1, Len(wet), os[1], wet, 1) /\ Run1(P2, Len(wet), os[2], wet, 2)
  BY <1>1, ProcessedIs DEF Shape
<1>3. PICK n \in Nat \ {0} : n = Len(wet)
  BY DEF Shape, Run, Processing
<1>4. os' = [c \in 1..2 |-> IF c = 1 THEN P1[n].os ELSE P2[n].os]
  BY <1>1, <1>3 DEF Run
<1>5. /\ P1[n].os \in Oversamplers /\ P1[n].os.factor = os[1].factor
      /\ P2[n].os \in Oversamplers /\ P2[n].os.factor = os[2].factor
  BY <1>2, <1>3 DEF Run1
<1>6. os' \in [1..2 -> Oversamplers] /\ os'[1].factor = os'[2].factor
  BY <1>4, <1>5 DEF Shape
<1>7. wet' \in [1..n -> Frame2]
  <2>1. ASSUME NEW i \in 1..n
        PROVE  <<Rescaled(P1[i].y, os[1].factor), Rescaled(P2[i].y, os[2].factor)>> \in Frame2
    <3>1. P1[i].y \in Int /\ P2[i].y \in Int
      BY <1>2, <1>3 DEF Run1
    <3>2. os[1].factor \in {1, 2, 4} /\ os[2].factor \in {1, 2, 4}
      BY DEF Shape, Oversamplers
    <3> QED
      BY <3>1, <3>2, RescaledIsInt DEF Frame2
  <2>2. wet' = [i \in 1..n |-> <<Rescaled(P1[i].y, os[1].factor),
                                Rescaled(P2[i].y, os[2].factor)>>]
    BY <1>1, <1>3 DEF Run
  <2> QED
    BY <2>1, <2>2
<1>8. wet' \in Seq(Frame2) /\ Len(wet') = n
  BY <1>7, FunctionIsSeq
<1> QED
  BY <1>3, <1>6, <1>8 DEF Run, Shape, Processing

LEMMA ShapeMix == Shape /\ Mix => Shape'
<1> SUFFICES ASSUME Shape, Mix PROVE Shape'
  OBVIOUS
<1>1. PICK n \in Nat \ {0}, m \in Nat : n = Len(wet) /\ m = Len(bufs)
  BY DEF Shape, Mix, Processing
<1>2. BypassTarget \in Int
  BY SignalAssumption DEF BypassTarget
<1>3. PICK at : at = Fade(n) /\ at \in [0..n -> Int]
  BY <1>1, <1>2, FadesAreGlides, GlideIs DEF Shape
<1>4. ASSUME NEW i \in 1..n, NEW c \in 1..2
      PROVE  LET dry == bufs[offset + i][c]
             IN  dry + (at[i] * (wet[i][c] - dry)) \div PowerMax \in Int
  <2>1. offset + i \in 1..Len(bufs) /\ i \in 1..Len(wet)
    BY <1>1 DEF Shape, Mix, Processing
  <2>2. bufs[offset + i] \in Int \X Int /\ wet[i] \in Int \X Int
    <3>1. bufs \in Seq(Int \X Int) /\ wet \in Seq(Int \X Int)
      BY DEF Shape, Frame2
    <3>2. \A s \in Seq(Int \X Int) : \A k \in 1..Len(s) : s[k] \in Int \X Int
      BY ElementOfSeq
    <3> QED
      BY <2>1, <3>1, <3>2, Zenon
  <2>3. PICK d \in Int, w \in Int, a \in Int :
          d = bufs[offset + i][c] /\ w = wet[i][c] /\ a = at[i]
    BY <1>3, <2>2
  <2>4. a * (w - d) \in Int
    OBVIOUS
  <2>5. PICK q \in Int : q = (a * (w - d)) \div PowerMax
    BY <2>4, Division, SignalAssumption
  <2>6. d + q \in Int
    OBVIOUS
  <2> QED
    BY <2>3, <2>5, <2>6
<1> DEFINE mixed(i, c) == LET dry == bufs[offset + i][c]
                          IN  dry + (at[i] * (wet[i][c] - dry)) \div PowerMax
<1>5. /\ bufs' = [k \in 1..m |-> IF k - offset \in 1..n
                                  THEN <<mixed(k - offset, 1), mixed(k - offset, 2)>>
                                  ELSE bufs[k]]
      /\ power' = at[n]
  BY <1>1, <1>3 DEF Mix
<1>6. \A i \in 1..n : mixed(i, 1) \in Int /\ mixed(i, 2) \in Int
  BY <1>4
<1> HIDE DEF mixed
<1>7. bufs' \in [1..m -> Frame2]
  <2>1. \A k \in 1..m : bufs[k] \in Frame2
    BY <1>1 DEF Shape
  <2> QED
    BY <1>5, <1>6, <2>1 DEF Frame2
<1>8. bufs' \in Seq(Frame2) /\ Len(bufs') = m
  BY <1>7, FunctionIsSeq
<1>9. power' \in Int
  BY <1>3, <1>5
<1> QED
  BY <1>1, <1>8, <1>9 DEF Mix, Shape, Processing

\* Samples of a piece can be counted.
LEMMA CountOfSamples ==
  ASSUME NEW n \in Nat, NEW S \in SUBSET ((1..n) \X (1..2))
  PROVE  IsFiniteSet(S) /\ Cardinality(S) \in Nat
<1>1. IsFiniteSet(1..n) /\ IsFiniteSet(1..2)
  <2>1. n \in Int /\ 1 \in Int /\ 2 \in Int
    OBVIOUS
  <2> QED
    BY <2>1, FS_Interval, Zenon
<1>2. IsFiniteSet((1..n) \X (1..2))
  BY <1>1, FS_Product
<1>3. IsFiniteSet(S)
  BY <1>2, FS_Subset
<1> QED
  BY <1>3, FS_CardinalityType

LEMMA ShapeConvertOut == Shape /\ ConvertOut => Shape'
<1> SUFFICES ASSUME Shape, ConvertOut PROVE Shape'
  OBVIOUS
<1>1. PICK m \in Nat, n \in Nat : m = Len(bufs) /\ n = Len(audio)
  BY DEF Shape
<1>2. /\ m > 0 /\ done \in Nat /\ done + m <= n /\ n \in Blocks
      /\ taken \in 0..Len(Stream) /\ taken + n <= Len(Stream)
  BY <1>1 DEF Shape, ConvertOut
<1>3. audio' = [i \in 1..n |->
                 IF i - done \in 1..m
                   THEN <<ToInt16(bufs[i - done][1]), ToInt16(bufs[i - done][2])>>
                   ELSE audio[i]]
  BY <1>1 DEF ConvertOut
<1>4. \A k \in 1..m : <<ToInt16(bufs[k][1]), ToInt16(bufs[k][2])>> \in Frame2
  <2> SUFFICES ASSUME NEW k \in 1..m
               PROVE  <<ToInt16(bufs[k][1]), ToInt16(bufs[k][2])>> \in Frame2
    OBVIOUS
  <2>1. bufs[k] \in Int \X Int
    BY <1>1 DEF Shape, Frame2
  <2>2. PICK a \in Int, b \in Int : a = bufs[k][1] /\ b = bufs[k][2]
    BY <2>1
  <2> QED
    BY <2>2, OutsAreInts DEF Frame2
<1>5. \A k \in 1..n : audio[k] \in Frame2
  BY <1>1 DEF Shape
<1>6. audio' \in [1..n -> Frame2]
  BY <1>3, <1>4, <1>5
<1>7. audio' \in Seq(Frame2) /\ Len(audio') = n
  BY <1>6, FunctionIsSeq
<1>8. PICK S : S = {x \in (1..Len(bufs)) \X (1..2) : Clips(bufs[x[1]][x[2]])}
  OBVIOUS
<1>9. clipped' = clipped + Cardinality(S) /\ Cardinality(S) \in Nat
  BY <1>1, <1>8, CountOfSamples DEF ConvertOut
<1>10. clipped' \in Int /\ (clip_count + clipped') \in Int
  BY <1>9 DEF Shape
<1>11. done' = done + m
  BY <1>1 DEF ConvertOut
<1>12. CASE done' < Len(audio)
  <2>1. pc' = "convert" /\ UNCHANGED <<taken, answer, clip_count>>
    BY <1>12 DEF ConvertOut
  <2>2. /\ Len(audio') \in Blocks /\ taken' + Len(audio') <= Len(Stream)
        /\ done' < Len(audio') /\ done' \in Nat
    BY <1>1, <1>2, <1>7, <1>11, <1>12, <2>1
  <2>3. UNCHANGED <<taken, bypass, power, powerBefore, os, bufs, offset, wet, pushes,
                    clip_count>>
    BY <2>1 DEF ConvertOut
  <2> QED
    BY <1>7, <1>10, <2>1, <2>2, <2>3 DEF Shape, Processing
<1>13. CASE ~(done' < Len(audio))
  <2>1. pc' = "idle" /\ taken' = taken + n /\ clip_count' = clip_count + clipped'
    BY <1>1, <1>13 DEF ConvertOut
  <2>2. taken' \in 0..Len(Stream)
    BY <1>1, <1>2, <2>1, StreamIsFrames
  <2>3. done' \in Nat /\ clip_count' \in Int
    BY <1>2, <1>10, <1>11, <2>1
  <2>4. UNCHANGED <<bypass, power, powerBefore, os, bufs, offset, wet, pushes>>
    BY DEF ConvertOut
  <2>5. pc' = "idle" /\ audio' \in Seq(Frame2) /\ clipped' \in Int
    BY <1>7, <1>10, <2>1
  <2> QED
    BY <2>2, <2>3, <2>4, <2>5 DEF Shape, Processing
<1> QED
  BY <1>12, <1>13

LEMMA ShapeStep == Shape /\ [Next]_vars => Shape'
<1> SUFFICES ASSUME Shape, [Next]_vars PROVE Shape'
  OBVIOUS
<1>1. CASE Toggle
  BY <1>1 DEF Toggle, Shape, Processing
<1>2. CASE EditorPre \/ EditorPost \/ UNCHANGED vars
  <2>1. UNCHANGED blockVars
    BY <1>2 DEF EditorPre, EditorPost, vars
  <2> QED
    BY <2>1 DEF blockVars, Shape, Processing
<1> QED
  BY <1>1, <1>2, ShapeBegin, ShapeConvertIn, ShapeInput, ShapeTap, ShapeRun, ShapeMix,
     ShapeConvertOut DEF Next, Audio

\* The split form of the oversampler is processSample, from wherever the stream has
\* brought its filters: the calibration may run the channels in lockstep.
THEOREM SplitKeepsTheSound == Spec => []SplitIsWhole
<1>1. Shape => SplitIsWhole
  <2> SUFFICES ASSUME Shape, NEW x \in {-Unit, Unit}
               PROVE  LET o     == os[1]
                          up    == UpsampleSample(o, x)
                          split == DownsampleSample(up.os, [k \in DOMAIN up.phases |->
                                            Overload(o.factor)[up.phases[k]]])
                      IN  split = ProcessSample(o, x, Overload(o.factor))
    BY DEF SplitIsWhole
  <2>1. os[1] \in Oversamplers /\ os[1].factor \in {1, 2, 4} /\ x \in Int
    BY ScaleAssumption DEF Shape, Oversamplers
  <2>2. Overload(os[1].factor) \in [Int -> Int]
    BY <2>1, OverloadIsMap
  <2> QED
    BY <2>1, <2>2, SplitIsProcess, Zenon
<1> QED
  BY <1>1, ShapeInit, ShapeStep, PTL DEF Spec

-----------------------------------------------------------------------------
(* A ring that holds a signal answers with its convolution. *)

\* The impulse response around its centre: odd distances are the side taps, even ones
\* zero.
LEMMA TapIs ==
  ASSUME NEW taps \in Filters, NEW C \in Int, C = Centre(taps)
  PROVE  /\ Promise!Tap(taps, C) = taps.half
         /\ \A i \in 1..Len(taps.side) :
              /\ Promise!Tap(taps, C - (2 * i - 1)) = taps.side[i]
              /\ Promise!Tap(taps, C + (2 * i - 1)) = taps.side[i]
              /\ Promise!Tap(taps, C - 2 * i) = 0
              /\ Promise!Tap(taps, C + 2 * i) = 0
<1>1. Len(taps.side) \in Nat /\ C = 2 * Len(taps.side) - 1
  BY DEF Filters, Centre
<1>2. ASSUME NEW d \in Int, NEW off \in Nat, d = C - off \/ d = C + off
      PROVE  Promise!Tap(taps, d) =
               IF off = 0 THEN taps.half
               ELSE IF off % 2 = 1 THEN taps.side[(off + 1) \div 2] ELSE 0
  <2>1. (IF d < C THEN C - d ELSE d - C) = off
    BY <1>2
  <2>2. Promise!Tap(taps, d) =
          LET o == IF d < C THEN C - d ELSE d - C
          IN  IF o = 0 THEN taps.half ELSE IF o % 2 = 1 THEN taps.side[(o + 1) \div 2] ELSE 0
    BY <1>1 DEF Promise!Tap
  <2> QED
    BY <2>1, <2>2, Zenon
<1>3. Promise!Tap(taps, C) = taps.half
  BY <1>2
<1>4. ASSUME NEW i \in 1..Len(taps.side)
      PROVE  /\ Promise!Tap(taps, C - (2 * i - 1)) = taps.side[i]
             /\ Promise!Tap(taps, C + (2 * i - 1)) = taps.side[i]
             /\ Promise!Tap(taps, C - 2 * i) = 0
             /\ Promise!Tap(taps, C + 2 * i) = 0
  <2>1. PICK a \in Nat, b \in Nat : a = 2 * i - 1 /\ b = 2 * i
    BY <1>1
  <2>2. a # 0 /\ a % 2 = 1 /\ (a + 1) \div 2 = i /\ b # 0 /\ b % 2 # 1
    BY <2>1
  <2>3. Promise!Tap(taps, C - a) = taps.side[i] /\ Promise!Tap(taps, C + a) = taps.side[i]
    <3>1. PICK d \in Int, e \in Int : d = C - a /\ e = C + a
      OBVIOUS
    <3>2. Promise!Tap(taps, d) = taps.side[(a + 1) \div 2]
      BY <1>2, <2>2, <3>1
    <3>3. Promise!Tap(taps, e) = taps.side[(a + 1) \div 2]
      BY <1>2, <2>2, <3>1
    <3> QED
      BY <2>2, <3>1, <3>2, <3>3
  <2>4. Promise!Tap(taps, C - b) = 0 /\ Promise!Tap(taps, C + b) = 0
    <3>1. PICK d \in Int, e \in Int : d = C - b /\ e = C + b
      OBVIOUS
    <3>2. Promise!Tap(taps, d) = 0
      BY <1>2, <2>2, <3>1
    <3>3. Promise!Tap(taps, e) = 0
      BY <1>2, <2>2, <3>1
    <3> QED
      BY <3>1, <3>2, <3>3
  <2> QED
    BY <2>1, <2>3, <2>4
<1> QED
  BY <1>3, <1>4

LEMMA Distributes ==
  ASSUME NEW a \in Int, NEW b \in Int, NEW c \in Int
  PROVE  a * (b + c) = a * b + a * c
OBVIOUS

\* A sum over a window around the centre, taken from the middle outwards.
LEMMA FromTheCentre ==
  ASSUME NEW K \in Nat \ {0}, NEW C \in Int, C = 2 * K - 1,
         NEW t, \A d \in 0..4 * K - 2 : t[d] \in Int,
         NEW pair, \A i \in 1..K : pair[i] = t[C - (2 * i - 1)] + t[C + (2 * i - 1)],
         \A i \in 1..K-1 : t[C - 2 * i] = 0 /\ t[C + 2 * i] = 0
  PROVE  Promise!Sum(t, 4 * K - 1) = t[C] + SumTo(pair, K)
<1>1. PICK D \in Nat : D = 4 * K - 1
  OBVIOUS
<1>2. \A i \in 1..D : t[i - 1] \in Int
  BY <1>1
<1>3. PICK L : /\ L \in [0..D -> Int] /\ L[0] = 0
               /\ \A i \in 1..D : L[i] = L[i - 1] + t[i - 1]
               /\ Promise!Sum(t, D) = L[D]
  <2>1. PICK L : PartialFrom0(L, t, D) /\ Promise!Sum(t, D) = L[D]
    BY <1>2, PromiseSumIs
  <2> QED
    BY <2>1 DEF PartialFrom0
<1>4. \A i \in 1..K : pair[i] \in Int
  <2> SUFFICES ASSUME NEW i \in 1..K PROVE pair[i] \in Int
    OBVIOUS
  <2>1. C - (2 * i - 1) \in 0..4 * K - 2 /\ C + (2 * i - 1) \in 0..4 * K - 2
    OBVIOUS
  <2> QED
    BY <2>1
<1>5. PICK Q : Partial(Q, pair, K) /\ SumTo(pair, K) = Q[K]
  BY <1>4, SumToIs
<1>6. Q \in [0..K -> Int] /\ Q[0] = 0 /\ \A i \in 1..K : Q[i] = Q[i - 1] + pair[i]
  BY <1>5 DEF Partial
<1> DEFINE S == {i \in 0..K-1 : L[C + 2 * i + 1] - L[C - 2 * i] = t[C] + Q[i]}
<1>7. \A j \in 0..D : L[j] \in Int
  BY <1>3
<1>8. \A i \in 0..K : Q[i] \in Int
  BY <1>6
<1>9. 0 \in S
  <2>1. C + 1 \in 1..D /\ C \in 0..D /\ C \in 0..4 * K - 2
    BY <1>1
  <2>2. L[C + 1] = L[C] + t[C]
    BY <1>3, <2>1
  <2>3. C + 2 * 0 + 1 = C + 1 /\ C - 2 * 0 = C
    OBVIOUS
  <2>4. L[C] \in Int /\ t[C] \in Int
    BY <1>7, <2>1
  <2> QED
    BY <1>6, <2>2, <2>3, <2>4
<1>10. ASSUME NEW i \in 1..K-1, i - 1 \in S
       PROVE  i \in S
  <2>1. PICK a \in 0..D, b \in 0..D, e \in 1..K-1 :
          a = C - 2 * i /\ b = C + 2 * i + 1 /\ e = i
    BY <1>1
  <2>2. /\ b = C + 2 * e + 1 /\ a = C - 2 * e /\ a + 1 = C - (2 * e - 1)
        /\ b - 2 = C + (2 * e - 1) /\ b - 1 = C + 2 * e
        /\ a + 2 = C - 2 * (i - 1) /\ b - 2 = C + 2 * (i - 1) + 1
    BY <2>1
  <2>3. /\ a + 1 \in 0..D /\ a + 2 \in 0..D /\ b - 1 \in 0..D /\ b - 2 \in 0..D
        /\ a \in 0..4*K-2 /\ a + 1 \in 0..4*K-2 /\ b - 1 \in 0..4*K-2 /\ b - 2 \in 0..4*K-2
    BY <1>1, <2>1
  <2>4. L[a + 1] = L[a] + t[a] /\ L[a + 2] = L[a + 1] + t[a + 1]
    <3>1. /\ a + 1 \in 1..D /\ (a + 1) - 1 = a
          /\ a + 2 \in 1..D /\ (a + 2) - 1 = a + 1
      BY <2>1, <2>3
    <3> QED
      BY <1>3, <3>1
  <2>5. L[b] = L[b - 1] + t[b - 1] /\ L[b - 1] = L[b - 2] + t[b - 2]
    <3>1. b \in 1..D /\ b - 1 \in 1..D /\ (b - 1) - 1 = b - 2
      BY <1>1, <2>1
    <3> QED
      BY <1>3, <3>1
  <2>6. t[a] = 0 /\ t[b - 1] = 0 /\ pair[e] = t[a + 1] + t[b - 2]
    BY <2>1, <2>2
  <2>7. L[b - 2] - L[a + 2] = t[C] + Q[e - 1]
    BY <1>10, <2>1, <2>2
  <2>8. Q[e] = Q[e - 1] + pair[e]
    BY <1>6, <2>1
  <2>9. /\ L[a] \in Int /\ L[a + 1] \in Int /\ L[a + 2] \in Int
        /\ L[b] \in Int /\ L[b - 1] \in Int /\ L[b - 2] \in Int
    BY <1>7, <2>1, <2>3
  <2>10. t[a + 1] \in Int /\ t[b - 2] \in Int /\ t[C] \in Int
    BY <2>3
  <2>11. Q[e - 1] \in Int /\ Q[e] \in Int
    BY <1>8, <2>1
  <2>12. L[b] - L[a] = t[C] + Q[e]
    BY <2>4, <2>5, <2>6, <2>7, <2>8, <2>9, <2>10, <2>11
  <2> QED
    BY <2>1, <2>2, <2>12
<1>11. L[C + 2 * (K - 1) + 1] - L[C - 2 * (K - 1)] = t[C] + Q[K - 1]
  <2>1. K - 1 \in Nat
    OBVIOUS
  <2>2. 0..K-1 \subseteq S
    <3> HIDE DEF S
    <3> QED
      BY <1>9, <1>10, <2>1, InductionUpTo
  <2>3. K - 1 \in S
    BY <2>1, <2>2
  <2> QED
    BY <2>3
<1>12. C + 2 * (K - 1) + 1 = D - 1 /\ C - 2 * (K - 1) = 1
  BY <1>1
<1>13. L[D] = L[D - 1] + t[D - 1] /\ L[1] = t[0]
  <2>1. D \in 1..D /\ 1 \in 1..D /\ 1 - 1 = 0
    BY <1>1
  <2>2. L[1] = L[0] + t[0]
    BY <1>3, <2>1
  <2>3. t[0] \in Int
    OBVIOUS
  <2> QED
    BY <1>3, <2>1, <2>2, <2>3
<1>14. pair[K] = t[0] + t[D - 1]
  <2>1. K \in 1..K /\ C - (2 * K - 1) = 0 /\ C + (2 * K - 1) = D - 1
    BY <1>1
  <2>2. pair[K] = t[C - (2 * K - 1)] + t[C + (2 * K - 1)]
    BY <2>1
  <2> QED
    BY <2>1, <2>2
<1>15. Q[K] = Q[K - 1] + pair[K]
  BY <1>6
<1>16. /\ L[D] \in Int /\ L[D - 1] \in Int /\ L[1] \in Int /\ t[0] \in Int
       /\ t[D - 1] \in Int /\ t[C] \in Int /\ Q[K] \in Int /\ Q[K - 1] \in Int
  BY <1>1, <1>7, <1>8
<1>17. L[D - 1] - L[1] = t[C] + Q[K - 1]
  BY <1>11, <1>12
<1>18. L[D] = t[C] + Q[K]
  BY <1>13, <1>14, <1>15, <1>16, <1>17
<1> QED
  BY <1>1, <1>3, <1>5, <1>18

\* Signals of n samples.
Signals(n) == [0..n-1 -> Int]

\* The pairwise sum of out is the convolution, when the ring holds the signal: the taps
\* it leaves out are zero, and what it pairs is symmetric.
LEMMA ConvolvedIs ==
  ASSUME NEW taps \in Filters, NEW N \in Nat, NEW s \in Signals(N), NEW n \in 0..N-1
  PROVE  /\ Promise!Convolved(s, taps, n) \in Int
         /\ \A r : Holds(r, s, n + 1) => Out(r, taps) = Promise!Convolved(s, taps, n)
<1>1. PICK K \in Nat \ {0}, C \in Nat :
        K = Len(taps.side) /\ C = 2 * K - 1 /\ 4 * K - 2 < Ring /\ C = Centre(taps)
  <2>1. taps.side \in Seq(Int) /\ taps.side # <<>> /\ Fits(taps)
    BY DEF Filters
  <2>2. Len(taps.side) \in Nat \ {0}
    BY <2>1, EmptySeq
  <2>3. PICK K \in Nat \ {0} : K = Len(taps.side)
    BY <2>2
  <2>4. 2 * K - 1 \in Nat /\ Centre(taps) = 2 * K - 1
    BY <2>3 DEF Centre
  <2>5. 4 * K - 2 < Ring
    BY <2>1, <2>3, RingAssumption DEF Fits, Centre
  <2> QED
    BY <2>3, <2>4, <2>5
<1>1a. C = 2 * K - 1
  BY <1>1
<1>2. PICK t : t = [d \in 0..(4 * Len(taps.side) - 2) |->
                      IF n - d \in DOMAIN s THEN Promise!Tap(taps, d) * s[n - d] ELSE 0]
  OBVIOUS
<1>3. Promise!Convolved(s, taps, n) = Promise!Sum(t, 4 * K - 1)
  BY <1>1, <1>2 DEF Promise!Convolved
<1>4. /\ taps.half \in Int
      /\ \A i \in 1..K : taps.side[i] \in Int
      /\ \A k \in 0..N-1 : s[k] \in Int
      /\ DOMAIN s = 0..N-1
  BY <1>1 DEF Filters, Signals
<1>5. \A d \in 0..4 * K - 2 : Promise!Tap(taps, d) \in Int
  <2> SUFFICES ASSUME NEW d \in 0..4 * K - 2 PROVE Promise!Tap(taps, d) \in Int
    OBVIOUS
  <2>1. PICK off \in Nat : off = IF d < C THEN C - d ELSE d - C
    <3>1. d < C => C - d \in Nat
      OBVIOUS
    <3>2. ~(d < C) => d - C \in Nat
      OBVIOUS
    <3> QED
      BY <3>1, <3>2
  <2>2. Promise!Tap(taps, d) = IF off = 0 THEN taps.half
               ELSE IF off % 2 = 1 THEN taps.side[(off + 1) \div 2] ELSE 0
    BY <1>1, <2>1 DEF Promise!Tap
  <2>3. off % 2 = 1 => (off + 1) \div 2 \in 1..K
    BY <1>1a, <2>1
  <2> QED
    BY <1>4, <2>2, <2>3
<1>6. \A d \in 0..4 * K - 2 :
        t[d] = (IF d <= n THEN Promise!Tap(taps, d) * s[n - d] ELSE 0) /\ t[d] \in Int
  <2> SUFFICES ASSUME NEW d \in 0..4 * K - 2
               PROVE  /\ t[d] = IF d <= n THEN Promise!Tap(taps, d) * s[n - d] ELSE 0
                      /\ t[d] \in Int
    OBVIOUS
  <2>1. d \in 0..(4 * Len(taps.side) - 2) /\ (n - d \in DOMAIN s <=> d <= n)
    BY <1>1, <1>4
  <2>2. t[d] = IF d <= n THEN Promise!Tap(taps, d) * s[n - d] ELSE 0
    BY <1>2, <2>1, Zenon
  <2>3. CASE d <= n
    <3>1. PICK a \in Int, b \in Int : a = Promise!Tap(taps, d) /\ b = s[n - d]
      BY <1>4, <1>5, <2>3
    <3> QED
      BY <2>2, <2>3, <3>1
  <2> QED
    BY <2>2, <2>3
<1>7. Promise!Convolved(s, taps, n) \in Int
  <2>1. PICK D \in Nat : D = 4 * K - 1
    BY <1>1a
  <2>2. \A i \in 1..D : t[i - 1] \in Int
    <3> SUFFICES ASSUME NEW i \in 1..D PROVE t[i - 1] \in Int
      OBVIOUS
    <3>1. i - 1 \in 0..4 * K - 2
      BY <2>1
    <3> QED
      BY <1>6, <3>1
  <2>3. PICK L : PartialFrom0(L, t, D) /\ Promise!Sum(t, D) = L[D]
    BY <2>2, PromiseSumIs
  <2>4. Promise!Sum(t, D) \in Int
    BY <2>3 DEF PartialFrom0
  <2> QED
    BY <1>3, <2>1, <2>4
<1>8. ASSUME NEW r, Holds(r, s, n + 1)
      PROVE  Out(r, taps) = Promise!Convolved(s, taps, n)
  <2>1. \A d \in 0..4 * K - 2 : /\ Past(r, d) = IF d <= n THEN s[n - d] ELSE 0
                               /\ t[d] = Promise!Tap(taps, d) * Past(r, d)
                               /\ Past(r, d) \in Int
    <3> SUFFICES ASSUME NEW d \in 0..4 * K - 2
                 PROVE  /\ Past(r, d) = IF d <= n THEN s[n - d] ELSE 0
                        /\ t[d] = Promise!Tap(taps, d) * Past(r, d)
                        /\ Past(r, d) \in Int
      OBVIOUS
    <3>1. d \in 0..Ring-1 /\ d \in Int
      BY <1>1, RingAssumption
    <3>2. Past(r, d) = IF d < n + 1 THEN s[n + 1 - 1 - d] ELSE 0
      BY <1>8, <3>1 DEF Holds
    <3>3. n + 1 - 1 - d = n - d /\ (d < n + 1 <=> d <= n)
      BY <3>1
    <3>4. Past(r, d) = IF d <= n THEN s[n - d] ELSE 0
      BY <3>2, <3>3, Zenon
    <3>5. Past(r, d) \in Int
      BY <1>8, <3>1, PastIsSample DEF Holds
    <3>6. Promise!Tap(taps, d) * 0 = 0
      BY <1>5
    <3>7. t[d] = IF d <= n THEN Promise!Tap(taps, d) * s[n - d] ELSE 0
      BY <1>6
    <3> QED
      BY <3>4, <3>5, <3>6, <3>7, Zenon
  <2> DEFINE pair == [i \in 1..Len(taps.side) |->
                        LET k == 2 * i - 1
                        IN  taps.side[i] * (Past(r, Centre(taps) - k) + Past(r, Centre(taps) + k))]
  <2>2. Out(r, taps) = taps.half * Past(r, C) + SumTo(pair, K)
    BY <1>1 DEF Out
  <2>3. t[C] = taps.half * Past(r, C)
    <3>1. C \in 0..4 * K - 2
      BY <1>1a
    <3>2. Promise!Tap(taps, C) = taps.half
      <4>1. C \in Int /\ C = Centre(taps)
        BY <1>1
      <4> QED
        BY <4>1, TapIs
    <3> QED
      BY <2>1, <3>1, <3>2
  <2>4. ASSUME NEW i \in 1..K
        PROVE  pair[i] = t[C - (2 * i - 1)] + t[C + (2 * i - 1)]
    <3>1. PICK a \in Int, b \in Int : a = C - (2 * i - 1) /\ b = C + (2 * i - 1)
      OBVIOUS
    <3>2. a \in 0..4 * K - 2 /\ b \in 0..4 * K - 2
      BY <1>1a, <3>1
    <3>3. Promise!Tap(taps, a) = taps.side[i] /\ Promise!Tap(taps, b) = taps.side[i]
      <4>1. C \in Int /\ C = Centre(taps) /\ i \in 1..Len(taps.side)
        BY <1>1
      <4>2. /\ Promise!Tap(taps, C - (2 * i - 1)) = taps.side[i]
            /\ Promise!Tap(taps, C + (2 * i - 1)) = taps.side[i]
        BY <4>1, TapIs, Zenon
      <4> QED
        BY <3>1, <4>2, Zenon
    <3>4. t[a] = taps.side[i] * Past(r, a) /\ t[b] = taps.side[i] * Past(r, b)
      BY <2>1, <3>2, <3>3
    <3>5. pair[i] = taps.side[i] * (Past(r, a) + Past(r, b))
      <4>1. i \in 1..Len(taps.side)
        BY <1>1
      <4>2. pair[i] = taps.side[i] * (Past(r, Centre(taps) - (2 * i - 1))
                                      + Past(r, Centre(taps) + (2 * i - 1)))
        BY <4>1, Zenon
      <4> QED
        BY <1>1, <3>1, <4>2, Zenon
    <3>6. taps.side[i] \in Int /\ Past(r, a) \in Int /\ Past(r, b) \in Int
      BY <1>4, <2>1, <3>2
    <3>7. taps.side[i] * (Past(r, a) + Past(r, b)) = t[a] + t[b]
      BY <3>4, <3>6, Distributes
    <3> QED
      BY <3>1, <3>5, <3>7
  <2>5. ASSUME NEW i \in 1..K-1
        PROVE  t[C - 2 * i] = 0 /\ t[C + 2 * i] = 0
    <3>1. PICK a \in Int, b \in Int : a = C - 2 * i /\ b = C + 2 * i
      BY <1>1a
    <3>2. a \in 0..4 * K - 2 /\ b \in 0..4 * K - 2 /\ i \in 1..K
      BY <1>1a, <3>1
    <3>3. Promise!Tap(taps, a) = 0 /\ Promise!Tap(taps, b) = 0
      BY <1>1, <3>1, <3>2, TapIs
    <3>4. t[a] = 0 * Past(r, a) /\ t[b] = 0 * Past(r, b)
      BY <2>1, <3>2, <3>3
    <3>5. Past(r, a) \in Int /\ Past(r, b) \in Int
      BY <2>1, <3>2
    <3>6. t[a] = 0 /\ t[b] = 0
      BY <3>4, <3>5
    <3> QED
      BY <3>1, <3>6
  <2> HIDE DEF pair
  <2>6. Promise!Sum(t, 4 * K - 1) = t[C] + SumTo(pair, K)
    BY <1>1a, <1>6, <2>4, <2>5, FromTheCentre
  <2> QED
    BY <1>3, <2>2, <2>3, <2>6
<1> QED
  BY <1>7, <1>8

-----------------------------------------------------------------------------
(* The stages, as signals. *)

\* A signal with a zero behind every sample.
Stuffed(s, n) == [k \in 0..2*n-1 |-> IF k % 2 = 0 THEN s[k \div 2] ELSE 0]

LEMMA LengthIs ==
  ASSUME NEW n \in Nat, NEW s \in Signals(n)
  PROVE  Promise!Length(s) = n
<1>1. DOMAIN s = 0..n-1
  BY DEF Signals
<1>2. PICK m \in Int : m = n - 1
  OBVIOUS
<1>3. Cardinality(0..m) = IF 0 > m THEN 0 ELSE m - 0 + 1
  BY FS_Interval
<1>4. Cardinality(0..m) = n
  BY <1>2, <1>3
<1>5. DOMAIN s = 0..m
  BY <1>1, <1>2
<1> QED
  <2>1. Promise!Length(s) = Cardinality(DOMAIN s)
    BY Zenon DEF Promise!Length, Promise!Cardinality, Cardinality
  <2> QED
    BY <1>4, <1>5, <2>1

LEMMA StuffedIs ==
  ASSUME NEW n \in Nat, NEW s \in Signals(n)
  PROVE  /\ Stuffed(s, n) \in Signals(2 * n)
         /\ \A k \in 0..n-1 : Stuffed(s, n)[2 * k] = s[k] /\ Stuffed(s, n)[2 * k + 1] = 0
<1>1. \A k \in 0..n-1 : s[k] \in Int
  BY DEF Signals
<1>2. ASSUME NEW k \in 0..2*n-1
      PROVE  (IF k % 2 = 0 THEN s[k \div 2] ELSE 0) \in Int
  <2>1. k \div 2 \in 0..n-1
    OBVIOUS
  <2> QED
    BY <1>1, <2>1
<1>3. Stuffed(s, n) \in Signals(2 * n)
  BY <1>2 DEF Stuffed, Signals
<1>4. ASSUME NEW k \in 0..n-1
      PROVE  Stuffed(s, n)[2 * k] = s[k] /\ Stuffed(s, n)[2 * k + 1] = 0
  <2>1. PICK a \in 0..2*n-1, b \in 0..2*n-1 : a = 2 * k /\ b = 2 * k + 1
    OBVIOUS
  <2>2. a % 2 = 0 /\ a \div 2 = k /\ b % 2 # 0
    BY <2>1
  <2>3. Stuffed(s, n)[a] = s[k] /\ Stuffed(s, n)[b] = 0
    BY <2>2, Zenon DEF Stuffed
  <2> QED
    BY <2>1, <2>3
<1> QED
  BY <1>3, <1>4

LEMMA RaisedIs ==
  ASSUME NEW taps \in Filters, NEW n \in Nat, NEW s \in Signals(n)
  PROVE  /\ Promise!Raised(s, taps) \in Signals(2 * n)
         /\ \A k \in 0..2*n-1 : Promise!Raised(s, taps)[k]
                                  = 2 * Promise!Convolved(Stuffed(s, n), taps, k)
<1>1. Promise!Length(s) = n
  BY LengthIs
<1>2. Promise!Raised(s, taps)
        = [k \in 0..2*n-1 |-> 2 * Promise!Convolved(Stuffed(s, n), taps, k)]
  BY <1>1, Zenon DEF Promise!Raised, Promise!Signal, Stuffed
<1>3. Stuffed(s, n) \in Signals(2 * n) /\ 2 * n \in Nat
  BY StuffedIs
<1>4. \A k \in 0..2*n-1 : Promise!Convolved(Stuffed(s, n), taps, k) \in Int
  BY <1>3, ConvolvedIs
<1>5. \A k \in 0..2*n-1 : 2 * Promise!Convolved(Stuffed(s, n), taps, k) \in Int
  BY <1>4
<1> QED
  BY <1>2, <1>5 DEF Signals

LEMMA LoweredIs ==
  ASSUME NEW taps \in Filters, NEW n \in Nat, NEW s \in Signals(2 * n)
  PROVE  /\ Promise!Lowered(s, taps) \in Signals(n)
         /\ \A k \in 0..n-1 : Promise!Lowered(s, taps)[k]
                                = Promise!Convolved(s, taps, 2 * k + 1)
<1>1. PICK m \in Nat : m = 2 * n
  OBVIOUS
<1>2. Promise!Length(s) = m /\ m \div 2 = n
  BY <1>1, LengthIs
<1>3. Promise!Lowered(s, taps) = [k \in 0..n-1 |-> Promise!Convolved(s, taps, 2 * k + 1)]
  BY <1>2, Zenon DEF Promise!Lowered, Promise!Signal
<1>4. ASSUME NEW k \in 0..n-1 PROVE Promise!Convolved(s, taps, 2 * k + 1) \in Int
  <2>1. PICK j \in 0..m-1 : j = 2 * k + 1
    BY <1>1
  <2> QED
    BY <1>1, <2>1, ConvolvedIs
<1> QED
  BY <1>3, <1>4 DEF Signals

LEMMA OverloadedIs ==
  ASSUME NEW n \in Nat, NEW s \in Signals(n), NEW f \in {1, 2, 4}
  PROVE  /\ Promise!Overloaded(s, Stages(f)) \in Signals(n)
         /\ \A k \in 0..n-1 : Promise!Overloaded(s, Stages(f))[k] = Overload(f)[s[k]]
<1>1. Promise!Length(s) = n
  BY LengthIs
<1>2. PICK rail : rail = Rail * Unit * Stages(f)
  OBVIOUS
<1>3. Promise!Overloaded(s, Stages(f)) = [k \in 0..n-1 |-> Promise!Clamp(s[k], rail)]
  BY <1>1, <1>2, Zenon DEF Promise!Overloaded, Promise!Signal
<1>4. \A x \in Int : Overload(f)[x] = Promise!Clamp(x, rail) /\ Overload(f)[x] \in Int
  <2>1. Overload(f) \in [Int -> Int]
    BY OverloadIsMap
  <2>2. Overload(f) = [x \in Int |-> IF x > rail THEN rail ELSE IF x < -rail THEN -rail ELSE x]
    BY <1>2, Zenon DEF Overload
  <2>3. \A x \in Int : Overload(f)[x] = IF x > rail THEN rail ELSE IF x < -rail THEN -rail ELSE x
    BY <2>2, Zenon
  <2> QED
    BY <2>1, <2>3 DEF Promise!Clamp
<1>5. \A k \in 0..n-1 : s[k] \in Int
  BY DEF Signals
<1> QED
  BY <1>3, <1>4, <1>5 DEF Signals

\* Up takes a history along the stuffed signal and answers with two samples of the
\* raised one; Down takes one along a signal and answers with a sample of the lowered.
LEMMA UpHolds ==
  ASSUME NEW taps \in Filters, NEW n \in Nat, NEW s \in Signals(n), NEW k \in 0..n-1,
         NEW r, Holds(r, Stuffed(s, n), 2 * k)
  PROVE  LET up == Up(r, s[k], taps)
         IN  /\ Holds(up.ring, Stuffed(s, n), 2 * (k + 1))
             /\ up.phases[1] = Promise!Raised(s, taps)[2 * k]
             /\ up.phases[2] = Promise!Raised(s, taps)[2 * k + 1]
<1>1. PICK a \in 0..2*n-1, b \in 0..2*n-1, m \in Nat :
        a = 2 * k /\ b = a + 1 /\ m = 2 * n
  OBVIOUS
<1>1a. PICK z : z = Stuffed(s, n)
  OBVIOUS
<1>2. z \in Signals(m) /\ z[a] = s[k] /\ z[b] = 0 /\ s[k] \in Int
  BY <1>1, <1>1a, StuffedIs DEF Signals
<1>3. PICK first : first = Push(r, s[k])
  OBVIOUS
<1>4. Holds(first, z, a + 1)
  <2>1. Holds(r, z, a) /\ a \in Nat
    BY <1>1, <1>1a
  <2> QED
    BY <1>2, <1>3, <2>1, PushHolds
<1>5. PICK second : second = Push(first, 0)
  OBVIOUS
<1>6. Holds(second, z, b + 1)
  <2>1. Holds(first, z, b) /\ b \in Nat
    BY <1>1, <1>4
  <2> QED
    BY <1>2, <1>5, <2>1, PushHolds
<1>7. Out(first, taps) = Promise!Convolved(z, taps, a)
  <2>1. a \in 0..m-1
    BY <1>1
  <2> QED
    BY <1>2, <1>4, <2>1, ConvolvedIs
<1>8. Out(second, taps) = Promise!Convolved(z, taps, b)
  <2>1. b \in 0..m-1
    BY <1>1
  <2> QED
    BY <1>2, <1>6, <2>1, ConvolvedIs
<1>9. Promise!Raised(s, taps)[a] = 2 * Promise!Convolved(z, taps, a)
  BY <1>1, <1>1a, RaisedIs
<1>10. Promise!Raised(s, taps)[b] = 2 * Promise!Convolved(z, taps, b)
  BY <1>1, <1>1a, RaisedIs
<1>11. Up(r, s[k], taps)
         = [ring |-> second, phases |-> <<2 * Out(first, taps), 2 * Out(second, taps)>>]
  BY <1>3, <1>5 DEF Up
<1>12. b + 1 = 2 * (k + 1)
  BY <1>1
<1> QED
  BY <1>1, <1>1a, <1>6, <1>7, <1>8, <1>9, <1>10, <1>11, <1>12

LEMMA DownHolds ==
  ASSUME NEW taps \in Filters, NEW n \in Nat, NEW s \in Signals(2 * n), NEW k \in 0..n-1,
         NEW r, Holds(r, s, 2 * k)
  PROVE  LET down == Down(r, <<s[2 * k], s[2 * k + 1]>>, taps)
         IN  /\ Holds(down.ring, s, 2 * (k + 1))
             /\ down.y = Promise!Lowered(s, taps)[k]
<1>1. PICK a \in 0..2*n-1, b \in 0..2*n-1, m \in Nat :
        a = 2 * k /\ b = a + 1 /\ m = 2 * n
  OBVIOUS
<1>2. s \in Signals(m) /\ s[a] \in Int /\ s[b] \in Int
  BY <1>1 DEF Signals
<1>3. PICK first : first = Push(r, s[a])
  OBVIOUS
<1>4. Holds(first, s, a + 1)
  <2>1. Holds(r, s, a) /\ a \in Nat
    BY <1>1
  <2> QED
    BY <1>2, <1>3, <2>1, PushHolds
<1>5. PICK second : second = Push(first, s[b])
  OBVIOUS
<1>6. Holds(second, s, b + 1)
  <2>1. Holds(first, s, b) /\ b \in Nat
    BY <1>1, <1>4
  <2> QED
    BY <1>2, <1>5, <2>1, PushHolds
<1>7. Out(second, taps) = Promise!Convolved(s, taps, b)
  <2>1. b \in 0..m-1
    BY <1>1
  <2> QED
    BY <1>2, <1>6, <2>1, ConvolvedIs
<1>8. Promise!Lowered(s, taps)[k] = Promise!Convolved(s, taps, b)
  BY <1>1, LoweredIs
<1>9. Down(r, <<s[a], s[b]>>, taps) = [ring |-> second, y |-> Out(second, taps)]
  BY <1>3, <1>5 DEF Down
<1>10. b + 1 = 2 * (k + 1)
  BY <1>1
<1> QED
  BY <1>1, <1>6, <1>7, <1>8, <1>9, <1>10

-----------------------------------------------------------------------------
(* The oversampler somewhere in a signal. *)

\* The console's signals: at 2x, and at 4x.
Hot2(x) == Promise!Overloaded(Promise!Raised(x, TapsA), Stages(2))
High4(x) == Promise!Raised(Promise!Raised(x, TapsA), TapsB)
Hot4(x) == Promise!Overloaded(High4(x), Stages(4))
Back4(x) == Promise!Lowered(Hot4(x), TapsB)

\* What comes out of the round trip, before it is rescaled.
Wet1(x, n, f) ==
  IF f = 1 THEN Promise!Overloaded(x, Stages(1))
  ELSE IF f = 2 THEN Promise!Lowered(Hot2(x), TapsA)
       ELSE Promise!Lowered(Back4(x), TapsA)

\* The filters hold the signals of the first k samples of x.
Along(o, x, n, k) ==
  /\ o \in Oversamplers
  /\ o.factor = 2 => /\ Holds(o.upA, Stuffed(x, n), 2 * k)
                     /\ Holds(o.downA, Hot2(x), 2 * k)
  /\ o.factor = 4 => /\ Holds(o.upA, Stuffed(x, n), 2 * k)
                     /\ Holds(o.upB, Stuffed(Promise!Raised(x, TapsA), 2 * n), 2 * (2 * k))
                     /\ Holds(o.downB, Hot4(x), 2 * (2 * k))
                     /\ Holds(o.downA, Back4(x), 2 * k)

LEMMA SignalsOfStages ==
  ASSUME NEW n \in Nat, NEW x \in Signals(n)
  PROVE  /\ Promise!Raised(x, TapsA) \in Signals(2 * n) /\ Hot2(x) \in Signals(2 * n)
         /\ High4(x) \in Signals(2 * (2 * n)) /\ Hot4(x) \in Signals(2 * (2 * n))
         /\ Back4(x) \in Signals(2 * n)
         /\ \A f \in {1, 2, 4} : Wet1(x, n, f) \in Signals(n)
<1>1. PICK m \in Nat, p \in Nat : m = 2 * n /\ p = 2 * m
  OBVIOUS
<1>2. Promise!Raised(x, TapsA) \in Signals(m)
  BY <1>1, RaisedIs, TapsAreFilters
<1>3. Hot2(x) \in Signals(m)
  BY <1>2, OverloadedIs DEF Hot2
<1>4. High4(x) \in Signals(p)
  BY <1>1, <1>2, RaisedIs, TapsAreFilters DEF High4
<1>5. Hot4(x) \in Signals(p)
  BY <1>4, OverloadedIs DEF Hot4
<1>6. Back4(x) \in Signals(m)
  BY <1>1, <1>5, LoweredIs, TapsAreFilters DEF Back4
<1>7. Promise!Overloaded(x, Stages(1)) \in Signals(n)
  BY OverloadedIs
<1>8. Promise!Lowered(Hot2(x), TapsA) \in Signals(n)
  BY <1>1, <1>3, LoweredIs, TapsAreFilters
<1>9. Promise!Lowered(Back4(x), TapsA) \in Signals(n)
  BY <1>1, <1>6, LoweredIs, TapsAreFilters
<1> QED
  BY <1>1, <1>2, <1>3, <1>4, <1>5, <1>6, <1>7, <1>8, <1>9 DEF Wet1

\* One trip through the inner stage.
LEMMA InnerHolds ==
  ASSUME NEW m \in Nat, NEW s \in Signals(m), NEW k \in 0..m-1, NEW o \in Oversamplers,
         NEW hot, hot = Promise!Overloaded(Promise!Raised(s, TapsB), Stages(4)),
         Holds(o.upB, Stuffed(s, m), 2 * k), Holds(o.downB, hot, 2 * k)
  PROVE  LET p == Process4xInner(o, s[k], Overload(4))
         IN  /\ p.os \in Oversamplers /\ p.os.factor = o.factor
             /\ p.os.upA = o.upA /\ p.os.downA = o.downA
             /\ Holds(p.os.upB, Stuffed(s, m), 2 * (k + 1))
             /\ Holds(p.os.downB, hot, 2 * (k + 1))
             /\ p.y = Promise!Lowered(hot, TapsB)[k]
<1>1. PICK f : f = Overload(4) /\ f \in [Int -> Int]
  BY OverloadIsMap
<1>2. PICK x \in Int : x = s[k]
  BY DEF Signals
<1>3. PICK h : h = Promise!Raised(s, TapsB)
  OBVIOUS
<1>4. PICK p \in Nat : p = 2 * m
  OBVIOUS
<1>5. h \in Signals(p)
  BY <1>3, <1>4, RaisedIs, TapsAreFilters
<1>6. PICK a \in 0..p-1, b \in 0..p-1 : a = 2 * k /\ b = 2 * k + 1
  BY <1>4
<1>7. hot[a] = f[h[a]] /\ hot[b] = f[h[b]] /\ hot \in Signals(p)
  BY <1>1, <1>3, <1>4, <1>5, <1>6, OverloadedIs
<1>8. PICK up : up = Up(o.upB, x, TapsB)
  OBVIOUS
<1>9. /\ Holds(up.ring, Stuffed(s, m), 2 * (k + 1))
      /\ up.phases[1] = h[a] /\ up.phases[2] = h[b]
  BY <1>2, <1>3, <1>6, <1>8, UpHolds, TapsAreFilters
<1>10. PICK down : down = Down(o.downB, <<f[up.phases[1]], f[up.phases[2]]>>, TapsB)
  OBVIOUS
<1>11. down = Down(o.downB, <<hot[2 * k], hot[2 * k + 1]>>, TapsB)
  BY <1>6, <1>7, <1>9, <1>10
<1>12. /\ Holds(down.ring, hot, 2 * (k + 1))
       /\ down.y = Promise!Lowered(hot, TapsB)[k]
  BY <1>4, <1>7, <1>11, DownHolds, TapsAreFilters
<1>13. PICK left : left = StageB(o, up.ring, down.ring)
  OBVIOUS
<1>14. up.ring \in Rings /\ down.ring \in Rings
  BY <1>9, <1>12 DEF Holds
<1>15. /\ left \in Oversamplers /\ left.factor = o.factor
       /\ left.upA = o.upA /\ left.downA = o.downA
       /\ left.upB = up.ring /\ left.downB = down.ring
  BY <1>13, <1>14, StageBIs
<1>16. Process4xInner(o, x, f) = [os |-> left, y |-> down.y]
  BY <1>8, <1>10, <1>13 DEF Process4xInner, StageB
<1> QED
  BY <1>1, <1>2, <1>9, <1>12, <1>15, <1>16

\* One sample further along.
LEMMA AlongStep ==
  ASSUME NEW n \in Nat, NEW x \in Signals(n), NEW k \in 0..n-1, NEW o, Along(o, x, n, k)
  PROVE  LET s == ProcessSample(o, x[k], Overload(o.factor))
         IN  /\ Along(s.os, x, n, k + 1) /\ s.os.factor = o.factor
             /\ s.y = Wet1(x, n, o.factor)[k]
<1>0. o \in Oversamplers /\ o.factor \in {1, 2, 4} /\ x[k] \in Int
  BY DEF Along, Oversamplers, Signals
<1>1. PICK f : f = Overload(o.factor) /\ f \in [Int -> Int]
  BY <1>0, OverloadIsMap
<1>2. CASE o.factor = 1
  <2>1. ProcessSample(o, x[k], f) = [os |-> o, y |-> f[x[k]]]
    BY <1>2 DEF ProcessSample
  <2>2. f[x[k]] = Wet1(x, n, 1)[k]
    BY <1>1, <1>2, OverloadedIs DEF Wet1
  <2>3. Along(o, x, n, k + 1)
    BY <1>0, <1>2 DEF Along
  <2> QED
    BY <1>1, <1>2, <2>1, <2>2, <2>3
<1>3. PICK r : r = Promise!Raised(x, TapsA)
  OBVIOUS
<1>4. PICK m \in Nat : m = 2 * n
  OBVIOUS
<1>5. PICK a \in 0..m-1, b \in 0..m-1 : a = 2 * k /\ b = 2 * k + 1
  BY <1>4
<1>6. /\ r \in Signals(m) /\ Hot2(x) \in Signals(m) /\ Hot4(x) \in Signals(2 * m)
      /\ Back4(x) \in Signals(m)
  BY <1>3, <1>4, SignalsOfStages
<1>7. PICK up : up = Up(o.upA, x[k], TapsA)
  OBVIOUS
<1>8. CASE o.factor = 2
  <2>1. /\ Holds(up.ring, Stuffed(x, n), 2 * (k + 1))
        /\ up.phases[1] = r[a] /\ up.phases[2] = r[b]
    BY <1>3, <1>5, <1>7, <1>8, UpHolds, TapsAreFilters DEF Along
  <2>2. Hot2(x)[a] = f[r[a]] /\ Hot2(x)[b] = f[r[b]]
    BY <1>1, <1>3, <1>6, <1>8, OverloadedIs DEF Hot2
  <2>3. PICK down : down = Down(o.downA, <<f[up.phases[1]], f[up.phases[2]]>>, TapsA)
    OBVIOUS
  <2>4. down = Down(o.downA, <<Hot2(x)[2 * k], Hot2(x)[2 * k + 1]>>, TapsA)
    BY <1>5, <2>1, <2>2, <2>3
  <2>5. /\ Holds(down.ring, Hot2(x), 2 * (k + 1))
        /\ down.y = Promise!Lowered(Hot2(x), TapsA)[k]
    <3>1. Holds(o.downA, Hot2(x), 2 * k)
      BY <1>8 DEF Along
    <3> QED
      <4>1. PICK z : z = Hot2(x)
        OBVIOUS
      <4>2. z \in Signals(2 * n) /\ Holds(o.downA, z, 2 * k)
        BY <1>4, <1>6, <3>1, <4>1
      <4>3. down = Down(o.downA, <<z[2 * k], z[2 * k + 1]>>, TapsA)
        BY <2>4, <4>1
      <4>4. Holds(down.ring, z, 2 * (k + 1)) /\ down.y = Promise!Lowered(z, TapsA)[k]
        BY <4>2, <4>3, DownHolds, TapsAreFilters
      <4> QED
        BY <4>1, <4>4
  <2>6. PICK left : left = StageA(o, up.ring, down.ring)
    OBVIOUS
  <2>7. up.ring \in Rings /\ down.ring \in Rings
    BY <2>1, <2>5 DEF Holds
  <2>8. /\ left \in Oversamplers /\ left.factor = 2
        /\ left.upA = up.ring /\ left.downA = down.ring
    BY <1>0, <1>8, <2>6, <2>7, StageAIs
  <2>9. ProcessSample(o, x[k], f) = [os |-> left, y |-> down.y]
    BY <1>7, <1>8, <2>3, <2>6 DEF ProcessSample, StageA
  <2>10. Along(left, x, n, k + 1)
    BY <2>1, <2>5, <2>8 DEF Along
  <2>11. down.y = Wet1(x, n, 2)[k]
    BY <2>5 DEF Wet1
  <2> QED
    BY <1>1, <1>8, <2>8, <2>9, <2>10, <2>11
<1>9. CASE o.factor = 4
  <2>1. /\ Holds(up.ring, Stuffed(x, n), 2 * (k + 1))
        /\ up.phases[1] = r[a] /\ up.phases[2] = r[b]
    BY <1>3, <1>5, <1>7, <1>9, UpHolds, TapsAreFilters DEF Along
  <2>2. PICK hot : hot = Hot4(x)
    OBVIOUS
  <2>3. hot = Promise!Overloaded(Promise!Raised(r, TapsB), Stages(4))
    BY <1>3, <2>2 DEF Hot4, High4
  <2>4. Holds(o.upB, Stuffed(r, m), 2 * a) /\ Holds(o.downB, hot, 2 * a)
    BY <1>3, <1>4, <1>5, <1>9, <2>2 DEF Along
  <2>5. PICK first : first = Process4xInner(o, up.phases[1], f)
    OBVIOUS
  <2>6. /\ first.os \in Oversamplers /\ first.os.factor = 4
        /\ first.os.upA = o.upA /\ first.os.downA = o.downA
        /\ Holds(first.os.upB, Stuffed(r, m), 2 * (a + 1))
        /\ Holds(first.os.downB, hot, 2 * (a + 1))
        /\ first.y = Promise!Lowered(hot, TapsB)[a]
    <3>1. first = Process4xInner(o, r[a], Overload(4))
      BY <1>1, <1>9, <2>1, <2>5
    <3> QED
      BY <1>0, <1>6, <1>9, <2>3, <2>4, <3>1, InnerHolds
  <2>7. PICK second : second = Process4xInner(first.os, up.phases[2], f)
    OBVIOUS
  <2>8. /\ second.os \in Oversamplers /\ second.os.factor = 4
        /\ second.os.upA = o.upA /\ second.os.downA = o.downA
        /\ Holds(second.os.upB, Stuffed(r, m), 2 * (b + 1))
        /\ Holds(second.os.downB, hot, 2 * (b + 1))
        /\ second.y = Promise!Lowered(hot, TapsB)[b]
    <3>1. second = Process4xInner(first.os, r[b], Overload(4))
      BY <1>1, <1>9, <2>1, <2>7
    <3>2. b = a + 1
      BY <1>5
    <3>3. Holds(first.os.upB, Stuffed(r, m), 2 * b) /\ Holds(first.os.downB, hot, 2 * b)
      BY <2>6, <3>2
    <3>4. PICK o1 \in Oversamplers : o1 = first.os
      BY <2>6
    <3> QED
      BY <1>6, <2>3, <2>6, <3>1, <3>3, <3>4, InnerHolds
  <2>9. first.y = Back4(x)[2 * k] /\ second.y = Back4(x)[2 * k + 1]
    BY <1>5, <2>2, <2>6, <2>8 DEF Back4
  <2>10. PICK down : down = Down(o.downA, <<first.y, second.y>>, TapsA)
    OBVIOUS
  <2>11. /\ Holds(down.ring, Back4(x), 2 * (k + 1))
         /\ down.y = Promise!Lowered(Back4(x), TapsA)[k]
    <3>1. Holds(o.downA, Back4(x), 2 * k)
      BY <1>9 DEF Along
    <3>2. down = Down(o.downA, <<Back4(x)[2 * k], Back4(x)[2 * k + 1]>>, TapsA)
      BY <2>9, <2>10
    <3> QED
      BY <1>4, <1>6, <3>1, <3>2, DownHolds, TapsAreFilters
  <2>12. PICK left : left = StageA(second.os, up.ring, down.ring)
    OBVIOUS
  <2>13. up.ring \in Rings /\ down.ring \in Rings
    BY <2>1, <2>11 DEF Holds
  <2>14. /\ left \in Oversamplers /\ left.factor = 4
         /\ left.upA = up.ring /\ left.downA = down.ring
         /\ left.upB = second.os.upB /\ left.downB = second.os.downB
    BY <2>8, <2>12, <2>13, StageAIs
  <2>15. ProcessSample(o, x[k], f) = [os |-> left, y |-> down.y]
    <3>1. o.factor # 1 /\ o.factor # 2
      BY <1>9
    <3> QED
      BY <1>7, <2>5, <2>7, <2>10, <2>12, <3>1, Zenon DEF ProcessSample, StageA
  <2>16. Along(left, x, n, k + 1)
    <3>1. b + 1 = 2 * (k + 1)
      BY <1>5
    <3>2. /\ Holds(left.upB, Stuffed(r, m), 2 * (2 * (k + 1)))
          /\ Holds(left.downB, Hot4(x), 2 * (2 * (k + 1)))
      BY <2>2, <2>8, <2>14, <3>1
    <3> QED
      BY <1>3, <1>4, <2>1, <2>11, <2>14, <3>2 DEF Along
  <2>17. down.y = Wet1(x, n, 4)[k]
    BY <2>11 DEF Wet1
  <2> QED
    BY <1>1, <1>9, <2>14, <2>15, <2>16, <2>17
<1> QED
  BY <1>0, <1>2, <1>8, <1>9

\* The dry stream of a channel behind the input gain.
Dry(c) == [k \in 0..Len(Stream)-1 |-> Gain * ToFloat(Stream[k + 1][c])]

LEMMA DryIs ==
  ASSUME NEW c \in 1..2
  PROVE  Dry(c) \in Signals(Len(Stream))
<1>1. ASSUME NEW k \in 0..Len(Stream)-1 PROVE Gain * ToFloat(Stream[k + 1][c]) \in Int
  <2>1. PICK j \in 1..Len(Stream) : j = k + 1
    BY StreamIsFrames
  <2>2. Stream[j] \in Int \X Int
    BY StreamIsFrames DEF Frame2
  <2>3. Stream[j][c] \in Int
    BY <2>2
  <2>4. PICK x \in Int, g \in Int : x = ToFloat(Stream[k + 1][c]) /\ g = Gain
    BY <2>1, <2>3, OutsAreInts, SignalAssumption
  <2> QED
    BY <2>4
<1> QED
  BY <1>1 DEF Dry, Signals

\* Each factor's scale, spelled out.
LEMMA ScalesAre ==
  /\ Stages(1) = 1 /\ Stages(2) = TapUnit /\ Stages(4) = TapUnit * TapUnit
  /\ \A y \in Int :
       /\ Rescaled(y, 1) = y
       /\ Rescaled(y, 2) = y \div (TapUnit * TapUnit)
       /\ Rescaled(y, 4) = y \div (TapUnit * TapUnit * TapUnit * TapUnit)
<1>1. PICK t \in Nat \ {0} : t = TapUnit
  BY SignalAssumption
<1>2. Stages(1) = 1 /\ Stages(2) = t /\ Stages(4) = t * t
  BY <1>1 DEF Stages
<1>3. (t * t) * (t * t) = t * t * t * t
  OBVIOUS
<1>4. \A y \in Int : y \div (1 * 1) = y
  OBVIOUS
<1>5. ASSUME NEW y \in Int
      PROVE  /\ Rescaled(y, 1) = y
             /\ Rescaled(y, 2) = y \div (t * t)
             /\ Rescaled(y, 4) = y \div (t * t * t * t)
  <2>1. Rescaled(y, 1) = y \div (1 * 1)
    BY <1>2, Zenon DEF Rescaled
  <2>2. Rescaled(y, 2) = y \div (t * t)
    BY <1>2, Zenon DEF Rescaled
  <2>3. Rescaled(y, 4) = y \div ((t * t) * (t * t))
    BY <1>2, Zenon DEF Rescaled
  <2> QED
    BY <1>3, <1>4, <2>1, <2>2, <2>3, Zenon
<1> QED
  BY <1>1, <1>2, <1>5, Zenon

\* The promise's round trip is Wet1, rescaled; and so its wet signal.
LEMMA RoundTripIs ==
  ASSUME NEW n \in Nat, NEW x \in Signals(n), NEW f \in {1, 2, 4}, NEW k \in 0..n-1
  PROVE  /\ Promise!RoundTrip(x, f)[k] = Rescaled(Wet1(x, n, f)[k], f)
         /\ Promise!RoundTrip(x, f)[k] \in Int
<1>1. Promise!Length(x) = n
  BY LengthIs
<1>2. Wet1(x, n, f)[k] \in Int
  <2>1. PICK w : w = Wet1(x, n, f) /\ w \in Signals(n)
    BY SignalsOfStages
  <2> QED
    BY <2>1 DEF Signals
<1>3. CASE f = 1
  <2>1. Promise!RoundTrip(x, f) = Promise!Overloaded(x, 1)
    <3>1. f = 1 /\ f # 2 /\ f # 4
      BY <1>3
    <3> QED
      BY <3>1, Zenon DEF Promise!RoundTrip
  <2>2. Promise!RoundTrip(x, 1)[k] = Wet1(x, n, 1)[k]
    BY <1>3, <2>1, ScalesAre DEF Wet1
  <2> QED
    BY <1>2, <1>3, <2>2, ScalesAre
<1>4. CASE f = 2
  <2>0. f = 2 /\ f # 1 /\ f # 4
    BY <1>4
  <2>1. Promise!RoundTrip(x, f) =
          LET wet2 == Promise!Lowered(Promise!Overloaded(Promise!Raised(x, TapsA), TapUnit), TapsA)
          IN  Promise!Signal(Promise!Length(x), LAMBDA j : wet2[j] \div (TapUnit * TapUnit))
    BY <2>0, Zenon DEF Promise!RoundTrip
  <2>2. Promise!RoundTrip(x, 2)
          = [j \in 0..n-1 |-> Wet1(x, n, 2)[j] \div (TapUnit * TapUnit)]
    BY <1>1, <2>0, <2>1, ScalesAre DEF Promise!Signal, Wet1, Hot2
  <2>3. Promise!RoundTrip(x, 2)[k] = Wet1(x, n, 2)[k] \div (TapUnit * TapUnit)
    BY <2>2, Zenon
  <2> QED
    BY <1>2, <1>4, <2>3, ScalesAre, RescaledIsInt
<1>5. CASE f = 4
  <2>0. f = 4 /\ f # 1 /\ f # 2
    BY <1>5
  <2>1. Promise!RoundTrip(x, f) =
          LET high == Promise!Raised(Promise!Raised(x, TapsA), TapsB)
              wet2 == Promise!Lowered(Promise!Lowered(
                        Promise!Overloaded(high, TapUnit * TapUnit), TapsB), TapsA)
          IN  Promise!Signal(Promise!Length(x), LAMBDA j :
                       wet2[j] \div (TapUnit * TapUnit * TapUnit * TapUnit))
    BY <2>0, Zenon DEF Promise!RoundTrip
  <2>2. Promise!RoundTrip(x, 4)
          = [j \in 0..n-1 |-> Wet1(x, n, 4)[j] \div (TapUnit * TapUnit * TapUnit * TapUnit)]
    BY <1>1, <2>0, <2>1, ScalesAre DEF Promise!Signal, Wet1, Hot4, High4, Back4
  <2>3. Promise!RoundTrip(x, 4)[k]
          = Wet1(x, n, 4)[k] \div (TapUnit * TapUnit * TapUnit * TapUnit)
    BY <2>2, Zenon
  <2> QED
    BY <1>2, <1>5, <2>3, ScalesAre, RescaledIsInt
<1> QED
  BY <1>3, <1>4, <1>5

LEMMA WetIs ==
  ASSUME NEW f \in {1, 2, 4}, NEW c \in 1..2, NEW k \in 0..Len(Stream)-1
  PROVE  /\ Promise!Wet[f][c][k] = Rescaled(Wet1(Dry(c), Len(Stream), f)[k], f)
         /\ Promise!Wet[f][c][k] \in Int
<1>1. Promise!Wet[f][c] = Promise!RoundTrip(Dry(c), f)
  BY Zenon DEF Promise!Wet, Promise!Signal, Promise!ToFloat, ToFloat, Dry
<1>2. Dry(c) \in Signals(Len(Stream)) /\ Len(Stream) \in Nat
  BY DryIs, StreamIsFrames
<1> QED
  BY <1>1, <1>2, RoundTripIs

\* A crossfade goes on from wherever it has come to.
LEMMA GlideGoesOn ==
  ASSUME NEW p \in Int, NEW t \in Int, NEW n \in Nat, NEW a \in 0..n, NEW m \in 0..n-a
  PROVE  \A i \in 0..m : Glide(Glide(p, t, n)[a], t, m)[i] = Glide(p, t, n)[a + i]
<1>1. PICK g : g = Glide(p, t, n)
  OBVIOUS
<1>2. /\ g \in [0..n -> Int] /\ \A i \in 1..n : g[i] = NextPower(g[i - 1], t)
  <2>1. /\ Glide(p, t, n) \in [0..n -> Int]
        /\ \A i \in 1..n : Glide(p, t, n)[i] = NextPower(Glide(p, t, n)[i - 1], t)
    BY GlideIs
  <2> QED
    BY <1>1, <2>1, Zenon
<1>3. g[a] \in Int /\ m \in Nat
  BY <1>2
<1>4. PICK b \in Int : b = g[a]
  BY <1>3
<1>4a. PICK h : h = Glide(b, t, m)
  OBVIOUS
<1>5. /\ h \in [0..m -> Int] /\ h[0] = g[a]
      /\ \A i \in 1..m : h[i] = NextPower(h[i - 1], t)
  <2>1. /\ Glide(b, t, m) \in [0..m -> Int] /\ Glide(b, t, m)[0] = b
        /\ \A i \in 1..m : Glide(b, t, m)[i] = NextPower(Glide(b, t, m)[i - 1], t)
    BY <1>3, GlideIs, Zenon
  <2> QED
    BY <1>4, <1>4a, <2>1
<1> DEFINE S == {i \in 0..m : h[i] = g[a + i]}
<1>6. 0 \in S
  BY <1>3, <1>5
<1>7. ASSUME NEW i \in 1..m, i - 1 \in S
      PROVE  i \in S
  <2>1. PICK j \in 1..n : j = a + i
    OBVIOUS
  <2>2. j - 1 = a + (i - 1)
    BY <2>1
  <2>3. h[i - 1] = g[j - 1]
    BY <1>7, <2>2
  <2>4. h[i] = NextPower(h[i - 1], t) /\ g[j] = NextPower(g[j - 1], t)
    BY <1>2, <1>5
  <2>5. h[i] = g[j]
    BY <2>3, <2>4, Zenon
  <2> QED
    BY <2>1, <2>5
<1>8. 0..m \subseteq S
  <2> HIDE DEF S
  <2> QED
    BY <1>3, <1>6, <1>7, InductionUpTo
<1> QED
  BY <1>1, <1>4, <1>4a, <1>8

-----------------------------------------------------------------------------
(* A block under way. *)

\* Frame k of the stream with the crossfade at p, in one channel.
Sound(f, k, p, c) ==
  LET dry == ToFloat(Stream[k][c])
  IN  dry + (p * (Promise!Wet[f][c][k - 1] - dry)) \div PowerMax

\* For a block that takes frames t+1 and on, at factor f, along the crossfade g:
\* the crossfade is where the last mixed frame left it;
PowerIs(g) == power = g[IF pc = "convert" THEN done ELSE done + offset]

\* the host's buffer is processed as far as the pieces have come;
AudioIs(t, f, g) ==
  \A i \in 1..Len(audio), c \in 1..2 :
    audio[i][c] = IF i <= done THEN ToInt16(Sound(f, t + i, g[i], c)) ELSE Stream[t + i][c]

\* the instance's buffers are, as far as the chunks have;
BufsAre(t, f, g) ==
  pc # "convert" =>
  \A i \in 1..Len(bufs), c \in 1..2 :
    bufs[i][c] = IF i <= offset THEN Sound(f, t + done + i, g[done + i], c)
                                ELSE ToFloat(Stream[t + done + i][c])

\* the scratch is the input until it has been run, and then the wet signal;
ScratchIs(t, f) ==
  /\ pc \in {"pre", "run"} =>
       \A i \in 1..Len(wet), c \in 1..2 :
         wet[i][c] = Gain * ToFloat(Stream[t + done + offset + i][c])
  /\ pc \in {"post", "mix"} =>
       \A i \in 1..Len(wet), c \in 1..2 :
         wet[i][c] = Promise!Wet[f][c][t + done + offset + i - 1]

\* and the clips of the pieces are counted.
Clipped(t, f, g, n) ==
  {x \in (1..n) \X (1..2) : Clips(Sound(f, t + x[1], g[x[1]], x[2]))}
ClipsAre(t, f, g) == clipped = Cardinality(Clipped(t, f, g, done))

\* All of it, for a block.
Underway(t, f, g) ==
  /\ PowerIs(g) /\ AudioIs(t, f, g) /\ BufsAre(t, f, g) /\ ScratchIs(t, f)
  /\ ClipsAre(t, f, g)

\* How many frames of the stream the oversamplers have seen.
Passed ==
  taken + (IF pc = "idle" THEN 0 ELSE done)
        + (IF pc \in {"idle", "convert"} THEN 0 ELSE offset)
        + (IF pc \in {"post", "mix"} THEN Len(wet) ELSE 0)

\* The crossfade of the block under way.
Course == Glide(powerBefore, BypassTarget, Len(audio))

\* The inductive invariant.
Path ==
  /\ Shape
  /\ \A c \in 1..2 : Along(os[c], Dry(c), Len(Stream), Passed)
  /\ pc # "idle" => Underway(taken, os[1].factor, Course)

LEMMA CourseIs ==
  ASSUME Shape, pc # "idle"
  PROVE  /\ Course \in [0..Len(audio) -> Int] /\ Course[0] = powerBefore
         /\ BypassTarget \in Int
<1>1. BypassTarget \in Int
  BY SignalAssumption DEF BypassTarget
<1>2. powerBefore \in Int /\ Len(audio) \in Nat
  BY DEF Shape
<1> QED
  BY <1>1, <1>2, GlideIs DEF Course

LEMMA FreshIsAlong ==
  \A x, n : \A f \in {1, 2, 4} : Along(FreshOversampler(f), x, n, 0)
<1> SUFFICES ASSUME NEW x, NEW n, NEW f \in {1, 2, 4}
             PROVE  Along(FreshOversampler(f), x, n, 0)
  OBVIOUS
<1>1. PICK o : o = FreshOversampler(f)
  OBVIOUS
<1>2. o.upA = Empty /\ o.downA = Empty /\ o.upB = Empty /\ o.downB = Empty
  BY <1>1 DEF FreshOversampler
<1>3. 2 * 0 = 0
  OBVIOUS
<1> QED
  BY <1>1, <1>2, <1>3, FreshIsOversampler, EmptyHolds DEF Along

LEMMA PathInit == Init => Path
<1> SUFFICES ASSUME Init PROVE Path
  OBVIOUS
<1>1. Shape
  BY ShapeInit
<1>2. PICK f \in {1, 2, 4} : os = [c \in 1..2 |-> FreshOversampler(f)]
  BY DEF Init
<1>3. Passed = 0
  BY DEF Init, Passed
<1> QED
  BY <1>1, <1>2, <1>3, FreshIsAlong DEF Path, Init

LEMMA NoClips == \A t, f, g : Cardinality(Clipped(t, f, g, 0)) = 0
<1> SUFFICES ASSUME NEW t, NEW f, NEW g PROVE Clipped(t, f, g, 0) = {}
  BY FS_EmptySet
<1>1. 1..0 = {}
  OBVIOUS
<1> QED
  BY <1>1 DEF Clipped

LEMMA PathToggle == Path /\ Toggle => Path'
<1> SUFFICES ASSUME Path, Toggle PROVE Path'
  OBVIOUS
<1>1. Shape'
  BY ShapeStep DEF Path, Next, Audio
<1>2. Passed' = Passed
  BY DEF Toggle, Passed
<1> QED
  BY <1>1, <1>2 DEF Path, Toggle

LEMMA PathBegin == Path /\ (\E frames \in Blocks : Begin(frames)) => Path'
<1> SUFFICES ASSUME Path, NEW frames \in Blocks, Begin(frames) PROVE Path'
  OBVIOUS
<1>1. Shape /\ Shape'
  BY ShapeStep DEF Path, Next, Audio
<1>2. Passed' = Passed
  BY <1>1, StreamIsFrames DEF Begin, Passed, Shape
<1>3. PICK t \in Nat, n \in Nat : t = taken /\ n = frames
  BY <1>1, BlockAssumption, StreamIsFrames DEF Shape
<1>4. /\ pc' = "convert" /\ done' = 0 /\ clipped' = 0 /\ power' = powerBefore'
      /\ taken' = t
  BY <1>3 DEF Begin
<1>5. Len(audio') = n /\ \A i \in 1..n : audio'[i] = Stream[t + i]
  <2>1. PICK a \in Int, b \in Int : a = t + 1 /\ b = t + n
    OBVIOUS
  <2>2. audio' = SubSeq(Stream, a, b)
    BY <1>3, <2>1 DEF Begin
  <2>3. \A i \in a..b : Stream[i] \in Frame2
    <3>1. t + n <= Len(Stream) /\ Len(Stream) \in Nat
      BY <1>3, StreamIsFrames DEF Begin
    <3>2. \A i \in a..b : i \in 1..Len(Stream)
      BY <2>1, <3>1
    <3> QED
      BY <3>2, StreamIsFrames
  <2>4. /\ Len(SubSeq(Stream, a, b)) = IF a <= b THEN b - a + 1 ELSE 0
        /\ \A i \in 1 .. b - a + 1 : SubSeq(Stream, a, b)[i] = Stream[a + i - 1]
    BY <2>3, SubSeqProperties
  <2>5. \A i \in 1..n : a + i - 1 = t + i /\ i \in 1 .. b - a + 1
    BY <2>1
  <2>6. Len(audio') = n
    BY <2>1, <2>2, <2>4
  <2> QED
    BY <2>2, <2>4, <2>5, <2>6
<1>6. PICK f, g : f = os'[1].factor /\ g = Course'
  OBVIOUS
<1>7. g[0] = power'
  <2>1. PICK p \in Int, target \in Int : p = powerBefore' /\ target = BypassTarget'
    BY <1>1, SignalAssumption DEF Shape, BypassTarget
  <2>2. g = Glide(p, target, n)
    BY <1>5, <1>6, <2>1 DEF Course
  <2> QED
    BY <1>4, <2>1, <2>2, GlideIs
<1>8. PowerIs(g)'
  BY <1>4, <1>7 DEF PowerIs
<1>9. AudioIs(t, f, g)'
  <2> SUFFICES ASSUME NEW i \in 1..Len(audio'), NEW c \in 1..2
               PROVE  ~(i <= done') /\ audio'[i][c] = Stream[t + i][c]
    BY DEF AudioIs
  <2> QED
    BY <1>4, <1>5
<1>10. BufsAre(t, f, g)' /\ ScratchIs(t, f)'
  BY <1>4 DEF BufsAre, ScratchIs
<1>11. ClipsAre(t, f, g)'
  BY <1>4, NoClips DEF ClipsAre
<1>12. Underway(t, f, g)'
  BY <1>8, <1>9, <1>10, <1>11 DEF Underway
<1>13. \A c \in 1..2 : Along(os[c], Dry(c), Len(Stream), Passed)'
  BY <1>2 DEF Path, Begin
<1> QED
  BY <1>1, <1>4, <1>6, <1>12, <1>13 DEF Path

\* What stays with a block from its first step to its last.
LEMMA SameBlock ==
  ASSUME Path, [Next]_vars, pc # "idle", Len(audio') = Len(audio),
         UNCHANGED <<taken, bypass, powerBefore>>, os'[1].factor = os[1].factor,
         NEW t, NEW f, NEW g, t = taken, f = os[1].factor, g = Course,
         Underway(t, f, g)',
         \A c \in 1..2 : Along(os[c], Dry(c), Len(Stream), Passed)'
  PROVE  Path'
<1>1. Shape'
  BY ShapeStep DEF Path
<1>2. Course' = g
  BY DEF Course, BypassTarget
<1>3. taken' = t /\ os'[1].factor = f
  OBVIOUS
<1> QED
  BY <1>1, <1>2, <1>3 DEF Path

\* A block under way: the frames before it, its factor and its crossfade.
LEMMA BlockIs ==
  ASSUME Path, pc # "idle"
  PROVE  \E t \in Nat, f \in {1, 2, 4}, n \in Nat :
           /\ t = taken /\ f = os[1].factor /\ f = os[2].factor /\ n = Len(audio)
           /\ t + n <= Len(Stream) /\ done < n
           /\ Course \in [0..n -> Int]
           /\ Underway(t, f, Course)
<1>1. PICK t \in Nat, n \in Nat : t = taken /\ n = Len(audio)
  BY StreamIsFrames DEF Path, Shape
<1>2. PICK f \in {1, 2, 4} : f = os[1].factor /\ f = os[2].factor
  BY DEF Path, Shape, Oversamplers
<1> QED
  BY <1>1, <1>2, CourseIs DEF Path, Shape

LEMMA PathConvertIn == Path /\ ConvertIn => Path'
<1> SUFFICES ASSUME Path, ConvertIn PROVE Path'
  OBVIOUS
<1>0. Shape /\ pc = "convert" /\ pc # "idle" /\ done \in Nat
  BY DEF Path, Shape, ConvertIn
<1>1. PICK t \in Nat, f \in {1, 2, 4}, n \in Nat :
        /\ t = taken /\ f = os[1].factor /\ f = os[2].factor /\ n = Len(audio)
        /\ t + n <= Len(Stream) /\ done < n
        /\ Course \in [0..n -> Int]
        /\ Underway(t, f, Course)
  BY <1>0, BlockIs
<1>2. PICK g : g = Course
  OBVIOUS
<1>3. PICK m \in Nat : m = Lesser(n - done, Frames) /\ m > 0 /\ done + m <= n
  <2>1. \A a, b \in Nat \ {0} : Lesser(a, b) \in Nat /\ Lesser(a, b) > 0 /\ Lesser(a, b) <= a
    BY DEF Lesser
  <2>2. PICK a \in Nat \ {0} : a = n - done
    BY <1>0, <1>1
  <2> QED
    BY <1>0, <2>1, <2>2, BlockAssumption
<1>4. bufs' = [i \in 1..m |-> <<ToFloat(audio[done + i][1]), ToFloat(audio[done + i][2])>>]
  BY <1>1, <1>3 DEF ConvertIn
<1>5. Len(bufs') = m
  BY <1>4
<1>6. /\ pc' = "input" /\ offset' = 0
      /\ UNCHANGED <<taken, bypass, power, powerBefore, os, audio, done, clipped>>
  BY DEF ConvertIn
<1>7. PowerIs(g)'
  <2>1. power = g[done]
    BY <1>0, <1>1, <1>2 DEF Underway, PowerIs
  <2>2. done + 0 = done
    BY <1>0
  <2> QED
    BY <1>6, <2>1, <2>2 DEF PowerIs
<1>8. AudioIs(t, f, g)' /\ ClipsAre(t, f, g)'
  BY <1>1, <1>2, <1>6 DEF Underway, AudioIs, ClipsAre
<1>9. BufsAre(t, f, g)'
  <2> SUFFICES ASSUME NEW i \in 1..m, NEW c \in 1..2
               PROVE  bufs'[i][c] = ToFloat(Stream[t + done + i][c]) /\ ~(i <= offset')
    BY <1>5, <1>6 DEF BufsAre
  <2>1. bufs'[i][c] = ToFloat(audio[done + i][c])
    BY <1>4
  <2>2. PICK j \in 1..n : j = done + i /\ ~(j <= done)
    BY <1>0, <1>3
  <2>3. t + j = t + done + i
    BY <1>0, <2>2
  <2>4. audio[j][c] = Stream[t + j][c]
    BY <1>1, <2>2 DEF Underway, AudioIs
  <2> QED
    BY <1>6, <2>1, <2>2, <2>3, <2>4
<1>10. ScratchIs(t, f)'
  BY <1>6 DEF ScratchIs
<1>11. Passed' = Passed
  BY <1>0, <1>6 DEF Passed
<1>12. \A c \in 1..2 : Along(os[c], Dry(c), Len(Stream), Passed)'
  BY <1>6, <1>11 DEF Path
<1>13. Underway(t, f, g)'
  BY <1>7, <1>8, <1>9, <1>10 DEF Underway
<1>14. [Next]_vars
  BY DEF Next, Audio
<1> QED
  BY <1>0, <1>1, <1>2, <1>6, <1>12, <1>13, <1>14, SameBlock

LEMMA PathInput == Path /\ Input => Path'
<1> SUFFICES ASSUME Path, Input PROVE Path'
  OBVIOUS
<1>0. /\ Shape /\ pc = "input" /\ pc # "idle" /\ done \in Nat /\ offset \in Nat
      /\ Len(bufs) \in Nat /\ offset < Len(bufs)
  BY DEF Path, Shape, Input
<1>1. PICK t \in Nat, f \in {1, 2, 4}, n \in Nat :
        /\ t = taken /\ f = os[1].factor /\ f = os[2].factor /\ n = Len(audio)
        /\ t + n <= Len(Stream) /\ done < n
        /\ Course \in [0..n -> Int]
        /\ Underway(t, f, Course)
  BY <1>0, BlockIs
<1>2. PICK g : g = Course
  OBVIOUS
<1>3. PICK m \in Nat :
        m = Lesser(Len(bufs) - offset, MaxBlock) /\ m > 0 /\ offset + m <= Len(bufs)
  <2>1. \A a, b \in Nat \ {0} : Lesser(a, b) \in Nat /\ Lesser(a, b) > 0 /\ Lesser(a, b) <= a
    BY DEF Lesser
  <2>0. PICK b \in Nat : b = Len(bufs) /\ offset < b
    BY <1>0
  <2>0a. b \in Nat /\ offset \in Nat /\ offset < b
    BY <1>0, <2>0
  <2>2. PICK a \in Nat \ {0} : a = b - offset
    BY <2>0a
  <2>3. Lesser(a, MaxBlock) \in Nat /\ Lesser(a, MaxBlock) > 0 /\ Lesser(a, MaxBlock) <= a
    BY <2>1, BlockAssumption
  <2>4. offset + a = b
    BY <1>0, <2>2
  <2> QED
    BY <1>0, <2>0, <2>2, <2>3, <2>4
<1>4. wet' = [i \in 1..m |-> <<Gain * bufs[offset + i][1], Gain * bufs[offset + i][2]>>]
  BY <1>3 DEF Input
<1>5. Len(wet') = m
  BY <1>4
<1>6. /\ pc' = "pre"
      /\ UNCHANGED <<taken, bypass, power, powerBefore, os, audio, done, clipped, bufs,
                     offset>>
  BY DEF Input
<1>7. PowerIs(g)'
  BY <1>0, <1>1, <1>2, <1>6 DEF Underway, PowerIs
<1>8. AudioIs(t, f, g)' /\ ClipsAre(t, f, g)' /\ BufsAre(t, f, g)'
  BY <1>0, <1>1, <1>2, <1>6 DEF Underway, AudioIs, ClipsAre, BufsAre
<1>9. ScratchIs(t, f)'
  <2> SUFFICES ASSUME NEW i \in 1..m, NEW c \in 1..2
               PROVE  wet'[i][c] = Gain * ToFloat(Stream[t + done + offset + i][c])
    BY <1>5, <1>6 DEF ScratchIs
  <2>1. wet'[i][c] = Gain * bufs[offset + i][c]
    BY <1>4
  <2>2. PICK j \in 1..Len(bufs) : j = offset + i /\ ~(j <= offset)
    BY <1>0, <1>3
  <2>3. t + done + j = t + done + offset + i
    BY <1>0, <2>2
  <2>4. bufs[j][c] = ToFloat(Stream[t + done + j][c])
    BY <1>0, <1>1, <2>2 DEF Underway, BufsAre
  <2> QED
    BY <2>1, <2>2, <2>3, <2>4
<1>10. Passed' = Passed
  BY <1>0, <1>6 DEF Passed
<1>11. \A c \in 1..2 : Along(os[c], Dry(c), Len(Stream), Passed)'
  BY <1>6, <1>10 DEF Path
<1>12. Underway(t, f, g)'
  BY <1>7, <1>8, <1>9 DEF Underway
<1>13. [Next]_vars
  BY DEF Next, Audio
<1> QED
  BY <1>0, <1>1, <1>2, <1>6, <1>11, <1>12, <1>13, SameBlock

LEMMA PathTap == Path /\ (PreTap \/ PostTap) => Path'
<1> SUFFICES ASSUME Path, PreTap \/ PostTap PROVE Path'
  OBVIOUS
<1>0. pc \in {"pre", "post"} /\ pc # "idle"
  BY DEF PreTap, PostTap
<1>1. PICK t \in Nat, f \in {1, 2, 4}, n \in Nat :
        /\ t = taken /\ f = os[1].factor /\ f = os[2].factor /\ n = Len(audio)
        /\ t + n <= Len(Stream) /\ done < n
        /\ Course \in [0..n -> Int]
        /\ Underway(t, f, Course)
  BY <1>0, BlockIs
<1>2. PICK g : g = Course
  OBVIOUS
<1>3. /\ UNCHANGED <<taken, bypass, power, powerBefore, os, audio, done, clipped, bufs,
                     offset, wet>>
      /\ \/ pc = "pre" /\ pc' \in {"pre", "run"}
         \/ pc = "post" /\ pc' \in {"post", "mix"}
  BY DEF PreTap, PostTap, Pushed, blockVars
<1>4. PowerIs(g)'
  BY <1>0, <1>1, <1>2, <1>3 DEF Underway, PowerIs
<1>5. AudioIs(t, f, g)' /\ ClipsAre(t, f, g)' /\ BufsAre(t, f, g)'
  BY <1>0, <1>1, <1>2, <1>3 DEF Underway, AudioIs, ClipsAre, BufsAre
<1>6. ScratchIs(t, f)'
  BY <1>0, <1>1, <1>3 DEF Underway, ScratchIs
<1>7. Passed' = Passed
  BY <1>0, <1>3 DEF Passed
<1>8. \A c \in 1..2 : Along(os[c], Dry(c), Len(Stream), Passed)'
  BY <1>3, <1>7 DEF Path
<1>9. Underway(t, f, g)'
  BY <1>4, <1>5, <1>6 DEF Underway
<1>10. [Next]_vars
  BY DEF Next, Audio
<1> QED
  BY <1>0, <1>1, <1>2, <1>3, <1>8, <1>9, <1>10, SameBlock

\* The samples of a chunk are those of a signal from k on.
Feeds(w, c, x, k, m) == \A i \in 1..m : w[i][c] = x[k + i - 1]

\* The sample loop takes a channel along its signal.
LEMMA RunIs ==
  ASSUME NEW n \in Nat, NEW x \in Signals(n), NEW P, NEW m \in Nat, NEW o, NEW w, NEW c,
         Run1(P, m, o, w, c), NEW k \in Nat, k + m <= n, Along(o, x, n, k),
         Feeds(w, c, x, k, m)
  PROVE  /\ \A i \in 0..m : Along(P[i].os, x, n, k + i)
         /\ \A i \in 1..m : P[i].y = Wet1(x, n, o.factor)[k + i - 1]
<1> DEFINE S == {i \in 0..m : Along(P[i].os, x, n, k + i)}
<1>1. 0 \in S
  <2>1. P[0].os = o /\ k + 0 = k
    BY DEF Run1
  <2> QED
    BY <2>1
<1>2. ASSUME NEW i \in 1..m, Along(P[i - 1].os, x, n, k + (i - 1))
      PROVE  Along(P[i].os, x, n, k + i) /\ P[i].y = Wet1(x, n, o.factor)[k + i - 1]
  <2>1. PICK j \in 0..n-1 : j = k + (i - 1) /\ j = k + i - 1 /\ j + 1 = k + i
    OBVIOUS
  <2>2. PICK b : b = P[i - 1].os
    OBVIOUS
  <2>3. Along(b, x, n, j) /\ b.factor = o.factor
    BY <1>2, <2>1, <2>2 DEF Run1
  <2>4. P[i] = ProcessSample(b, x[j], Overload(b.factor))
    BY <2>1, <2>2, <2>3 DEF Run1, Feeds
  <2>5. Along(P[i].os, x, n, j + 1) /\ P[i].y = Wet1(x, n, b.factor)[j]
    BY <2>3, <2>4, AlongStep
  <2> QED
    BY <2>1, <2>3, <2>5
<1>3. 0..m \subseteq S
  <2>1. \A i \in 1..m : i - 1 \in S => i \in S
    BY <1>2
  <2> HIDE DEF S
  <2> QED
    BY <1>1, <2>1, InductionUpTo
<1>4. \A i \in 0..m : Along(P[i].os, x, n, k + i)
  BY <1>3
<1>5. ASSUME NEW i \in 1..m
      PROVE  P[i].y = Wet1(x, n, o.factor)[k + i - 1]
  <2>1. i - 1 \in 0..m
    OBVIOUS
  <2> QED
    BY <1>2, <1>4, <2>1
<1> QED
  BY <1>4, <1>5

LEMMA PathRun == Path /\ Run => Path'
<1> SUFFICES ASSUME Path, Run PROVE Path'
  OBVIOUS
<1>0. /\ Shape /\ pc = "run" /\ pc # "idle" /\ done \in Nat /\ offset \in Nat
      /\ os \in [1..2 -> Oversamplers] /\ wet \in Seq(Frame2)
  BY DEF Path, Shape, Run
<1>1. PICK t \in Nat, f \in {1, 2, 4}, n \in Nat :
        /\ t = taken /\ f = os[1].factor /\ f = os[2].factor /\ n = Len(audio)
        /\ t + n <= Len(Stream) /\ done < n
        /\ Course \in [0..n -> Int]
        /\ Underway(t, f, Course)
  BY <1>0, BlockIs
<1>2. PICK g : g = Course
  OBVIOUS
<1>3. PICK m \in Nat, k \in Nat, N \in Nat :
        /\ m = Len(wet) /\ k = t + done + offset /\ N = Len(Stream) /\ k + m <= N /\ m > 0
        /\ k = Passed
  <2>0. Len(wet) \in Nat /\ Len(bufs) \in Nat /\ Len(Stream) \in Nat
    BY <1>0, StreamIsFrames DEF Shape
  <2>1. PICK m \in Nat, b \in Nat, N \in Nat :
          m = Len(wet) /\ b = Len(bufs) /\ N = Len(Stream)
    BY <2>0, Zenon
  <2>2. offset + m <= b /\ done + b <= n /\ t + n <= N /\ m > 0
    BY <1>0, <1>1, <2>1 DEF Shape, Processing
  <2>2a. done \in Nat /\ offset \in Nat
    BY <1>0
  <2>3. PICK k \in Nat : k = t + done + offset /\ k + m <= N
    BY <2>2, <2>2a
  <2>4. k = Passed
    BY <1>0, <1>1, <2>3 DEF Passed
  <2> QED
    BY <2>1, <2>2, <2>3, <2>4
<1>4. PICK P : P = [c \in 1..2 |-> Processed(c)]
  OBVIOUS
<1>5. ASSUME NEW c \in 1..2
      PROVE  /\ Along(P[c][m].os, Dry(c), N, k + m) /\ P[c][m].os.factor = f
             /\ \A i \in 1..m : Rescaled(P[c][i].y, f) = Promise!Wet[f][c][k + i - 1]
  <2>0. os[c].factor = f
    <3>1. c = 1 \/ c = 2
      OBVIOUS
    <3> QED
      BY <1>1, <3>1
  <2>1. PICK Q, o : Q = Processed(c) /\ o = os[c] /\ o.factor = f
    BY <2>0
  <2>2. Run1(Q, m, o, wet, c)
    BY <1>0, <1>3, <2>1, ProcessedIs
  <2>3. PICK x : x = Dry(c) /\ x \in Signals(N)
    BY <1>3, DryIs
  <2>4. Feeds(wet, c, x, k, m)
    <3> SUFFICES ASSUME NEW i \in 1..m PROVE wet[i][c] = x[k + i - 1]
      BY DEF Feeds
    <3>1. wet[i][c] = Gain * ToFloat(Stream[t + done + offset + i][c])
      BY <1>0, <1>1, <1>3 DEF Underway, ScratchIs
    <3>2. PICK j \in 0..N-1 : j = k + i - 1 /\ j + 1 = k + i
      BY <1>3
    <3>3. x[j] = Gain * ToFloat(Stream[j + 1][c])
      BY <1>3, <2>3 DEF Dry
    <3> QED
      BY <1>3, <3>1, <3>2, <3>3
  <2>5. Along(o, x, N, k)
    BY <1>3, <2>1, <2>3 DEF Path
  <2>6. /\ \A i \in 0..m : Along(Q[i].os, x, N, k + i)
        /\ \A i \in 1..m : Q[i].y = Wet1(x, N, f)[k + i - 1]
    <3>1. k + m <= N
      BY <1>3
    <3>2. /\ \A i \in 0..m : Along(Q[i].os, x, N, k + i)
          /\ \A i \in 1..m : Q[i].y = Wet1(x, N, o.factor)[k + i - 1]
      BY <2>2, <2>3, <2>4, <2>5, <3>1, RunIs
    <3> QED
      BY <2>1, <3>2
  <2>7. Q[m].os.factor = f /\ m \in 0..m
    BY <1>3, <2>1, <2>2 DEF Run1
  <2>8. ASSUME NEW i \in 1..m
        PROVE  Rescaled(Q[i].y, f) = Promise!Wet[f][c][k + i - 1]
    <3>1. PICK j \in 0..N-1 : j = k + i - 1
      BY <1>3
    <3>2. Promise!Wet[f][c][j] = Rescaled(Wet1(x, N, f)[j], f)
      BY <1>3, <2>3, <3>1, WetIs
    <3> QED
      BY <2>6, <3>1, <3>2
  <2> QED
    BY <1>4, <2>1, <2>3, <2>6, <2>7, <2>8
<1>6. os' = [c \in 1..2 |-> P[c][m].os]
  BY <1>3, <1>4 DEF Run
<1>7. wet' = [i \in 1..m |-> <<Rescaled(P[1][i].y, f), Rescaled(P[2][i].y, f)>>]
  <2>1. wet' = [i \in 1..Len(wet) |-> <<Rescaled(P[1][i].y, os[1].factor),
                                       Rescaled(P[2][i].y, os[2].factor)>>]
    BY <1>4 DEF Run
  <2> QED
    BY <1>1, <1>3, <2>1
<1>8. Len(wet') = m /\ os'[1].factor = f
  BY <1>3, <1>5, <1>6, <1>7
<1>9. /\ pc' = "post"
      /\ UNCHANGED <<taken, bypass, power, powerBefore, audio, done, clipped, bufs, offset>>
  BY DEF Run
<1>10. PowerIs(g)'
  BY <1>0, <1>1, <1>2, <1>9 DEF Underway, PowerIs
<1>11. AudioIs(t, f, g)' /\ ClipsAre(t, f, g)' /\ BufsAre(t, f, g)'
  BY <1>0, <1>1, <1>2, <1>9 DEF Underway, AudioIs, ClipsAre, BufsAre
<1>12. ScratchIs(t, f)'
  <2> SUFFICES ASSUME NEW i \in 1..m, NEW c \in 1..2
               PROVE  wet'[i][c] = Promise!Wet[f][c][t + done + offset + i - 1]
    BY <1>8, <1>9 DEF ScratchIs
  <2>1. wet'[i][c] = Rescaled(P[c][i].y, f)
    BY <1>7
  <2> QED
    BY <1>3, <1>5, <2>1
<1>13. Passed' = k + m
  <2>1. Passed' = taken + done + offset + m
    BY <1>8, <1>9 DEF Passed
  <2> QED
    BY <1>1, <1>3, <2>1
<1>14. \A c \in 1..2 : Along(os[c], Dry(c), Len(Stream), Passed)'
  BY <1>3, <1>5, <1>6, <1>13
<1>15. Underway(t, f, g)'
  BY <1>10, <1>11, <1>12 DEF Underway
<1>16. [Next]_vars
  BY DEF Next, Audio
<1> QED
  BY <1>0, <1>1, <1>2, <1>8, <1>9, <1>14, <1>15, <1>16, SameBlock

LEMMA PathMix == Path /\ Mix => Path'
<1> SUFFICES ASSUME Path, Mix PROVE Path'
  OBVIOUS
<1>0. /\ Shape /\ pc = "mix" /\ pc # "idle" /\ done \in Nat /\ offset \in Nat
      /\ powerBefore \in Int
  BY DEF Path, Shape, Mix
<1>1. PICK t \in Nat, f \in {1, 2, 4}, n \in Nat :
        /\ t = taken /\ f = os[1].factor /\ f = os[2].factor /\ n = Len(audio)
        /\ t + n <= Len(Stream) /\ done < n
        /\ Course \in [0..n -> Int]
        /\ Underway(t, f, Course)
  BY <1>0, BlockIs
<1>2. PICK g : g = Course
  OBVIOUS
<1>3. PICK m \in Nat, b \in Nat :
        /\ m = Len(wet) /\ b = Len(bufs) /\ offset + m <= b /\ done + b <= n /\ m > 0
  BY <1>1 DEF Path, Shape, Processing, Mix
<1>4. PICK a \in 0..n : a = done + offset /\ a + m <= n
  <2>1. offset + m <= b /\ done + b <= n /\ done \in Nat /\ offset \in Nat
    BY <1>0, <1>3
  <2> QED
    BY <2>1
<1>5. PICK at : at = Fade(m)
  OBVIOUS
<1>6. \A i \in 0..m : at[i] = g[a + i]
  <2>1. PICK p \in Int, target \in Int : p = powerBefore /\ target = BypassTarget
    BY <1>0, CourseIs
  <2>2. g = Glide(p, target, n)
    BY <1>1, <1>2, <2>1 DEF Course
  <2>3. power = g[a]
    BY <1>0, <1>1, <1>2, <1>4 DEF Underway, PowerIs
  <2>4. at = Glide(Glide(p, target, n)[a], target, m)
    BY <1>5, <2>1, <2>2, <2>3, FadesAreGlides
  <2>5. m \in 0..n-a
    BY <1>4
  <2> QED
    BY <2>2, <2>4, <2>5, GlideGoesOn
<1>7. /\ power' = at[m] /\ offset' = offset + m /\ pc' \in {"input", "out"}
      /\ UNCHANGED <<taken, bypass, powerBefore, os, audio, done, clipped, wet>>
  BY <1>3, <1>5 DEF Mix
<1> DEFINE mixed(i, c) == LET dry == bufs[offset + i][c]
                          IN  dry + (at[i] * (wet[i][c] - dry)) \div PowerMax
<1>8. bufs' = [k \in 1..b |-> IF k - offset \in 1..m
                                THEN <<mixed(k - offset, 1), mixed(k - offset, 2)>>
                                ELSE bufs[k]]
  BY <1>3, <1>5 DEF Mix
<1>9. ASSUME NEW k \in 1..b, k - offset \in 1..m, NEW c \in 1..2
      PROVE  mixed(k - offset, c) = Sound(f, t + done + k, g[done + k], c)
  <2>1. PICK i \in 1..m : i = k - offset
    BY <1>9
  <2>2. offset + i = k /\ ~(k <= offset) /\ a + i = done + k
    BY <1>0, <1>4, <2>1
  <2>3. bufs[k][c] = ToFloat(Stream[t + done + k][c])
    BY <1>0, <1>1, <1>3, <2>2 DEF Underway, BufsAre
  <2>4. wet[i][c] = Promise!Wet[f][c][t + done + offset + i - 1]
    BY <1>0, <1>1, <1>3, <2>1 DEF Underway, ScratchIs
  <2>5. t + done + offset + i - 1 = (t + done + k) - 1
    BY <1>0, <2>2
  <2>6. at[i] = g[done + k]
    BY <1>6, <2>2
  <2>7. PICK d, j : d = ToFloat(Stream[j][c]) /\ j = t + done + k
    OBVIOUS
  <2>8. mixed(i, c) = d + (g[done + k] * (Promise!Wet[f][c][j - 1] - d)) \div PowerMax
    BY <2>2, <2>3, <2>4, <2>5, <2>6, <2>7
  <2>9. Sound(f, j, g[done + k], c)
          = d + (g[done + k] * (Promise!Wet[f][c][j - 1] - d)) \div PowerMax
    BY <2>7, Zenon DEF Sound
  <2> QED
    BY <2>1, <2>7, <2>8, <2>9
<1> HIDE DEF mixed
<1>10. Len(bufs') = b
  BY <1>8
<1>11. BufsAre(t, f, g)'
  <2> SUFFICES ASSUME NEW k \in 1..b, NEW c \in 1..2
               PROVE  bufs'[k][c] = IF k <= offset'
                                      THEN Sound(f, t + done + k, g[done + k], c)
                                      ELSE ToFloat(Stream[t + done + k][c])
    BY <1>7, <1>10 DEF BufsAre
  <2>1. CASE k - offset \in 1..m
    <3>1. bufs'[k][c] = mixed(k - offset, c)
      BY <1>8, <2>1
    <3>2. k <= offset'
      BY <1>0, <1>7, <2>1
    <3> QED
      BY <1>9, <2>1, <3>1, <3>2
  <2>2. CASE ~(k - offset \in 1..m)
    <3>1. bufs'[k] = bufs[k]
      BY <1>8, <2>2
    <3>2. k <= offset' <=> k <= offset
      BY <1>0, <1>7, <2>2
    <3>3. bufs[k][c] = IF k <= offset
                         THEN Sound(f, t + done + k, g[done + k], c)
                         ELSE ToFloat(Stream[t + done + k][c])
      BY <1>0, <1>1, <1>2, <1>3 DEF Underway, BufsAre
    <3> QED
      BY <3>1, <3>2, <3>3
  <2> QED
    BY <2>1, <2>2
<1>12. PowerIs(g)'
  <2>1. a + m = done + offset' /\ m \in 0..m
    BY <1>0, <1>4, <1>7
  <2> QED
    BY <1>6, <1>7, <2>1 DEF PowerIs
<1>13. AudioIs(t, f, g)' /\ ClipsAre(t, f, g)'
  BY <1>1, <1>2, <1>7 DEF Underway, AudioIs, ClipsAre
<1>14. ScratchIs(t, f)'
  BY <1>7 DEF ScratchIs
<1>15. Passed' = Passed
  <2>1. Passed = t + done + offset + m
    BY <1>0, <1>1, <1>3 DEF Passed
  <2>2. Passed' = t + done + (offset + m) + 0
    BY <1>1, <1>7 DEF Passed
  <2> QED
    BY <1>0, <2>1, <2>2
<1>16. \A c \in 1..2 : Along(os[c], Dry(c), Len(Stream), Passed)'
  BY <1>7, <1>15 DEF Path
<1>17. Underway(t, f, g)'
  BY <1>11, <1>12, <1>13, <1>14 DEF Underway
<1>18. [Next]_vars
  BY DEF Next, Audio
<1> QED
  BY <1>0, <1>1, <1>2, <1>7, <1>16, <1>17, <1>18, SameBlock

\* A piece of m frames has the sound of the block behind its first d.
Carries(B, t, f, g, d, m) ==
  \A i \in 1..m, c \in 1..2 : B[i][c] = Sound(f, t + (d + i), g[d + i], c)

\* Its clips.
ClipsOf(B, m) == {x \in (1..m) \X (1..2) : Clips(B[x[1]][x[2]])}

\* The clips of m more frames are those of a piece of that length.
LEMMA ClipsGoOn ==
  ASSUME NEW t, NEW f, NEW g, NEW d \in Nat, NEW m \in Nat, NEW B,
         Carries(B, t, f, g, d, m)
  PROVE  Cardinality(Clipped(t, f, g, d + m))
           = Cardinality(Clipped(t, f, g, d)) + Cardinality(ClipsOf(B, m))
<1> DEFINE A == Clipped(t, f, g, d)
           C == {x \in (1..m) \X (1..2) : Clips(B[x[1]][x[2]])}
           D == {x \in (d+1..d+m) \X (1..2) : Clips(Sound(f, t + x[1], g[x[1]], x[2]))}
           shift == [x \in C |-> <<d + x[1], x[2]>>]
<1>1. /\ IsFiniteSet(A) /\ Cardinality(A) \in Nat
      /\ IsFiniteSet(C) /\ Cardinality(C) \in Nat
  BY CountOfSamples DEF Clipped
<1>2. \A x \in C : <<d + x[1], x[2]>> \in D
  <2> SUFFICES ASSUME NEW i \in 1..m, NEW c \in 1..2, Clips(B[i][c])
               PROVE  <<d + i, c>> \in D
    OBVIOUS
  <2>1. PICK j \in d+1..d+m : j = d + i
    OBVIOUS
  <2>2. B[i][c] = Sound(f, t + j, g[j], c)
    BY <2>1 DEF Carries
  <2>3. Clips(Sound(f, t + j, g[j], c))
    BY <2>2
  <2> QED
    BY <2>1, <2>3
<1>3. \A y \in D : \E x \in C : y = <<d + x[1], x[2]>>
  <2> SUFFICES ASSUME NEW j \in d+1..d+m, NEW c \in 1..2, Clips(Sound(f, t + j, g[j], c))
               PROVE  \E x \in C : <<j, c>> = <<d + x[1], x[2]>>
    OBVIOUS
  <2>0. PICK i \in Int : i = j - d
    OBVIOUS
  <2>1. i \in 1..m /\ j = d + i
    BY <2>0
  <2>2. B[i][c] = Sound(f, t + j, g[j], c)
    BY <2>1 DEF Carries
  <2>3. Clips(B[i][c])
    BY <2>2
  <2>4. <<i, c>> \in C
    <3>1. PICK x : x = <<i, c>>
      OBVIOUS
    <3>2. x \in (1..m) \X (1..2) /\ x[1] = i /\ x[2] = c
      BY <2>1, <3>1
    <3> QED
      BY <2>3, <3>1, <3>2
  <2> QED
    BY <2>1, <2>4
<1>4. Clipped(t, f, g, d + m) = A \cup D
  <2>1. 1..d+m = (1..d) \cup (d+1..d+m)
    OBVIOUS
  <2> QED
    BY <2>1, Zenon DEF Clipped
<1>5. A \cap D = {}
  <2>1. (1..d) \cap (d+1..d+m) = {}
    OBVIOUS
  <2> QED
    BY <2>1 DEF Clipped
<1>6. C \subseteq (1..m) \X (1..2)
  OBVIOUS
<1> HIDE DEF A, C, D
<1>7. shift \in Surjection(C, D) /\ shift \in Injection(C, D)
  <2>1. shift \in [C -> D]
    BY <1>2
  <2>2. \A y \in D : \E x \in C : shift[x] = y
    BY <1>3
  <2>3. \A x, y \in C : shift[x] = shift[y] => x = y
    BY <1>6
  <2> QED
    BY <2>1, <2>2, <2>3 DEF Surjection, Injection, IsInjective
<1>8. IsFiniteSet(D) /\ Cardinality(D) = Cardinality(C)
  <2> HIDE DEF shift
  <2> QED
    BY <1>1, <1>7, FS_Surjection
<1>9. Cardinality(A \cup D) = Cardinality(A) + Cardinality(D) - Cardinality(A \cap D)
  BY <1>1, <1>8, FS_Union
<1>10. Cardinality(A \cap D) = 0
  BY <1>5, FS_EmptySet
<1>11. Cardinality(Clipped(t, f, g, d + m)) = Cardinality(A) + Cardinality(C)
  <2>1. PICK a \in Nat, k \in Nat : a = Cardinality(A) /\ k = Cardinality(C)
    BY <1>1
  <2>2. Cardinality(A \cup D) = a + k - 0
    BY <1>8, <1>9, <1>10, <2>1, Zenon
  <2>3. a + k - 0 = a + k
    OBVIOUS
  <2> QED
    BY <1>4, <2>1, <2>2, <2>3, Zenon
<1> QED
  BY <1>11 DEF A, C, ClipsOf

\* What the host's buffer is when a piece has gone back to it.
LEMMA OutIs ==
  ASSUME Path, ConvertOut,
         NEW t \in Nat, NEW f \in {1, 2, 4}, NEW n \in Nat, NEW g,
         t = taken, f = os[1].factor, n = Len(audio), g = Course
  PROVE  /\ done' \in 0..n /\ Len(audio') = n /\ audio' \in [1..n -> Int \X Int]
         /\ power' = g[done'] /\ AudioIs(t, f, g)' /\ ClipsAre(t, f, g)'
<1>0. /\ Shape /\ pc = "out" /\ pc # "idle" /\ done \in Nat /\ offset \in Nat
      /\ offset = Len(bufs) /\ clipped \in Int
  BY DEF Path, Shape, ConvertOut
<1>1. Underway(t, f, g)
  BY <1>0 DEF Path
<1>2. PICK m \in Nat : m = Len(bufs) /\ m = offset /\ done + m <= n
  BY <1>0 DEF Shape
<1>3. audio' = [i \in 1..n |->
                 IF i - done \in 1..m
                   THEN <<ToInt16(bufs[i - done][1]), ToInt16(bufs[i - done][2])>>
                   ELSE audio[i]]
  BY <1>2 DEF ConvertOut
<1>4. done' = done + m /\ power' = power
  BY <1>2 DEF ConvertOut
<1>5. Len(audio') = n /\ audio' \in [1..n -> Int \X Int]
  <2>1. audio' \in Seq(Int \X Int)
    BY <1>0, ShapeConvertOut DEF Shape, Frame2
  <2>2. Len(audio') = n
    BY <1>3
  <2>3. \A S, z : z \in Seq(S) => z \in [1..Len(z) -> S]
    OBVIOUS
  <2> QED
    BY <2>1, <2>2, <2>3, Zenon
<1>6. done' \in 0..n
  BY <1>0, <1>2, <1>4
<1>7. power' = g[done']
  BY <1>0, <1>1, <1>2, <1>4 DEF Underway, PowerIs
<1>8. Carries(bufs, t, f, g, done, m)
  <2> SUFFICES ASSUME NEW i \in 1..m, NEW c \in 1..2
               PROVE  bufs[i][c] = Sound(f, t + (done + i), g[done + i], c)
    BY DEF Carries
  <2>1. bufs[i][c] = Sound(f, t + done + i, g[done + i], c)
    BY <1>0, <1>1, <1>2 DEF Underway, BufsAre
  <2>2. t + done + i = t + (done + i)
    BY <1>0
  <2> QED
    BY <2>1, <2>2
<1>9. AudioIs(t, f, g)'
  <2> SUFFICES ASSUME NEW i \in 1..n, NEW c \in 1..2
               PROVE  audio'[i][c] = IF i <= done' THEN ToInt16(Sound(f, t + i, g[i], c))
                                                   ELSE Stream[t + i][c]
    BY <1>5 DEF AudioIs
  <2>1. CASE i - done \in 1..m
    <3>1. audio'[i][c] = ToInt16(bufs[i - done][c])
      BY <1>3, <2>1
    <3>2. PICK k \in 1..m : k = i - done
      BY <2>1
    <3>3. done + k = i /\ i <= done'
      BY <1>0, <1>4, <3>2
    <3>4. bufs[k][c] = Sound(f, t + i, g[i], c)
      BY <1>8, <3>3 DEF Carries
    <3> QED
      BY <3>1, <3>2, <3>3, <3>4
  <2>2. CASE ~(i - done \in 1..m)
    <3>1. audio'[i] = audio[i]
      BY <1>3, <2>2
    <3>2. i <= done' <=> i <= done
      BY <1>0, <1>4, <2>2
    <3>3. audio[i][c] = IF i <= done THEN ToInt16(Sound(f, t + i, g[i], c))
                                     ELSE Stream[t + i][c]
      BY <1>1 DEF Underway, AudioIs
    <3> QED
      BY <3>1, <3>2, <3>3
  <2> QED
    BY <2>1, <2>2
<1>10. ClipsAre(t, f, g)'
  <2>1. clipped' = clipped + Cardinality(ClipsOf(bufs, m))
    BY <1>2 DEF ConvertOut, ClipsOf
  <2>2. clipped = Cardinality(Clipped(t, f, g, done))
    BY <1>1 DEF Underway, ClipsAre
  <2>3. Cardinality(Clipped(t, f, g, done + m))
          = Cardinality(Clipped(t, f, g, done)) + Cardinality(ClipsOf(bufs, m))
    BY <1>0, <1>8, ClipsGoOn
  <2> QED
    BY <1>4, <2>1, <2>2, <2>3 DEF ClipsAre
<1> QED
  BY <1>5, <1>6, <1>7, <1>9, <1>10

LEMMA PathConvertOut == Path /\ ConvertOut => Path'
<1> SUFFICES ASSUME Path, ConvertOut PROVE Path'
  OBVIOUS
<1>0. /\ Shape /\ pc = "out" /\ pc # "idle" /\ done \in Nat /\ offset \in Nat
      /\ offset = Len(bufs)
  BY DEF Path, Shape, ConvertOut
<1>1. PICK t \in Nat, f \in {1, 2, 4}, n \in Nat :
        /\ t = taken /\ f = os[1].factor /\ f = os[2].factor /\ n = Len(audio)
        /\ t + n <= Len(Stream) /\ done < n
        /\ Course \in [0..n -> Int]
        /\ Underway(t, f, Course)
  BY <1>0, BlockIs
<1>2. PICK g : g = Course
  OBVIOUS
<1>3. /\ done' \in 0..n /\ Len(audio') = n
      /\ power' = g[done'] /\ AudioIs(t, f, g)' /\ ClipsAre(t, f, g)'
  BY <1>1, <1>2, OutIs
<1>4. /\ done' = done + offset
      /\ UNCHANGED <<bypass, powerBefore, os, bufs, offset, wet>>
  BY <1>0 DEF ConvertOut
<1>5. Passed = t + done + offset
  BY <1>0, <1>1 DEF Passed
<1>6. CASE done' < Len(audio)
  <2>1. pc' = "convert" /\ taken' = taken
    BY <1>6 DEF ConvertOut
  <2>3. PowerIs(g)' /\ BufsAre(t, f, g)' /\ ScratchIs(t, f)'
    BY <1>3, <2>1 DEF PowerIs, BufsAre, ScratchIs
  <2>4. Underway(t, f, g)'
    BY <1>3, <2>3 DEF Underway
  <2>5. Passed' = Passed
    <3>1. Passed' = t + done' + 0 + 0
      BY <1>1, <2>1 DEF Passed
    <3> QED
      BY <1>0, <1>4, <1>5, <3>1
  <2>6. \A c \in 1..2 : Along(os[c], Dry(c), Len(Stream), Passed)'
    BY <1>4, <2>5 DEF Path
  <2>7. [Next]_vars
    BY DEF Next, Audio
  <2> QED
    BY <1>0, <1>1, <1>2, <1>3, <1>4, <2>1, <2>4, <2>6, <2>7, SameBlock
<1>7. CASE ~(done' < Len(audio))
  <2>1. pc' = "idle" /\ taken' = t + n
    BY <1>1, <1>7 DEF ConvertOut
  <2>2. done' = n
    BY <1>1, <1>3, <1>7
  <2>3. Passed' = Passed
    <3>1. Passed' = t + n + 0 + 0 + 0
      BY <2>1 DEF Passed
    <3> QED
      BY <1>0, <1>4, <1>5, <2>2, <3>1
  <2>4. Shape'
    BY <1>0, ShapeConvertOut
  <2> QED
    BY <1>4, <2>1, <2>3, <2>4 DEF Path
<1> QED
  BY <1>6, <1>7

LEMMA PathStep == Path /\ [Next]_vars => Path'
<1> SUFFICES ASSUME Path, [Next]_vars PROVE Path'
  OBVIOUS
<1>1. CASE EditorPre \/ EditorPost \/ UNCHANGED vars
  <2>1. UNCHANGED blockVars
    BY <1>1 DEF EditorPre, EditorPost, vars
  <2>2. /\ UNCHANGED <<taken, bypass, power, powerBefore, os, audio, done, bufs, offset,
                       wet, clipped, pc>>
    BY <2>1 DEF blockVars
  <2>3. Shape'
    BY ShapeStep DEF Path
  <2>4. Passed' = Passed /\ Course' = Course
    BY <2>2 DEF Passed, Course, BypassTarget
  <2>5. ASSUME NEW t, NEW f, NEW g, Underway(t, f, g)
        PROVE  Underway(t, f, g)'
    BY <2>2, <2>5 DEF Underway, PowerIs, AudioIs, BufsAre, ScratchIs, ClipsAre
  <2>6. PICK t, f, g : t = taken /\ f = os[1].factor /\ g = Course
    OBVIOUS
  <2>7. taken' = t /\ os'[1].factor = f /\ Course' = g
    BY <2>2, <2>4, <2>6
  <2>8. pc' # "idle" => Underway(t, f, g)'
    BY <2>2, <2>5, <2>6 DEF Path
  <2>9. \A c \in 1..2 : Along(os[c], Dry(c), Len(Stream), Passed)'
    BY <2>2, <2>4 DEF Path
  <2> QED
    BY <2>3, <2>7, <2>8, <2>9 DEF Path
<1> QED
  BY <1>1, PathToggle, PathBegin, PathConvertIn, PathInput, PathTap, PathRun, PathMix,
     PathConvertOut DEF Next, Audio

-----------------------------------------------------------------------------
(* The path implements the stream. *)

\* The promise's operators are the code's: what is heard, how it leaves as int16, and
\* what is counted.
LEMMA HeardIs ==
  \A k, p : \A c \in 1..2 : Promise!Heard(k, p)[c] = Sound(os[1].factor, k, p, c)
<1> SUFFICES ASSUME NEW k, NEW p, NEW c \in 1..2
             PROVE  Promise!Heard(k, p)[c] = Sound(os[1].factor, k, p, c)
  OBVIOUS
<1> QED
  BY Zenon DEF Promise!Heard, Sound, Promise!ToFloat, ToFloat

LEMMA EndsAreSame ==
  /\ \A y : Promise!ToInt16(y) = ToInt16(y)
  /\ \A y : Promise!Clips(y) = Clips(y)
<1>1. ASSUME NEW y PROVE Promise!ToInt16(y) = ToInt16(y)
  BY Zenon DEF Promise!ToInt16, ToInt16, Promise!OutScale, OutScale, Promise!Truncate,
     Truncate, Promise!Top, Top, Promise!Bottom, Bottom
<1>2. ASSUME NEW y PROVE Promise!Clips(y) = Clips(y)
  BY Zenon DEF Promise!Clips, Clips, Promise!OutScale, OutScale, Promise!Top, Top,
     Promise!Bottom, Bottom
<1> QED
  BY <1>1, <1>2, Zenon

LEMMA CountIsSame == \A S : Promise!Cardinality(S) = Cardinality(S)
<1> SUFFICES ASSUME NEW S PROVE Promise!Cardinality(S) = Cardinality(S)
  OBVIOUS
<1> QED
  BY Zenon DEF Promise!Cardinality, Cardinality

LEMMA PromiseInit == Init => Promise!Init
<1> SUFFICES ASSUME Init PROVE Promise!Init
  OBVIOUS
<1>1. PICK f \in {1, 2, 4} : os = [c \in 1..2 |-> FreshOversampler(f)]
  BY DEF Init
<1>2. os[1].factor \in {1, 2, 4}
  <2>1. os[1] \in Oversamplers
    BY <1>1, FreshIsOversampler
  <2> QED
    BY <2>1 DEF Oversamplers
<1> QED
  BY <1>2 DEF Init, Promise!Init, BypassTarget

LEMMA PromiseToggle == Toggle => Promise!Toggle
BY DEF Toggle, Promise!Toggle

LEMMA RunKeepsFactor == Shape /\ Run => os'[1].factor = os[1].factor
<1> SUFFICES ASSUME Shape, Run PROVE os'[1].factor = os[1].factor
  OBVIOUS
<1>1. PICK P : P = Processed(1)
  OBVIOUS
<1>2. Run1(P, Len(wet), os[1], wet, 1)
  BY <1>1, ProcessedIs DEF Shape
<1>3. PICK n \in Nat \ {0} : n = Len(wet)
  BY DEF Shape, Run, Processing
<1>4. os'[1] = P[n].os
  BY <1>1, <1>3 DEF Run
<1> QED
  BY <1>2, <1>3, <1>4 DEF Run1

\* Inside a block the host sees nothing.
LEMMA PromiseWaits ==
  Shape /\ (\/ \E frames \in Blocks : Begin(frames)
            \/ ConvertIn \/ Input \/ PreTap \/ Run \/ PostTap \/ Mix
            \/ EditorPre \/ EditorPost \/ UNCHANGED vars)
    => UNCHANGED Promise!promised
<1> USE DEF Promise!promised
<1>1. ASSUME NEW frames \in Blocks, Begin(frames) PROVE UNCHANGED Promise!promised
  BY <1>1 DEF Begin
<1>2. CASE ConvertIn
  BY <1>2 DEF ConvertIn
<1>3. CASE Input
  BY <1>3 DEF Input
<1>4. CASE PreTap \/ PostTap
  BY <1>4 DEF PreTap, PostTap, Pushed, blockVars
<1>5. CASE Shape /\ Run
  BY <1>5, RunKeepsFactor DEF Run
<1>6. CASE Mix
  <2>1. pc = "mix" /\ pc' \in {"input", "out"}
    BY <1>6 DEF Mix
  <2> QED
    BY <1>6, <2>1 DEF Mix
<1>7. CASE EditorPre \/ EditorPost \/ UNCHANGED vars
  BY <1>7 DEF EditorPre, EditorPost, vars, blockVars
<1> QED
  BY <1>1, <1>2, <1>3, <1>4, <1>5, <1>6, <1>7

\* The last piece of a block is the promise's Render; the pieces before it are nothing.
LEMMA PromiseOut ==
  Path /\ ConvertOut => \/ UNCHANGED Promise!promised
                        \/ \E n \in Blocks : Promise!Render(n)
<1> SUFFICES ASSUME Path, ConvertOut
             PROVE  \/ UNCHANGED Promise!promised
                    \/ \E n \in Blocks : Promise!Render(n)
  OBVIOUS
<1>0. Shape /\ pc = "out" /\ pc # "idle" /\ Len(audio) \in Blocks
  BY DEF Path, Shape, ConvertOut
<1>1. PICK t \in Nat, f \in {1, 2, 4}, n \in Nat :
        /\ t = taken /\ f = os[1].factor /\ f = os[2].factor /\ n = Len(audio)
        /\ t + n <= Len(Stream) /\ done < n
        /\ Course \in [0..n -> Int]
        /\ Underway(t, f, Course)
  BY <1>0, BlockIs
<1>2. PICK g : g = Course
  OBVIOUS
<1>3. /\ done' \in 0..n /\ Len(audio') = n /\ audio' \in [1..n -> Int \X Int]
      /\ power' = g[done'] /\ AudioIs(t, f, g)' /\ ClipsAre(t, f, g)'
  BY <1>1, <1>2, OutIs
<1>4. CASE done' < Len(audio)
  BY <1>0, <1>4 DEF ConvertOut, Promise!promised
<1>5. CASE ~(done' < Len(audio))
  <2>1. /\ pc' = "idle" /\ taken' = t + n /\ answer' = audio'
        /\ clip_count' = clip_count + clipped' /\ UNCHANGED <<bypass, os>>
    BY <1>1, <1>5 DEF ConvertOut
  <2>2. done' = n
    BY <1>1, <1>3, <1>5
  <2>3. Promise!Fade(n) = g
    BY <1>0, <1>1, <1>2, FadesAreGlides DEF Course
  <2>4. PICK heard : heard = [i \in 1..n |-> Promise!Heard(t + i, g[i])]
    OBVIOUS
  <2>5. \A i \in 1..n, c \in 1..2 : heard[i][c] = Sound(f, t + i, g[i], c)
    BY <1>1, <2>4, HeardIs
  <2>6. answer' = [i \in 1..n |-> <<ToInt16(heard[i][1]), ToInt16(heard[i][2])>>]
    <3>1. ASSUME NEW i \in 1..n
          PROVE  audio'[i] = <<ToInt16(heard[i][1]), ToInt16(heard[i][2])>>
      <4>1. audio'[i] = <<audio'[i][1], audio'[i][2]>>
        BY <1>3
      <4>2. \A c \in 1..2 : audio'[i][c] = ToInt16(Sound(f, t + i, g[i], c))
        BY <1>3, <2>2 DEF AudioIs
      <4>3. \A c \in 1..2 : audio'[i][c] = ToInt16(heard[i][c])
        BY <2>5, <4>2
      <4> QED
        BY <4>1, <4>3
    <3> QED
      BY <1>3, <2>1, <3>1
  <2>7. PICK S : S = {x \in (1..n) \X (1..2) : Clips(heard[x[1]][x[2]])}
    OBVIOUS
  <2>8. clip_count' = clip_count + Cardinality(S)
    <3>1. S = Clipped(t, f, g, n)
      BY <2>5, <2>7 DEF Clipped
    <3> QED
      BY <1>3, <2>1, <2>2, <3>1 DEF ClipsAre
  <2>9. power' = g[n]
    BY <1>3, <2>2
  <2>10. Promise!Render(n)
    <3>1. /\ taken + n <= Len(Stream) /\ taken' = taken + n
          /\ UNCHANGED <<bypass, os[1].factor>>
      BY <1>1, <2>1
    <3>2. (IF pc = "idle" THEN power ELSE powerBefore)' = g[n]
      BY <2>1, <2>9
    <3>3. heard = [i \in 1..n |-> Promise!Heard(taken + i, Promise!Fade(n)[i])]
      BY <1>1, <2>3, <2>4
    <3>4. answer' = [i \in 1..n |-> <<Promise!ToInt16(heard[i][1]),
                                     Promise!ToInt16(heard[i][2])>>]
      BY <2>6, EndsAreSame, Zenon
    <3>5. S = {x \in (1..n) \X (1..2) : Promise!Clips(heard[x[1]][x[2]])}
      BY <2>7, EndsAreSame, Zenon
    <3>6. clip_count' = clip_count + Promise!Cardinality(S)
      BY <2>8, CountIsSame
    <3> QED
      BY <2>3, <3>1, <3>2, <3>3, <3>4, <3>5, <3>6 DEF Promise!Render
  <2> QED
    BY <1>0, <1>1, <2>10
<1> QED
  BY <1>4, <1>5

\* Blocks, pieces, chunks, delay lines, scratch buffers and taps leave no trace in the
\* stream the host hears: what it is answered is the one signal of StreamPromise.
THEOREM StreamIsKept == Spec => StreamKept
<1>1. Path /\ [Next]_vars => [Promise!Next]_(Promise!promised)
  BY PromiseToggle, PromiseWaits, PromiseOut DEF Path, Next, Audio, Promise!Next
<1> QED
  BY <1>1, PathInit, PathStep, PromiseInit, PTL DEF Spec, StreamKept, Promise!Spec

-----------------------------------------------------------------------------
(* The dry path. *)

\* An int16 sample comes back from the float it was turned into, and does not clip.
LEMMA SamplesComeBack ==
  \A x \in Int16 : ToInt16(ToFloat(x)) = x /\ ~Clips(ToFloat(x))
<1> SUFFICES ASSUME NEW x \in Int16 PROVE ToInt16(ToFloat(x)) = x /\ ~Clips(ToFloat(x))
  OBVIOUS
<1>1. PICK u \in Nat \ {0}, s \in Nat \ {0} : u = Unit /\ s = FullScale
  BY ScaleAssumption
<1>2. x \in Int /\ -s <= x /\ x <= s - 1
  BY <1>1 DEF Int16
<1>3. PICK v \in Int : v = x * u
  BY <1>2
<1>4. v <= (s - 1) * u /\ -s * u <= v
  <2>1. \A a, b \in Int : a <= b => a * u <= b * u
    <3> SUFFICES ASSUME NEW a \in Int, NEW b \in Int, a <= b PROVE a * u <= b * u
      OBVIOUS
    <3>1. PICK d \in Nat : b = a + d
      <4>1. b - a \in Nat /\ b = a + (b - a)
        OBVIOUS
      <4> QED
        BY <4>1
    <3>2. d * u \in Nat /\ (a + d) * u = a * u + d * u
      OBVIOUS
    <3>3. a * u \in Int
      OBVIOUS
    <3> QED
      BY <3>1, <3>2, <3>3
  <2> QED
    BY <1>2, <1>3, <2>1
<1>5. ~(v > Top) /\ ~(v < Bottom) /\ Top \in Int /\ Bottom \in Int
  BY <1>1, <1>4 DEF Top, Bottom
<1>6. Truncate(v) = x
  <2>1. CASE x < 0
    <3>1. PICK y \in Nat : y = -x
      BY <1>2, <2>1
    <3>2. PICK w \in Int : w = -v /\ w = u * y + 0 /\ v < 0
      BY <1>2, <1>3, <2>1, <3>1, AtLeastOnce
    <3>3. w \div u = y
      <4>1. 0 \in 0..u-1 /\ w = u * y + 0
        BY <3>2
      <4> QED
        BY <4>1, QuotientIs
    <3> QED
      BY <1>1, <1>2, <3>1, <3>2, <3>3 DEF Truncate
  <2>2. CASE ~(x < 0)
    <3>1. v = u * x + 0 /\ ~(v < 0)
      BY <1>2, <1>3, <2>2
    <3>2. v \div u = x
      BY <1>2, <3>1, Division, OneQuotient
    <3> QED
      BY <1>1, <1>2, <3>1, <3>2 DEF Truncate
  <2> QED
    BY <2>1, <2>2
<1>7. ToFloat(x) = v
  BY <1>1, <1>3 DEF ToFloat
<1> QED
  BY <1>5, <1>6, <1>7 DEF ToInt16, Clips, OutScale

\* At rest in bypass the crossfade stays there, and a frame sounds as it came.
LEMMA RestIsDry ==
  ASSUME NEW n \in Nat, NEW i \in 0..n
  PROVE  Glide(0, 0, n)[i] = 0
<1>1. PICK g : g = Glide(0, 0, n)
  OBVIOUS
<1>2. g[0] = 0 /\ \A j \in 1..n : g[j] = NextPower(g[j - 1], 0)
  <2>1. PICK z \in Int : z = 0
    OBVIOUS
  <2>2. Glide(z, z, n)[0] = z
    BY GlideIs
  <2>3. \A j \in 1..n : Glide(z, z, n)[j] = NextPower(Glide(z, z, n)[j - 1], z)
    BY GlideIs
  <2> QED
    BY <1>1, <2>1, <2>2, <2>3, Zenon
<1>3. NextPower(0, 0) = 0
  BY DEF NextPower
<1> DEFINE S == {j \in 0..n : g[j] = 0}
<1>4. 0 \in S
  BY <1>2
<1>5. \A j \in 1..n : j - 1 \in S => j \in S
  BY <1>2, <1>3
<1> HIDE DEF S
<1>6. 0..n \subseteq S
  BY <1>4, <1>5, InductionUpTo
<1> QED
  BY <1>1, <1>6 DEF S

LEMMA DrySoundIs ==
  ASSUME NEW f \in {1, 2, 4}, NEW k \in 1..Len(Stream), NEW c \in 1..2
  PROVE  /\ Sound(f, k, 0, c) = ToFloat(Stream[k][c])
         /\ Stream[k][c] \in Int16
<1>1. Stream[k] \in Int16 \X Int16
  BY StreamIsFrames
<1>2. Stream[k][c] \in Int16 /\ Int16 \subseteq Int
  BY <1>1, ScaleAssumption DEF Int16
<1>3. PICK d \in Int : d = ToFloat(Stream[k][c])
  BY <1>2, OutsAreInts
<1>4. PICK j \in 0..Len(Stream)-1 : j = k - 1
  BY StreamIsFrames
<1>5. PICK w \in Int : w = Promise!Wet[f][c][j]
  BY WetIs
<1>6. Sound(f, k, 0, c) = d + (0 * (w - d)) \div PowerMax
  BY <1>3, <1>4, <1>5, Zenon DEF Sound
<1>7. 0 * (w - d) = 0
  OBVIOUS
<1>8. 0 \div PowerMax = 0
  <2>1. PICK p \in Nat \ {0} : p = PowerMax
    BY SignalAssumption
  <2>2. 0 = p * 0 + 0 /\ 0 \in 0..p-1
    OBVIOUS
  <2>3. 0 \div p = 0
    BY <2>2, Division, OneQuotient
  <2> QED
    BY <2>1, <2>3
<1>9. d + 0 = d
  OBVIOUS
<1> QED
  BY <1>2, <1>3, <1>6, <1>7, <1>8, <1>9, Zenon

\* So a block that was dry goes back as it came.
LEMMA DryOut ==
  ASSUME Path, ConvertOut, pc' = "idle", bypass, powerBefore = 0
  PROVE  answer' = SubSeq(Stream, taken + 1, taken') /\ clip_count' = clip_count
<1>0. Shape /\ pc = "out" /\ pc # "idle" /\ clip_count \in Int
  BY DEF Path, Shape, ConvertOut
<1>1. PICK t \in Nat, f \in {1, 2, 4}, n \in Nat :
        /\ t = taken /\ f = os[1].factor /\ f = os[2].factor /\ n = Len(audio)
        /\ t + n <= Len(Stream) /\ done < n
        /\ Course \in [0..n -> Int]
        /\ Underway(t, f, Course)
  BY <1>0, BlockIs
<1>2. PICK g : g = Course
  OBVIOUS
<1>3. /\ done' \in 0..n /\ Len(audio') = n /\ audio' \in [1..n -> Int \X Int]
      /\ power' = g[done'] /\ AudioIs(t, f, g)' /\ ClipsAre(t, f, g)'
  BY <1>1, <1>2, OutIs
<1>4. ~(done' < Len(audio))
  BY DEF ConvertOut
<1>5. /\ taken' = t + n /\ answer' = audio' /\ clip_count' = clip_count + clipped'
      /\ done' = n
  BY <1>1, <1>3, <1>4 DEF ConvertOut
<1>6. \A i \in 1..n : g[i] = 0
  <2>1. g = Glide(0, 0, n)
    BY <1>1, <1>2 DEF Course, BypassTarget
  <2> QED
    BY <2>1, RestIsDry
<1>7. ASSUME NEW i \in 1..n, NEW c \in 1..2
      PROVE  /\ Sound(f, t + i, g[i], c) = ToFloat(Stream[t + i][c])
             /\ ToInt16(Sound(f, t + i, g[i], c)) = Stream[t + i][c]
             /\ ~Clips(Sound(f, t + i, g[i], c))
  <2>1. PICK k \in 1..Len(Stream) : k = t + i
    BY <1>1, StreamIsFrames
  <2>2. Sound(f, k, 0, c) = ToFloat(Stream[k][c]) /\ Stream[k][c] \in Int16
    BY DrySoundIs
  <2> QED
    BY <1>6, <2>1, <2>2, SamplesComeBack
<1>8. \A i \in 1..n : audio'[i] = Stream[t + i]
  <2> SUFFICES ASSUME NEW i \in 1..n PROVE audio'[i] = Stream[t + i]
    OBVIOUS
  <2>1. \A c \in 1..2 : audio'[i][c] = Stream[t + i][c]
    BY <1>3, <1>5, <1>7 DEF AudioIs
  <2>2. PICK k \in 1..Len(Stream) : k = t + i
    BY <1>1, StreamIsFrames
  <2>3. Stream[k] \in Int \X Int /\ audio'[i] \in Int \X Int
    BY <1>3, StreamIsFrames DEF Frame2
  <2> QED
    BY <2>1, <2>2, <2>3
<1>9. answer' = SubSeq(Stream, taken + 1, taken')
  <2>1. PICK a \in Int, b \in Int : a = t + 1 /\ b = t + n
    OBVIOUS
  <2>2. \A i \in a..b : Stream[i] \in Frame2
    <3>1. \A i \in a..b : i \in 1..Len(Stream)
      BY <1>1, <2>1, StreamIsFrames
    <3> QED
      BY <3>1, StreamIsFrames
  <2>3. PICK s : s = SubSeq(Stream, a, b)
    OBVIOUS
  <2>4. /\ s \in Seq(Frame2) /\ Len(s) = IF a <= b THEN b - a + 1 ELSE 0
        /\ \A i \in 1 .. b - a + 1 : s[i] = Stream[a + i - 1]
    BY <2>2, <2>3, SubSeqProperties
  <2>5. Len(s) = n /\ \A i \in 1..n : s[i] = Stream[t + i]
    <3>1. \A i \in 1..n : a + i - 1 = t + i /\ i \in 1 .. b - a + 1
      BY <2>1
    <3>2. (IF a <= b THEN b - a + 1 ELSE 0) = n
      BY <2>1
    <3> QED
      BY <2>4, <3>1, <3>2
  <2>6. audio' = s
    <3>1. s = [i \in 1..n |-> s[i]]
      BY <2>4, <2>5
    <3>2. audio' = [i \in 1..n |-> audio'[i]]
      BY <1>3
    <3> QED
      BY <1>8, <2>5, <3>1, <3>2
  <2> QED
    BY <1>1, <1>5, <2>1, <2>3, <2>6
<1>10. clipped' = 0
  <2>1. Clipped(t, f, g, n) = {}
    BY <1>7 DEF Clipped
  <2> QED
    BY <1>3, <1>5, <2>1, FS_EmptySet DEF ClipsAre
<1> QED
  BY <1>0, <1>5, <1>9, <1>10

\* "A bit-exact dry path": a block that begins with the crossfade at rest in bypass
\* leaves the host's buffer as it found it and counts no clip, whatever the lengths of
\* blocks, pieces and chunks.
THEOREM BypassIsBitExact == Spec => DryIsBitExact
<1>1. ASSUME Path, [Next]_vars, pc = "out", pc' = "idle"
      PROVE  ConvertOut
  BY <1>1 DEF Next, Audio, Toggle, Begin, ConvertIn, Input, PreTap, Run, PostTap, Mix,
     EditorPre, EditorPost, vars, blockVars
<1>2. Path /\ [Next]_vars
        => [pc = "out" /\ pc' = "idle" /\ bypass /\ powerBefore = 0 =>
              /\ answer' = SubSeq(Stream, taken + 1, taken')
              /\ clip_count' = clip_count]_vars
  BY <1>1, DryOut
<1> QED
  BY <1>2, PathInit, PathStep, PTL DEF Spec, DryIsBitExact
=============================================================================
