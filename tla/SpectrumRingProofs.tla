------------------------- MODULE SpectrumRingProofs -------------------------
(***************************************************************************)
(* Lemmas about SpectrumRing, for every number of slots and every width of *)
(* the position that the slots divide: what the slots hold while the audio *)
(* thread pushes, and what a snapshot finds in them meanwhile.             *)
(***************************************************************************)
EXTENDS SpectrumRing, SequenceTheorems, NumberFacts

Sizes == KSize \in Nat \ {0} /\ Wrap \in Nat \ {0} /\ Wrap % KSize = 0

\* What a ring may do in a step of the system it is part of.
RingStep ==
  \/ \E x : PushStore(x)
  \/ PushPublish
  \/ \E n \in Int : SnapBegin(n)
  \/ SnapLoad
  \/ SnapEnd
  \/ UNCHANGED ringVars

-----------------------------------------------------------------------------
(* The slots. *)

\* Samples up to the latest KSize pushed are in their slots, the one that is
\* stored and not yet published among them; before the first there is silence.
SlotsInv ==
  /\ \E S : pushed \in Seq(S)
  /\ storing \in BOOLEAN
  /\ Published \in Nat
  /\ writePos = Published % Wrap
  /\ DOMAIN buf = 0..KSize-1 /\ buf = [slot \in 0..KSize-1 |-> buf[slot]]
  /\ \A k \in Int : Len(pushed) - KSize < k /\ k <= Len(pushed) =>
       buf[(k - 1) % KSize] = Sample(k)

LEMMA SlotsInit ==
  ASSUME Sizes, InitRing
  PROVE  SlotsInv
<1>1. /\ pushed = <<>> /\ Len(pushed) = 0 /\ storing = FALSE /\ writePos = 0
      /\ buf = [slot \in 0..KSize-1 |-> 0]
  BY DEF InitRing
<1>2. pushed \in Seq({})
  BY <1>1, EmptySeq
<1>3. Published = 0
  BY <1>1 DEF Published
<1>4. 0 % Wrap = 0
  BY RemainderIs DEF Sizes
<1>5. ASSUME NEW k \in Int, k <= Len(pushed)
      PROVE  buf[(k - 1) % KSize] = Sample(k)
  <2>1. PICK j \in Int : j = k - 1
    OBVIOUS
  <2>2. j % KSize \in 0..KSize-1
    BY Division DEF Sizes
  <2> QED
    BY <1>1, <1>5, <2>1, <2>2 DEF Sample
<1> QED
  BY <1>1, <1>2, <1>3, <1>4, <1>5 DEF SlotsInv

\* A sample pushed stays pushed, as the same.
LEMMA PushedGrows ==
  ASSUME SlotsInv, NEW x, PushStore(x)
  PROVE  /\ \E S : pushed' \in Seq(S)
         /\ Len(pushed) \in Nat /\ Len(pushed') = Len(pushed) + 1
         /\ \A k \in Int : k = Len(pushed) + 1 => Sample(k)' = x
         /\ \A k \in Int : k <= Len(pushed) => Sample(k)' = Sample(k)
<1>1. PICK S : pushed \in Seq(S)
  BY DEF SlotsInv
<1>2. pushed \in Seq(S \cup {x})
  BY <1>1, SeqMonotonic
<1>3. Len(pushed) \in Nat
  BY <1>1, LenProperties
<1>4. /\ pushed' \in Seq(S \cup {x})
      /\ Len(pushed') = Len(pushed) + 1
      /\ \A i \in 1..Len(pushed) : pushed'[i] = pushed[i]
      /\ pushed'[Len(pushed) + 1] = x
  BY <1>2, AppendProperties DEF PushStore
<1> QED
  BY <1>3, <1>4 DEF Sample

LEMMA SlotsStep ==
  ASSUME Sizes, SlotsInv, RingStep
  PROVE  SlotsInv'
<1>0. PICK S : pushed \in Seq(S)
  BY DEF SlotsInv
<1>1. Len(pushed) \in Nat
  BY <1>0, LenProperties
<1>2. ASSUME NEW x, PushStore(x)
      PROVE  SlotsInv'
  <2>1. /\ ~storing /\ storing' /\ writePos' = writePos
        /\ buf' = [buf EXCEPT ![writePos % KSize] = x]
    BY <1>2 DEF PushStore, SlotsInv
  <2>2. /\ \E T : pushed' \in Seq(T)
        /\ Len(pushed') = Len(pushed) + 1
        /\ \A k \in Int : k = Len(pushed) + 1 => Sample(k)' = x
        /\ \A k \in Int : k <= Len(pushed) => Sample(k)' = Sample(k)
    BY <1>2, PushedGrows
  <2>3. Published = Len(pushed) /\ Published' = Published
    BY <1>1, <2>1, <2>2 DEF Published
  <2>4. writePos % KSize = Len(pushed) % KSize
    <3>1. PICK n \in Int : n = Len(pushed)
      BY <1>1
    <3>2. writePos = n % Wrap
      BY <2>3, <3>1 DEF SlotsInv
    <3>3. (n % Wrap) % KSize = n % KSize
      BY RemainderOfRemainder DEF Sizes
    <3> QED
      BY <3>1, <3>2, <3>3
  <2>5. Len(pushed) % KSize \in 0..KSize-1
    BY <1>1, Division DEF Sizes
  <2>6. /\ DOMAIN buf' = 0..KSize-1
        /\ buf' = [slot \in 0..KSize-1 |-> buf'[slot]]
        /\ buf'[Len(pushed) % KSize] = x
        /\ \A slot \in 0..KSize-1 : slot # Len(pushed) % KSize => buf'[slot] = buf[slot]
    BY <2>1, <2>4, <2>5 DEF SlotsInv
  <2>7. ASSUME NEW k \in Int, Len(pushed') - KSize < k, k <= Len(pushed')
        PROVE  buf'[(k - 1) % KSize] = Sample(k)'
    <3>1. CASE k = Len(pushed) + 1
      <4>1. k - 1 = Len(pushed)
        BY <1>1, <3>1
      <4>2. buf'[(k - 1) % KSize] = x
        BY <2>6, <4>1, Zenon
      <4> QED
        BY <2>2, <3>1, <4>2, Zenon
    <3>2. CASE k <= Len(pushed)
      <4>1. PICK j \in Int : j = k - 1
        OBVIOUS
      <4>2. j % KSize \in 0..KSize-1
        BY Division DEF Sizes
      <4>3. KSize \in Nat \ {0}
        BY DEF Sizes
      <4>4. j # Len(pushed) /\ j - Len(pushed) < KSize /\ Len(pushed) - j < KSize
        BY <1>1, <2>2, <2>7, <3>2, <4>1, <4>3
      <4>5. j % KSize # Len(pushed) % KSize
        BY <1>1, <4>3, <4>4, NearAndCongruent
      <4>6. Len(pushed) - KSize < k
        BY <1>1, <2>2, <2>7, <4>3
      <4>7. buf[j % KSize] = Sample(k)
        BY <3>2, <4>1, <4>6 DEF SlotsInv
      <4> QED
        BY <2>2, <2>6, <3>2, <4>1, <4>2, <4>5, <4>7
    <3> QED
      BY <1>1, <2>2, <2>7, <3>1, <3>2
  <2>8. Published' \in Nat /\ writePos' = Published' % Wrap
    BY <2>1, <2>3 DEF SlotsInv
  <2> QED
    BY <2>1, <2>2, <2>6, <2>7, <2>8 DEF SlotsInv
<1>3. CASE PushPublish
  <2>1. /\ storing /\ storing' = FALSE /\ writePos' = (writePos + 1) % Wrap
        /\ UNCHANGED <<buf, pushed>>
    BY <1>3 DEF PushPublish
  <2>2. Published \in Nat /\ Published' = Published + 1
    BY <1>1, <2>1 DEF Published, SlotsInv
  <2>3. writePos' = Published' % Wrap
    <3>1. PICK n \in Int : n = Published
      BY <2>2
    <3>2. writePos = n % Wrap
      BY <3>1 DEF SlotsInv
    <3>3. ((n % Wrap) + 1) % Wrap = (n + 1) % Wrap
      <4>1. \A y \in Int : ((n % Wrap) + y) % Wrap = (n + y) % Wrap
        BY RemainderOfSum DEF Sizes
      <4>2. 1 \in Int
        OBVIOUS
      <4> QED
        BY <4>1, <4>2, Zenon
    <3> QED
      BY <2>1, <2>2, <3>1, <3>2, <3>3, Zenon
  <2>4. \A k : Sample(k)' = Sample(k)
    BY <2>1 DEF Sample
  <2>5. \A k \in Int : Len(pushed') - KSize < k /\ k <= Len(pushed') =>
          buf'[(k - 1) % KSize] = Sample(k)'
    BY <2>1, <2>4 DEF SlotsInv
  <2>6. Published' \in Nat
    BY <2>2
  <2>7. /\ \E T : pushed' \in Seq(T)
        /\ DOMAIN buf' = 0..KSize-1 /\ buf' = [slot \in 0..KSize-1 |-> buf'[slot]]
    BY <2>1 DEF SlotsInv
  <2> QED
    BY <2>1, <2>3, <2>5, <2>6, <2>7 DEF SlotsInv
<1>4. CASE (\E n \in Int : SnapBegin(n)) \/ SnapLoad \/ SnapEnd \/ UNCHANGED ringVars
  <2>1. UNCHANGED <<buf, writePos, storing, pushed>>
    BY <1>4 DEF SnapBegin, SnapLoad, SnapEnd, ringVars
  <2>2. Published' = Published /\ \A k : Sample(k)' = Sample(k)
    BY <2>1 DEF Published, Sample
  <2> QED
    BY <2>1, <2>2 DEF SlotsInv
<1> QED
  BY <1>2, <1>3, <1>4 DEF RingStep

-----------------------------------------------------------------------------
(* The snapshot. *)

\* What a slot holds of the sample that was asked for, or has come over it.
Recent(x, wanted) ==
  \/ x = Sample(wanted)
  \/ /\ wanted + KSize <= Len(pushed)
     /\ \E k \in wanted+1..Len(pushed) :
          k > 0 /\ (k - wanted) % KSize = 0 /\ x = pushed[k]

\* Under way, it copies at most a ring, from the position it found.
SnapInv ==
  snap # NoSnapshot =>
    /\ DOMAIN snap = {"n", "w", "dst", "began"}
    /\ snap.n \in Int /\ snap.n <= KSize
    /\ snap.began \in 0..Len(pushed) /\ snap.w = snap.began % Wrap
    /\ \E S : snap.dst \in Seq(S)
    /\ snap.dst # <<>> => Len(snap.dst) <= snap.n
    /\ \A i \in 1..Len(snap.dst) : Recent(snap.dst[i], snap.began - snap.n + i)

\* A load finds in the slot it was sent to the sample it is for, or a later one.
LEMMA LoadIsRecent ==
  ASSUME Sizes, SlotsInv, NEW began \in Int, NEW n \in Int, NEW i \in Nat,
         0 <= began, began <= Len(pushed), n <= KSize, i < n
  PROVE  Recent(buf[Slot(began % Wrap, n, i)], began - n + i + 1)
<1>0. KSize \in Nat \ {0} /\ Len(pushed) \in Nat
  BY LenProperties DEF Sizes, SlotsInv
<1>1. PICK wanted \in Int, d \in Int : wanted = began - n + i + 1 /\ d = i - n
  OBVIOUS
<1>2. Slot(began % Wrap, n, i) = (wanted - 1) % KSize
  <2>1. began % Wrap \in Int
    BY Division DEF Sizes
  <2>2. (began % Wrap) - n + i = (began % Wrap) + d
    BY <1>1, <2>1
  <2>3. ((began % Wrap) + d) % Wrap = (began + d) % Wrap
    BY RemainderOfSum DEF Sizes
  <2>4. PICK v \in Int : v = began + d
    OBVIOUS
  <2>5. (v % Wrap) % KSize = v % KSize
    BY RemainderOfRemainder DEF Sizes
  <2>6. wanted - 1 = v
    BY <1>1, <2>4
  <2> QED
    BY <2>2, <2>3, <2>4, <2>5, <2>6, Zenon DEF Slot
<1>3. PICK y \in Int : /\ Len(pushed) - KSize < y /\ y <= Len(pushed)
                       /\ y % KSize = wanted % KSize /\ (y - wanted) % KSize = 0
  <2>1. PICK top \in Int : top = Len(pushed)
    BY <1>0
  <2>2. \E y \in Int : /\ top - KSize < y /\ y <= top
                       /\ y % KSize = wanted % KSize /\ (y - wanted) % KSize = 0
    BY <1>0, OneInEveryLap
  <2> QED
    BY <2>1, <2>2
<1>4. (y - 1) % KSize = (wanted - 1) % KSize
  <2>1. PICK one \in Int : one = -1
    OBVIOUS
  <2>2. /\ ((y % KSize) + one) % KSize = (y + one) % KSize
        /\ ((wanted % KSize) + one) % KSize = (wanted + one) % KSize
    BY <1>0, RemainderOfSum
  <2>3. y + one = y - 1 /\ wanted + one = wanted - 1
    BY <2>1
  <2> QED
    BY <1>3, <2>2, <2>3, Zenon
<1>5. buf[(wanted - 1) % KSize] = Sample(y)
  BY <1>3, <1>4 DEF SlotsInv
<1>6. wanted <= began /\ began - KSize < wanted
  BY <1>0, <1>1
<1>7. CASE Len(pushed) - KSize < wanted
  <2>1. y = wanted
    <3>1. y - wanted < KSize /\ wanted - y < KSize
      BY <1>0, <1>3, <1>6, <1>7
    <3> QED
      BY <1>0, <1>3, <3>1, NearAndCongruent
  <2> QED
    BY <1>1, <1>2, <1>5, <2>1 DEF Recent
<1>8. CASE wanted + KSize <= Len(pushed)
  <2>1. y \in wanted+1..Len(pushed) /\ y > 0
    BY <1>0, <1>3, <1>6, <1>8
  <2>2. Sample(y) = pushed[y]
    BY <2>1 DEF Sample
  <2> QED
    BY <1>1, <1>2, <1>3, <1>5, <1>8, <2>1, <2>2 DEF Recent
<1> QED
  BY <1>0, <1>7, <1>8

LEMMA SnapInit ==
  ASSUME InitRing
  PROVE  SnapInv
BY DEF InitRing, SnapInv

\* What is recent stays so while more is pushed.
LEMMA RecentStays ==
  ASSUME SlotsInv, NEW y, PushStore(y), KSize \in Nat,
         NEW x, NEW wanted \in Int, wanted <= Len(pushed), Recent(x, wanted)
  PROVE  Recent(x, wanted)'
<1>1. /\ Len(pushed) \in Nat /\ Len(pushed') = Len(pushed) + 1
      /\ \A k \in Int : k <= Len(pushed) => Sample(k)' = Sample(k)
  BY PushedGrows
<1>2. CASE x = Sample(wanted)
  BY <1>1, <1>2 DEF Recent
<1>3. ASSUME wanted + KSize <= Len(pushed),
             NEW k \in wanted+1..Len(pushed),
             k > 0, (k - wanted) % KSize = 0, x = pushed[k]
      PROVE  Recent(x, wanted)'
  <2>1. k \in Int /\ k <= Len(pushed)
    BY <1>1
  <2>2. pushed'[k] = x
    BY <1>1, <1>3, <2>1 DEF Sample
  <2>3. k \in wanted+1..Len(pushed') /\ wanted + KSize <= Len(pushed')
    BY <1>1, <1>3
  <2> QED
    BY <1>3, <2>2, <2>3 DEF Recent
<1> QED
  BY <1>2, <1>3 DEF Recent

LEMMA SnapStep ==
  ASSUME Sizes, SlotsInv, SnapInv, RingStep
  PROVE  SnapInv'
<1>0. KSize \in Nat \ {0} /\ Len(pushed) \in Nat
  BY LenProperties DEF Sizes, SlotsInv
<1> SUFFICES ASSUME snap' # NoSnapshot PROVE SnapInv'
  BY DEF SnapInv
<1>1. ASSUME NEW x, PushStore(x)
      PROVE  SnapInv'
  <2>1. snap' = snap /\ Len(pushed') = Len(pushed) + 1
    BY <1>1, PushedGrows DEF PushStore
  <2>2. ASSUME NEW i \in 1..Len(snap.dst)
        PROVE  Recent(snap.dst[i], snap.began - snap.n + i)'
    <3>1. Len(snap.dst) \in Nat /\ snap.dst # <<>> /\ Len(snap.dst) <= snap.n
      BY <2>1, LenProperties, EmptySeq DEF SnapInv
    <3>2. PICK wanted \in Int : wanted = snap.began - snap.n + i
      BY <2>1 DEF SnapInv
    <3>3. wanted <= Len(pushed)
      BY <1>0, <2>1, <3>1, <3>2 DEF SnapInv
    <3>4. Recent(snap.dst[i], wanted)
      BY <2>1, <3>2 DEF SnapInv
    <3>5. PICK y : y = snap.dst[i]
      OBVIOUS
    <3>6. Recent(y, wanted)'
      BY <1>0, <1>1, <3>3, <3>4, <3>5, RecentStays
    <3> QED
      BY <2>1, <3>2, <3>5, <3>6
  <2> QED
    BY <1>0, <2>1, <2>2 DEF SnapInv
<1>2. CASE PushPublish \/ UNCHANGED ringVars
  <2>1. UNCHANGED <<snap, pushed>>
    BY <1>2 DEF PushPublish, ringVars
  <2>2. \A x, wanted : Recent(x, wanted)' <=> Recent(x, wanted)
    BY <2>1 DEF Recent, Sample
  <2> QED
    BY <2>1, <2>2 DEF SnapInv
<1>3. ASSUME NEW n \in Int, SnapBegin(n)
      PROVE  SnapInv'
  <2>1. /\ snap' = [n |-> IF n > KSize THEN KSize ELSE n, w |-> writePos, dst |-> <<>>,
                    began |-> Published]
        /\ pushed' = pushed
    BY <1>3 DEF SnapBegin
  <2>2. Published \in 0..Len(pushed) /\ writePos = Published % Wrap
    BY <1>0 DEF SlotsInv, Published
  <2>3. snap'.dst \in Seq({}) /\ Len(snap'.dst) = 0
    BY <2>1, EmptySeq
  <2> QED
    BY <1>0, <2>1, <2>2, <2>3 DEF SnapInv
<1>4. CASE SnapLoad
  <2>1. /\ snap # NoSnapshot /\ Len(snap.dst) < snap.n
        /\ snap' = [snap EXCEPT !.dst = Append(@, buf[Slot(snap.w, snap.n, Len(@))])]
        /\ pushed' = pushed
    BY <1>4 DEF SnapLoad
  <2>2. PICK S : snap.dst \in Seq(S)
    BY <2>1 DEF SnapInv
  <2>2a. PICK m \in Nat : m = Len(snap.dst)
    BY <2>2, LenProperties
  <2>3. PICK x : x = buf[Slot(snap.w, snap.n, m)]
    OBVIOUS
  <2>4. /\ snap'.dst = Append(snap.dst, x) /\ DOMAIN snap' = DOMAIN snap
        /\ snap'.n = snap.n /\ snap'.w = snap.w /\ snap'.began = snap.began
    <3>1. DOMAIN snap = {"n", "w", "dst", "began"}
      BY <2>1 DEF SnapInv
    <3>2. snap' = [snap EXCEPT !.dst = Append(snap.dst, x)]
      BY <2>1, <2>2a, <2>3
    <3> QED
      BY <3>1, <3>2
  <2>5. snap.dst \in Seq(S \cup {x})
    BY <2>2, SeqMonotonic
  <2>6. /\ snap'.dst \in Seq(S \cup {x}) /\ Len(snap'.dst) = m + 1
        /\ \A i \in 1..m : snap'.dst[i] = snap.dst[i]
        /\ snap'.dst[m + 1] = x
    BY <2>2a, <2>4, <2>5, AppendProperties
  <2>7. Recent(x, snap.began - snap.n + m + 1)
    <3>1. PICK began \in Int, n \in Int : began = snap.began /\ n = snap.n
      BY <2>1 DEF SnapInv
    <3>2. Recent(buf[Slot(began % Wrap, n, m)], began - n + m + 1)
      BY <1>0, <2>1, <2>2a, <2>3, <3>1, LoadIsRecent DEF SnapInv
    <3> QED
      BY <2>1, <2>2a, <2>3, <3>1, <3>2 DEF SnapInv
  <2>8. ASSUME NEW i \in 1..m+1
        PROVE  Recent(snap'.dst[i], snap.began - snap.n + i)
    <3>1. CASE i \in 1..m
      BY <2>1, <2>2a, <2>3, <2>6, <3>1 DEF SnapInv
    <3>2. CASE i = m + 1
      <4>1. snap.began - snap.n + i = snap.began - snap.n + m + 1
        BY <2>1, <3>2 DEF SnapInv
      <4> QED
        BY <2>6, <2>7, <3>2, <4>1, Zenon
    <3> QED
      BY <3>1, <3>2
  <2>9. \A y, wanted : Recent(y, wanted)' <=> Recent(y, wanted)
    BY <2>1 DEF Recent, Sample
  <2> QED
    BY <2>1, <2>2a, <2>3, <2>4, <2>6, <2>8, <2>9 DEF SnapInv
<1>5. CASE SnapEnd
  BY <1>5 DEF SnapEnd
<1> QED
  BY <1>1, <1>2, <1>3, <1>4, <1>5 DEF RingStep

\* Together they say what is drawn.
LEMMA SnapsAreRecent ==
  ASSUME SlotsInv, SnapInv
  PROVE  SnapshotIsRecent
BY DEF SnapInv, Recent, SnapshotIsRecent
=============================================================================
