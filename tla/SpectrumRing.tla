---------------------------- MODULE SpectrumRing ----------------------------
(***************************************************************************)
(* duskaudio::SpectrumRing: the audio thread pushes samples, an editor     *)
(* copies the latest of them, and no lock keeps the two apart.  A push is  *)
(* two steps, the store of the slot and the release of the new position; a *)
(* snapshot acquires the position once and then loads one slot per step.   *)
(* The release and the acquire make every store before a position visible  *)
(* with it; a store after it may be seen early, as here.                   *)
(***************************************************************************)
EXTENDS Integers, Sequences

CONSTANTS KSize,  \* slots, kSize, a divisor of Wrap
          Wrap    \* 2^32, where the write position wraps

VARIABLES
  buf,       \* the slots
  writePos,  \* the write position
  storing,   \* a slot is stored and its position not yet released
  snap,      \* the snapshot under way, or NoSnapshot
  pushed     \* every sample pushed since the reset

ringVars == <<buf, writePos, storing, snap, pushed>>

NoSnapshot == [n |-> 0]

\* reset().
InitRing ==
  /\ buf = [slot \in 0..KSize-1 |-> 0]
  /\ writePos = 0
  /\ storing = FALSE
  /\ snap = NoSnapshot
  /\ pushed = <<>>

\* push, first half: the sample goes into its slot ...
PushStore(x) ==
  /\ ~storing
  /\ buf' = [buf EXCEPT ![writePos % KSize] = x]
  /\ storing' = TRUE
  /\ pushed' = Append(pushed, x)
  /\ UNCHANGED <<writePos, snap>>

\* ... and second half: the position moves past it.
PushPublish ==
  /\ storing
  /\ writePos' = (writePos + 1) % Wrap
  /\ storing' = FALSE
  /\ UNCHANGED <<buf, snap, pushed>>

\* The samples a reader of the write position knows of.
Published == Len(pushed) - (IF storing THEN 1 ELSE 0)

\* snapshot, its loads: the position ...
SnapBegin(n) ==
  /\ snap = NoSnapshot
  /\ snap' = [n |-> IF n > KSize THEN KSize ELSE n, w |-> writePos, dst |-> <<>>,
              began |-> Published]
  /\ UNCHANGED <<buf, writePos, storing, pushed>>

\* The slot of the i-th of n samples before a position.
SlotFromNewest(w, n, i) == (w - 1 - i) % KSize

Slot(w, n, i) == ((w - n + i) % Wrap) % KSize

\* ... and one slot after the other, oldest first.
SnapLoad ==
  /\ snap # NoSnapshot
  /\ Len(snap.dst) < snap.n
  /\ snap' = [snap EXCEPT !.dst = Append(@, buf[Slot(snap.w, snap.n, Len(@))])]
  /\ UNCHANGED <<buf, writePos, storing, pushed>>

\* The copy is drawn, and forgotten.
SnapEnd ==
  /\ snap # NoSnapshot
  /\ Len(snap.dst) = snap.n
  /\ snap' = NoSnapshot
  /\ UNCHANGED <<buf, writePos, storing, pushed>>

-----------------------------------------------------------------------------

\* The k-th sample pushed; silence before the first.
Sample(k) == IF k > 0 THEN pushed[k] ELSE 0

\* A snapshot shows the latest n samples as of its beginning, oldest first.
\* A sample is overwritten only once the producer has come a whole lap past it
\* while the copy was running, and then by a later one of the same slot, never
\* by an older: what is drawn is never older than asked for.
SnapshotIsRecent ==
  snap # NoSnapshot =>
    \A i \in 1..Len(snap.dst) :
      LET wanted == snap.began - snap.n + i
      IN  \/ snap.dst[i] = Sample(wanted)
          \/ /\ wanted + KSize <= Len(pushed)
             /\ \E k \in wanted+1..Len(pushed) :
                  (k - wanted) % KSize = 0 /\ snap.dst[i] = pushed[k]
=============================================================================
