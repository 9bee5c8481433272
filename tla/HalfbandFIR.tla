----------------------------- MODULE HalfbandFIR -----------------------------
(***************************************************************************)
(* duskaudio::HalfbandFIR: a symmetric filter whose history is a ring      *)
(* indexed by a mask.  Ring is a power of two in the code, so that `& mask`*)
(* is the remainder; nothing here needs more than that it is positive.     *)
(*                                                                         *)
(* Samples and taps are integers at a common scale.  A tap set is a record *)
(* of its centre tap (0.5 in the code) and of its one-sided taps, which    *)
(* stand at odd distances from the centre.                                 *)
(***************************************************************************)
EXTENDS Integers, Sequences

CONSTANT Ring  \* kRing

ASSUME RingAssumption == Ring \in Nat \ {0}

Empty == [buf |-> [i \in 0..Ring-1 |-> 0], pos |-> 0]

\* push: step, then store at the new position.
Push(r, x) ==
  LET pos == (r.pos + 1) % Ring
  IN  [buf |-> [r.buf EXCEPT ![pos] = x], pos |-> pos]

\* The sample pushed d pushes before the last.
Past(r, d) == r.buf[(r.pos - d) % Ring]

\* C = L / 2: every tap set has L = 4 * NSide - 1 taps.
Centre(taps) == 2 * Len(taps.side) - 1

\* static_assert(L / 2 + 2 * NSide - 1 < kRing).
Fits(taps) == Centre(taps) + 2 * Len(taps.side) - 1 < Ring

\* f[1] + ... + f[n].
SumTo(f, n) == LET s[i \in 0..n] == IF i = 0 THEN 0 ELSE s[i - 1] + f[i] IN s[n]

\* out: the centre and the pairs around it.
Out(r, taps) ==
  LET C == Centre(taps)
      pair == [i \in 1..Len(taps.side) |->
                 LET k == 2 * i - 1
                 IN  taps.side[i] * (Past(r, C - k) + Past(r, C + k))]
  IN  taps.half * Past(r, C) + SumTo(pair, Len(taps.side))
=============================================================================
