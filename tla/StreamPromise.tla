---------------------------- MODULE StreamPromise ----------------------------
(***************************************************************************)
(* What the effect owes the host, apart from its tone: the stream of       *)
(* frames comes back as one signal, whatever blocks it was cut into.  Each *)
(* frame answers as the whole stream up to it, resampled by convolution,   *)
(* faded by one crossfade, and rounded.  There are no pieces, chunks,      *)
(* scratch buffers or delay lines here.                                    *)
(***************************************************************************)
EXTENDS Int16Samples, Sequences, FiniteSets

CONSTANTS Stream,        \* the frames the host has to play, <<left, right>>
          Blocks,        \* the block lengths it may choose
          Gain,          \* the input gain
          Rail,          \* where the console overloads, in samples
          PowerMax,      \* 1.0f of the crossfade
          TapUnit,       \* 1.0f of a filter tap
          TapsA, TapsB   \* the half-band filters of the two stages

VARIABLES taken,       \* how many frames have been played
          bypass,      \* whether the host has it bypassed
          power,       \* where the crossfade stands
          factor,      \* the oversampling factor
          answer,      \* the frames of the last block, processed
          clip_count   \* how many samples hit the rails of int16

promised == <<taken, bypass, power, factor, answer, clip_count>>

-----------------------------------------------------------------------------
(* Signals: functions from 0..n-1. *)

Signal(n, f(_)) == [k \in 0..n-1 |-> f(k)]
Length(s) == Cardinality(DOMAIN s)

\* The impulse response of a half-band filter, d samples in.
Tap(taps, d) ==
  LET C == 2 * Len(taps.side) - 1
      off == IF d < C THEN C - d ELSE d - C
  IN  IF off = 0 THEN taps.half
      ELSE IF off % 2 = 1 THEN taps.side[(off + 1) \div 2] ELSE 0

\* f[0] + ... + f[n - 1].
Sum(f, n) == LET s[i \in 0..n] == IF i = 0 THEN 0 ELSE s[i - 1] + f[i - 1] IN s[n]

Convolved(s, taps, n) ==
  Sum([d \in 0..(4 * Len(taps.side) - 2) |->
         IF n - d \in DOMAIN s THEN Tap(taps, d) * s[n - d] ELSE 0],
      4 * Len(taps.side) - 1)

\* Twice the rate: every other sample zero, filtered, and twice as loud.
Raised(s, taps) ==
  LET stuffed == Signal(2 * Length(s), LAMBDA k : IF k % 2 = 0 THEN s[k \div 2] ELSE 0)
  IN  Signal(2 * Length(s), LAMBDA k : 2 * Convolved(stuffed, taps, k))

\* Half the rate: filtered, and every other sample dropped.
Lowered(s, taps) ==
  Signal(Length(s) \div 2, LAMBDA k : Convolved(s, taps, 2 * k + 1))

Clamp(v, bound) == IF v > bound THEN bound ELSE IF v < -bound THEN -bound ELSE v

\* The overload, on a signal at the given scale.
Overloaded(s, scale) ==
  Signal(Length(s), LAMBDA k : Clamp(s[k], Rail * Unit * scale))

\* Up, through the console, and down again.
RoundTrip(s, f) ==
  CASE f = 1 -> Overloaded(s, 1)
    [] f = 2 -> LET wet == Lowered(Overloaded(Raised(s, TapsA), TapUnit), TapsA)
                IN  Signal(Length(s), LAMBDA k : wet[k] \div (TapUnit * TapUnit))
    [] f = 4 -> LET high == Raised(Raised(s, TapsA), TapsB)
                    wet  == Lowered(Lowered(Overloaded(high, TapUnit * TapUnit),
                                            TapsB), TapsA)
                IN  Signal(Length(s), LAMBDA k :
                             wet[k] \div (TapUnit * TapUnit * TapUnit * TapUnit))

\* The wet signal of the whole stream, by factor and channel.
Wet ==
  [f \in {1, 2, 4} |->
     [c \in 1..2 |->
        RoundTrip(Signal(Len(Stream), LAMBDA k : Gain * ToFloat(Stream[k + 1][c])), f)]]

-----------------------------------------------------------------------------

\* One sample of the bypass one-pole, as floats round it: short of 1 on the
\* way up, all the way to 0 on the way down.
NextPower(current, target) ==
  IF target < current THEN target + (current - target) \div 2
                      ELSE current + (target - current) \div 2

\* Where the crossfade is at each of the next n frames.
Fade(n) ==
  LET target == IF bypass THEN 0 ELSE PowerMax
      at[i \in 0..n] == IF i = 0 THEN power ELSE NextPower(at[i - 1], target)
  IN  at

\* Frame k of the stream when the crossfade is at p.
Heard(k, p) ==
  [c \in 1..2 |->
     LET dry == ToFloat(Stream[k][c])
     IN  dry + (p * (Wet[factor][c][k - 1] - dry)) \div PowerMax]

Init ==
  /\ taken = 0
  /\ bypass \in BOOLEAN
  /\ power = IF bypass THEN 0 ELSE PowerMax
  /\ factor \in {1, 2, 4}
  /\ answer = <<>>
  /\ clip_count = 0

Toggle ==
  /\ bypass' = ~bypass
  /\ UNCHANGED <<taken, power, factor, answer, clip_count>>

Render(n) ==
  /\ taken + n <= Len(Stream)
  /\ taken' = taken + n
  /\ LET fade  == Fade(n)
         heard == [i \in 1..n |-> Heard(taken + i, fade[i])]
     IN  /\ answer' = [i \in 1..n |-> <<ToInt16(heard[i][1]), ToInt16(heard[i][2])>>]
         /\ clip_count' = clip_count
              + Cardinality({x \in (1..n) \X (1..2) : Clips(heard[x[1]][x[2]])})
         /\ power' = fade[n]
  /\ UNCHANGED <<bypass, factor>>

Next == Toggle \/ \E n \in Blocks : Render(n)

Spec == Init /\ [][Next]_promised
=============================================================================
