--------------------------- MODULE DuskOversampler ---------------------------
(***************************************************************************)
(* duskaudio::Oversampler: one channel's trip up to the oversampled rate   *)
(* and back, through stage A at 2x and stage B nested inside it at 4x.     *)
(* The state is a record: the factor and the four filter histories.        *)
(***************************************************************************)
EXTENDS HalfbandFIR

CONSTANTS TapsA, TapsB  \* kA and kB

ASSUME TapsAssumption ==
  \A taps \in {TapsA, TapsB} :
    taps \in [half : Int, side : Seq(Int)] /\ taps.side # <<>> /\ Fits(taps)

\* setFactor: anything but 2 and 4 is a passthrough.
FactorOf(f) == IF f = 4 THEN 4 ELSE IF f = 2 THEN 2 ELSE 1

FreshOversampler(f) ==
  [factor |-> FactorOf(f), upA |-> Empty, downA |-> Empty,
   upB |-> Empty, downB |-> Empty]

\* latency(), in half samples: 23.0f for the first stage, 3.5f for the second.
TwiceLatency(f) == IF f = 4 THEN 46 + 7 ELSE IF f = 2 THEN 46 ELSE 0

\* A sample and a zero go in, two samples come out.
Up(r, x, taps) ==
  LET first == Push(r, x)
      second == Push(first, 0)
  IN  [ring |-> second, phases |-> <<2 * Out(first, taps), 2 * Out(second, taps)>>]

\* Two samples go in, one comes out.
Down(r, phases, taps) ==
  LET both == Push(Push(r, phases[1]), phases[2])
  IN  [ring |-> both, y |-> Out(both, taps)]

\* process4xInner: a 2x sample to 4x, through f, and back.
Process4xInner(os, s, f) ==
  LET up   == Up(os.upB, s, TapsB)
      down == Down(os.downB, <<f[up.phases[1]], f[up.phases[2]]>>, TapsB)
  IN  [os |-> [os EXCEPT !.upB = up.ring, !.downB = down.ring], y |-> down.y]

\* processSample: f runs at the oversampled rate.
ProcessSample(os, x, f) ==
  LET up    == Up(os.upA, x, TapsA)
      first == IF os.factor = 2
                 THEN [os |-> os, y |-> f[up.phases[1]]]
                 ELSE Process4xInner(os, up.phases[1], f)
      second == IF os.factor = 2
                  THEN [os |-> os, y |-> f[up.phases[2]]]
                  ELSE Process4xInner(first.os, up.phases[2], f)
      down  == Down(os.downA, <<first.y, second.y>>, TapsA)
  IN  IF os.factor = 1 THEN [os |-> os, y |-> f[x]]
      ELSE [os |-> [second.os EXCEPT !.upA = up.ring, !.downA = down.ring],
            y |-> down.y]

\* The split form: all phases up, then all of them down.
UpsampleSample(os, x) ==
  LET a  == Up(os.upA, x, TapsA)
      b0 == Up(os.upB, a.phases[1], TapsB)
      b1 == Up(b0.ring, a.phases[2], TapsB)
  IN  CASE os.factor = 1 -> [os |-> os, phases |-> <<x>>]
        [] os.factor = 2 -> [os |-> [os EXCEPT !.upA = a.ring], phases |-> a.phases]
        [] os.factor = 4 -> [os |-> [os EXCEPT !.upA = a.ring, !.upB = b1.ring],
                             phases |-> b0.phases \o b1.phases]

DownsampleSwapped(os, phases) ==
  LET b1 == Down(os.downB, SubSeq(phases, 3, 4), TapsB)
      b0 == Down(b1.ring, SubSeq(phases, 1, 2), TapsB)
      a  == Down(os.downA, IF os.factor = 2 THEN phases ELSE <<b0.y, b1.y>>, TapsA)
  IN  CASE os.factor = 1 -> [os |-> os, y |-> phases[1]]
        [] os.factor = 2 -> [os |-> [os EXCEPT !.downA = a.ring], y |-> a.y]
        [] os.factor = 4 -> [os |-> [os EXCEPT !.downA = a.ring, !.downB = b0.ring],
                             y |-> a.y]

DownsampleSample(os, phases) ==
  LET b0 == Down(os.downB, SubSeq(phases, 1, 2), TapsB)
      b1 == Down(b0.ring, SubSeq(phases, 3, 4), TapsB)
      a  == Down(os.downA, IF os.factor = 2 THEN phases ELSE <<b0.y, b1.y>>, TapsA)
  IN  CASE os.factor = 1 -> [os |-> os, y |-> phases[1]]
        [] os.factor = 2 -> [os |-> [os EXCEPT !.downA = a.ring], y |-> a.y]
        [] os.factor = 4 -> [os |-> [os EXCEPT !.downA = a.ring, !.downB = b1.ring],
                             y |-> a.y]
=============================================================================
