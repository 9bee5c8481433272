------------------------- MODULE FourKEQCalibration -------------------------
(***************************************************************************)
(* The frequency calibration: a dial's control coordinate to the frequency *)
(* that is heard, through fitted tables, and back by bisection.            *)
(*                                                                         *)
(* Frequencies are integers, in tenths of a hertz, gains in hundredths of  *)
(* a decibel; a band is "lf", "lm", "hm" or "hf", a filter "hpf" or "lpf", *)
(* a voicing 0 (brown) or 1 (black).                                       *)
(***************************************************************************)
EXTENDS Integers, Sequences

CONSTANTS EqFrequencyControls,  \* kEqFrequencyControls, by band
          EqGainControls,       \* kEqGainControls
          EqBands,              \* kBrownEqBands and kBlackEqBands, by voicing
          FilterCalibrations    \* kFilterCalibrations, by voicing and filter

\* interpolateAnchors, both forms.
Interpolate(x, xs, ys) ==
  IF x <= xs[1] THEN ys[1]
  ELSE IF x > xs[Len(xs)] THEN ys[Len(ys)]
  ELSE LET i == CHOOSE i \in 2..Len(xs) : xs[i - 1] < x /\ x <= xs[i]
       IN  ys[i - 1] + ((x - xs[i - 1]) * (ys[i] - ys[i - 1])) \div (xs[i] - xs[i - 1])

Abs(x) == IF x < 0 THEN -x ELSE x

\* denseBandIndex: LF and HF have a fit each for shelf and bell.
DenseBandIndex(band, bell) ==
  CASE band = "lf" -> IF bell THEN 2 ELSE 1
    [] band = "lm" -> 3
    [] band = "hm" -> 4
    [] band = "hf" -> IF bell THEN 6 ELSE 5

\* calibratedEqFrequency.  The ratio of the two fits is taken in ten
\* thousandths.
CalibratedEqFrequency(f, gain, band, type, bell) ==
  LET calibration == EqBands[type][DenseBandIndex(band, bell)]
      centre == calibration.frequency[11]
      base   == Interpolate(f, EqFrequencyControls[band], calibration.frequency)
      atGain == Interpolate(Abs(gain), EqGainControls, calibration.frequencyAtGain)
  IN  base + (base * (((atGain - centre) * 10000) \div centre)) \div 10000

\* calibratedFilterFrequency.
CalibratedFilterFrequency(f, filter, type) ==
  LET calibration == FilterCalibrations[type][filter]
  IN  Interpolate(f, calibration.control, calibration.frequency)

\* The bisection both inverses share: the coordinate between two that is heard
\* at a frequency, or the end nearest to it.  The code halves 48
\* times; in tenths of a hertz nothing moves after the 18th.
Halve(range, frequency, heard) ==
  LET mid == (range[1] + range[2]) \div 2
  IN  IF heard[mid] < frequency THEN <<mid, range[2]>> ELSE <<range[1], mid>>

Halved(frequency, first, last, heard) ==
  LET range[k \in 0..18] == IF k = 0 THEN <<first, last>>
                            ELSE Halve(range[k - 1], frequency, heard)
  IN  range

Bisect(frequency, first, last, heard) ==
  IF frequency <= heard[first] THEN first
  ELSE IF frequency >= heard[last] THEN last
  ELSE LET range == Halved(frequency, first, last, heard)[18]
       IN  (range[1] + range[2]) \div 2

\* controlForCalibratedEqFrequency.
ControlAtUnityGain(frequency, gain, band, type, bell) ==
  LET controls == EqFrequencyControls[band]
  IN  Bisect(frequency, controls[1], controls[21],
             [f \in Int |-> CalibratedEqFrequency(f, 0, band, type, bell)])

ControlForCalibratedEqFrequency(frequency, gain, band, type, bell) ==
  LET controls == EqFrequencyControls[band]
  IN  Bisect(frequency, controls[1], controls[21],
             [f \in Int |-> CalibratedEqFrequency(f, gain, band, type, bell)])

\* controlForCalibratedFilterFrequency.
ControlForCalibratedFilterFrequency(frequency, filter, type) ==
  LET control == FilterCalibrations[type][filter].control
  IN  Bisect(frequency, control[1], control[Len(control)],
             [f \in Int |-> CalibratedFilterFrequency(f, filter, type)])
=============================================================================
