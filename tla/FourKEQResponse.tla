-------------------------- MODULE FourKEQResponse --------------------------
(***************************************************************************)
(* What one setting of the 4K EQ sounds like: the pure part of             *)
(* duskaudio::FourKEQDSP.  The numbers of a biquad are abstracted to what  *)
(* they are computed FROM: two designs are the same exactly when the       *)
(* parameters and the sample rate that went into them are the same.  That  *)
(* is all the auto-gain cache, the filter resets and the oversampling      *)
(* switch of FourKEQDSP.cpp can get wrong.                                 *)
(*                                                                         *)
(* A setting is a function from parameter names to integers: a band gain   *)
(* is 0 when it is neutral (at most 1.0e-6 dB), a switch is 0 or 1, the    *)
(* oversampling mode is 0, 1 or 2 and any other value only has to be told  *)
(* apart from its neighbours.                                              *)
(***************************************************************************)
EXTENDS Integers

\* Every parameter atomic of the core, under the key the shell gives it.
Param == {"lf_gain", "lf_freq", "lf_bell", "lm_gain", "lm_freq", "lm_q",
          "hm_gain", "hm_freq", "hm_q", "hf_gain", "hf_freq", "hf_bell",
          "hpf_freq", "hpf_enabled", "lpf_freq", "lpf_enabled", "eq_type",
          "input_gain", "output_gain", "saturation", "oversampling",
          "ms_mode", "auto_gain", "bypass"}

\* The filter sections of one channel (struct ChannelFilters); "hpf" stands
\* for hpf1, hpf2 and the insertion trim, a correction for its three biquads.
Section == {"hpf", "lf", "lm", "lowCorrection",
            "hm", "hf", "highCorrection", "lpf"}

\* The parameters recomputeCoeffs loads to design a section.
Inputs(s) ==
  CASE s = "hpf" -> {"hpf_freq", "eq_type"}
    [] s = "lpf" -> {"lpf_freq", "eq_type"}
    [] s = "lf"  -> {"lf_gain", "lf_freq", "lf_bell", "eq_type"}
    [] s = "lm"  -> {"lm_gain", "lm_freq", "lm_q", "eq_type"}
    [] s = "hm"  -> {"hm_gain", "hm_freq", "hm_q", "eq_type"}
    [] s = "hf"  -> {"hf_gain", "hf_freq", "hf_bell", "eq_type"}
    [] s = "lowCorrection"  -> {"lf_gain", "lf_freq", "lf_bell", "lm_gain",
                                "lm_freq", "lm_q", "eq_type"}
    [] s = "highCorrection" -> {"hm_gain", "hm_freq", "hm_q", "hf_gain",
                                "hf_freq", "hf_bell", "eq_type"}

\* The coefficients of a section: the high-pass poles run at the base rate,
\* everything else at the oversampled one.
Design(s, setting, rate, factor) ==
  [from |-> [q \in Inputs(s) |-> setting[q]],
   fs   |-> IF s = "hpf" THEN rate ELSE rate * factor]

Designs(setting, rate, factor) ==
  [s \in Section |-> Design(s, setting, rate, factor)]

\* The sections a setting puts in the signal path: an enabled filter, a band
\* off 0 dB, and a pair correction when both of its bands are off 0 dB.
HeardFilters(setting) == {s \in {"hpf", "lpf"} :
  setting[IF s = "hpf" THEN "hpf_enabled" ELSE "lpf_enabled"] = 1}

HeardBands(setting) ==
  LET active(s) == setting[CASE s = "lf" -> "lf_gain" [] s = "lm" -> "lm_gain"
                             [] s = "hm" -> "hm_gain" [] s = "hf" -> "hf_gain"] # 0
  IN  {s \in {"lf", "lm", "hm", "hf"} : active(s)}
        \cup {s \in {"lowCorrection"}  : active("lf") /\ active("lm")}
        \cup {s \in {"highCorrection"} : active("hm") /\ active("hf")}

Heard(setting) == HeardFilters(setting) \cup HeardBands(setting)

\* calcAutoGainCompensation: a function of the response of the sections in
\* the path, probed against the oversampled rate.
AutoComp(coef, setting, osRate) ==
  [of |-> [s \in Heard(setting) |-> coef[s]], osRate |-> osRate]

\* autoComp = 1.0f: no compensation.
Unity == [of |-> [s \in {} |-> 0], osRate |-> 0]

\* The raw parameters AutoGainSnapshot keys the cached compensation on.
KeyParamsForgettingQ ==
  {"lf_gain", "lf_freq", "lf_bell", "lm_gain", "lm_freq",
   "hm_gain", "hm_freq", "hf_gain", "hf_freq", "hf_bell",
   "eq_type", "hpf_freq", "hpf_enabled", "lpf_freq", "lpf_enabled"}

KeyParams ==
  {"lf_gain", "lf_freq", "lf_bell", "lm_gain", "lm_freq", "lm_q",
   "hm_gain", "hm_freq", "hm_q", "hf_gain", "hf_freq", "hf_bell",
   "eq_type", "hpf_freq", "hpf_enabled", "lpf_freq", "lpf_enabled"}

Key(setting, factor) ==
  [of |-> [q \in KeyParams |-> setting[q]], factor |-> factor]

\* chooseFactor: the requested factor, capped at high base rates.
ChooseFactorFromMode(rate, mode) ==
  IF rate >= 176400 THEN 1 ELSE mode

ChooseFactor(rate, mode) ==
  LET req == IF mode <= 0 THEN 1 ELSE IF mode = 1 THEN 2 ELSE 4
      cap == IF rate >= 176400 THEN 1 ELSE IF rate >= 88200 THEN 2 ELSE 4
  IN  IF req < cap THEN req ELSE cap

\* lround(Oversampler::latency()): 23 base-rate samples for the first stage
\* and 3.5 more for the second, rounded away from zero.
Latency(factor) == IF factor = 4 THEN 27 ELSE IF factor = 2 THEN 23 ELSE 0

\* The whole voice of a setting, computed from scratch: what one block of
\* wet signal is made of.
Voice(setting, rate) ==
  LET factor == ChooseFactor(rate, setting["oversampling"])
      coef   == Designs(setting, rate, factor)
  IN  [chain      |-> [s \in Heard(setting) |-> coef[s]],
       satRate    |-> rate * factor,
       console    |-> setting["eq_type"],
       saturation |-> setting["saturation"],
       ms         |-> setting["ms_mode"],
       inGain     |-> setting["input_gain"],
       outGain    |-> setting["output_gain"],
       comp       |-> IF setting["auto_gain"] = 1
                        THEN AutoComp(coef, setting, rate * factor)
                        ELSE Unity]
\* consoleSatResponse: the always-on saturator costs what its voicing and its
\* drive say, designed at the oversampled rate.
ConsoleSat(black, saturation, osRate) ==
  [console |-> black, saturation |-> saturation, fs |-> osRate]

-----------------------------------------------------------------------------
(* The drawn curve: a second design of the same voice, for the editors. *)

\* The rate the bands and the saturator are drawn at: that of the rate-capped
\* oversampling, as in the core.
CurveRateFixed(c, base) == 96000

CurveRate(c, base) == base * ChooseFactor(base, c["oversampling"])

\* designCurve: each section a set of controls puts on the graph, from the
\* controls that shape it, and the rates the sections live at.
DesignCurve(c, rate) ==
  LET osRate == CurveRate(c, rate)
      band == [lf |-> {"lf_gain", "lf_freq", "lf_bell"},
               lm |-> {"lm_gain", "lm_freq", "lm_q"},
               hm |-> {"hm_gain", "hm_freq", "hm_q"},
               hf |-> {"hf_gain", "hf_freq", "hf_bell"}]
      lfActive == c["lf_gain"] # 0
      lmActive == c["lm_gain"] # 0
      hmActive == c["hm_gain"] # 0
      hfActive == c["hf_gain"] # 0
      designed(controls, fs) ==
        [from |-> [q \in controls \cup {"eq_type"} |-> c[q]], fs |-> fs]
  IN  [baseSampleRate |-> rate, sampleRate |-> osRate,
       has |-> {s \in Section :
         \/ s = "hpf" /\ c["hpf_enabled"] = 1
         \/ s = "lpf" /\ c["lpf_enabled"] = 1
         \/ s = "lf" /\ lfActive
         \/ s = "lm" /\ lmActive
         \/ s = "hm" /\ hmActive
         \/ s = "hf" /\ hfActive
         \/ s = "lowCorrection" /\ lfActive /\ lmActive
         \/ s = "highCorrection" /\ hmActive /\ hfActive},
       coef |-> [s \in Section |->
         CASE s \in DOMAIN band -> designed(band[s], osRate)
           [] s = "hpf" -> designed({"hpf_freq"}, rate)
           [] s = "lpf" -> designed({"lpf_freq"}, osRate)
           [] s = "lowCorrection" -> designed(band.lf \cup band.lm, osRate)
           [] s = "highCorrection" -> designed(band.hm \cup band.hf, osRate)],
       saturation |-> ConsoleSat(c["eq_type"], c["saturation"], osRate)]

\* curveDbAt: what is multiplied at a point of the graph, each section against
\* the sample rate its frequency is normalised to.
CurveAt(d) ==
  [sections  |-> [s \in d.has |->
                    [coef |-> d.coef[s],
                     omegaAt |-> IF s = "hpf" THEN d.baseSampleRate
                                              ELSE d.sampleRate]],
   saturator |-> [response |-> d.saturation, omegaAt |-> d.sampleRate]]
============================================================================
